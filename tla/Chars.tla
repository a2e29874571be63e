------------------------------- MODULE Chars --------------------------------
(* The characters that CSV and JSON treat in a way of their own, and the     *)
(* answers of their parsers when a text is not well formed.  A text is a     *)
(* sequence of characters.                                                   *)
EXTENDS Naturals, Sequences, SequencesExt

CONSTANTS Char,     \* the characters, and what counts as one
          Failed    \* csv_parse_rfc4180 returned false

Quote == "\""
Back == "\\"
CR == "\r"
LF == "\n"

ASSUME CharAssumption ==
    /\ {Quote, Back, CR, LF, "\t", ",", ":", "{", "}", "[", "]", "=", "ctl", "u", "0", "1", "f",
        "n", "r", "t", "hash=", "email:", "phone:", "h"} \subseteq Char
    /\ Failed \notin Seq(Seq(Seq(Char)))

\* What is made of a text one character after the other: FoldLeft by the places
\* of the text.
Through(Step(_, _), start, text) ==
    LET after[k \in 0 .. Len(text)] == IF k = 0 THEN start ELSE Step(after[k - 1], text[k])
    IN  after[Len(text)]

\* What a text is without the control characters that have no escape.
Clean(s) == FlattenSeq([i \in DOMAIN s |-> IF s[i] = "ctl" THEN << >> ELSE << s[i] >>])

\* A map with an entry more, or another one.
With(map, key, n) == [k \in DOMAIN map \cup {key} |-> IF k = key THEN n ELSE map[k]]

\* The lines between the line breaks that are not empty.
NoLines == [lines |-> << >>, line |-> << >>]
Cut(st, c) ==
    IF c # LF THEN [st EXCEPT !.line = Append(@, c)]
    ELSE [lines |-> IF st.line = << >> THEN st.lines ELSE Append(st.lines, st.line),
          line  |-> << >>]
LinesOf(text) == Cut(Through(Cut, NoLines, text), LF).lines
=============================================================================
