----------------------------- MODULE JsonLines ------------------------------
(***************************************************************************)
(* The lines of a JSONL file as the file helpers of cli.cpp read them.     *)
(*                                                                         *)
(* Abstractions: a line is what J::parse makes of it; a text is a model    *)
(* value and the conversions of texts are functions between them.  Escapes *)
(* and the layout that dump gives a rewritten line are left out.           *)
(***************************************************************************)
EXTENDS Naturals, Sequences

CONSTANTS
    Texts,       \* the strings that fields hold
    NoText,      \* the empty string
    Absent,      \* a field that is missing or is not a string
    Shaped,      \* the texts that is_email_like finds an address in
    Dotted,      \* the texts that hold an '@' and a '.'
    Found,       \* the texts that the pattern given to grep matches
    Spelled,     \* the lines that some texts are the characters of
    Trim, Lower, Digits,       \* trim, lower . trim and phone_digits
    StarEmail, StarPhone       \* mask_email and mask_phone

ASSUME TextsAssumption ==
    /\ NoText \in Texts /\ Absent \notin Texts
    /\ {Trim, Lower, Digits, StarEmail, StarPhone} \subseteq [Texts -> Texts]

Fields == Texts \cup {Absent}

Bare(form) == [form |-> form, name |-> Absent, email |-> Absent, phone |-> Absent]

\* "empty": no character; "broken": J::parse throws; "scalar": not an object.
Line == {Bare(form) : form \in {"empty", "broken", "scalar"}}
        \cup [form : {"object"}, name : Fields, email : Fields, phone : Fields]

ASSUME SpelledAssumption ==
    DOMAIN Spelled \subseteq Texts /\ Spelled \in [DOMAIN Spelled -> Line]

IsEmpty(l) == l.form = "empty"
Parses(l) == l.form \in {"scalar", "object"}

\* An e-mail and a whole line are keys of one kind, strings: the key of a record
\* whose e-mail reads like the line of another is the key of that one.
AsKey(t) == IF t \in DOMAIN Spelled THEN Spelled[t] ELSE t

\* Mutant of DedupeKey: nobody asks whether the e-mail is a string.
EmailAsKey(l) == AsKey(l.email)

\* What identifies a record to dedupe and to merge.
DedupeKey(l) == IF l.email # Absent THEN AsKey(l.email) ELSE l
MergeKey(l) == IF l.email \notin {Absent, NoText} THEN AsKey(l.email) ELSE l

HasName(l) == l.name \notin {Absent, NoText}
Valid(l) == Parses(l) /\ HasName(l) /\ (l.email # Absent => l.email \in Shaped)
ValidThreaded(l) == Parses(l) /\ HasName(l) /\ (l.email # Absent => l.email \in Dotted)

\* A field with a string in it is rewritten, another is left as it is.
Rewrite(f, field) == IF field = Absent THEN Absent ELSE f[field]

Redacted(l) ==
    [l EXCEPT !.email = Rewrite(StarEmail, @), !.phone = Rewrite(StarPhone, @)]

Normalized(l) ==
    [l EXCEPT !.name = Rewrite(Trim, @), !.email = Rewrite(Lower, @),
              !.phone = Rewrite(Digits, @)]

Matches(l) == l.name \in Found \/ l.email \in Found

\* The e-mails of a file, and the places of its records.
EmailsIn(text) == {text[i].email : i \in DOMAIN text} \ {Absent}
RecordsIn(text) == {i \in DOMAIN text : ~IsEmpty(text[i])}
=============================================================================
