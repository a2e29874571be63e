------------------------------- MODULE Jsonl --------------------------------
(***************************************************************************)
(* JSON as jsonl.cpp prints and parses it, and the lines that model.cpp    *)
(* makes of contacts: objects of strings with the array of the contact's   *)
(* history in them, which holds objects of strings again.                  *)
(*                                                                         *)
(* A value is [str |-> text], [arr |-> sequence of values] or              *)
(* [obj |-> function from keys to values].  Numbers, true, false and null, *)
(* which no text that is read here contains, are left out: the parser      *)
(* refuses them.  So are the escapes that the printer never writes, and    *)
(* "ctl" is a control character that has none of its own.                  *)
(***************************************************************************)
EXTENDS Chars

CONSTANTS Columns,      \* how many strings a contact has beside its history
          FieldKey,     \* their keys
          HistoryKey,   \* the key of its history
          EntryKey,     \* the keys of an entry of the history, as std::map sorts them
          Order         \* the columns as std::map sorts their keys; 0 is the history

KeyOf(i) == IF i = 0 THEN HistoryKey ELSE FieldKey[i]

ASSUME KeysAssumption ==
    /\ Columns \in Nat \ {0}
    /\ FieldKey \in [1 .. Columns -> Seq(Char)] /\ HistoryKey \in Seq(Char)
    /\ EntryKey \in Seq(Seq(Char))
    /\ \A i \in 0 .. Columns : Clean(KeyOf(i)) = KeyOf(i)
    /\ \A i \in DOMAIN EntryKey : Clean(EntryKey[i]) = EntryKey[i]
    /\ \A i, j \in 0 .. Columns : KeyOf(i) = KeyOf(j) => i = j
    /\ \A i, j \in DOMAIN EntryKey : EntryKey[i] = EntryKey[j] => i = j
ASSUME OrderAssumption ==
    /\ Order \in [1 .. Columns + 1 -> 0 .. Columns]
    /\ \A i \in 0 .. Columns : \E k \in 1 .. Columns + 1 : Order[k] = i

\* The contacts: their strings, and their history, each entry of it by the places
\* of EntryKey.
Contact == [fields : [1 .. Columns -> Seq(Char)], history : Seq([DOMAIN EntryKey -> Seq(Char)])]

-----------------------------------------------------------------------------
(* Writing                                                                   *)

Short == [c \in {Quote, Back, LF, CR, "\t"} |->
    CASE c = Quote -> Quote [] c = Back -> Back
      [] c = LF -> "n" [] c = CR -> "r" [] c = "\t" -> "t"]

Escaped(c) ==
    CASE c \in DOMAIN Short -> << Back, Short[c] >>
      [] c = "ctl" -> << Back, "u", "0", "0", "1", "f" >>
      [] OTHER -> << c >>

\* Mutant of Escape: a line break is written as it is.
EscapeNoBreaks(s) ==
    FlattenSeq([i \in DOMAIN s |-> IF s[i] = LF THEN << LF >> ELSE Escaped(s[i])])

Escape(s) == FlattenSeq([i \in DOMAIN s |-> Escaped(s[i])])

DumpString(s) == << Quote >> \o Escape(s) \o << Quote >>

\* dump_impl, of an array and of an object whose parts have been dumped.
Joined(parts) ==
    FlattenSeq([i \in DOMAIN parts |->
        parts[i] \o IF i = Len(parts) THEN << >> ELSE << "," >>])
DumpArray(values) == << "[" >> \o Joined(values) \o << "]" >>
DumpObject(members) == << "{" >> \o Joined(members) \o << "}" >>
Member(key, value) == DumpString(key) \o << ":" >> \o value

DumpEntry(entry) ==
    DumpObject([i \in DOMAIN EntryKey |-> Member(EntryKey[i], DumpString(entry[i]))])

\* Contact::to_json, dumped.
DumpColumn(contact, i) ==
    IF i = 0 THEN DumpArray([k \in DOMAIN contact.history |-> DumpEntry(contact.history[k])])
    ELSE DumpString(contact.fields[i])
Dump(contact) ==
    DumpObject([k \in DOMAIN Order |-> Member(KeyOf(Order[k]), DumpColumn(contact, Order[k]))])

JsonlText(book) == FlattenSeq([k \in DOMAIN book |-> Dump(book[k]) \o << LF >>])

-----------------------------------------------------------------------------
(* Parsing a line, one character after the other.  mode is what is expected  *)
(* next; open is the innermost array or object that is not closed yet, with  *)
(* the key whose value is due in it and what is open around it.  When the    *)
(* value is "done", open is the value.                                       *)

Nothing == << >>
Inside(value, around) == [value |-> value, due |-> << >>, around |-> around]
St(mode, open) == [mode |-> mode, open |-> open, text |-> << >>, skip |-> 0]
Fresh == St("value", Nothing)

IsArr(value) == "arr" \in DOMAIN value
IsObj(value) == "obj" \in DOMAIN value
IsStr(value) == "str" \in DOMAIN value

\* A value is complete: it goes into what is open.
Put(open, value) ==
    IF open = Nothing THEN St("done", value)
    ELSE St("after", Inside(IF IsArr(open.value) THEN [arr |-> Append(open.value.arr, value)]
                            ELSE [obj |-> With(open.value.obj, open.due[1], value)],
                            open.around))

KeyDue(open) == open # Nothing /\ IsObj(open.value) /\ open.due = << >>

Blanks == {"\t", CR, LF}

Structure(st, c) ==
    CASE st.mode = "done" \/ c \in Blanks -> st     \* what follows a value is not looked at
      [] st.mode \in {"value", "value_or_end"} /\ c = "[" ->
            St("value_or_end", Inside([arr |-> << >>], st.open))
      [] st.mode \in {"value", "value_or_end"} /\ c = "{" ->
            St("key_or_end", Inside([obj |-> << >>], st.open))
      [] st.mode \in {"value", "value_or_end", "key", "key_or_end"} /\ c = Quote ->
            St("string", st.open)
      [] st.mode = "colon" /\ c = ":" -> St("value", st.open)
      [] st.mode = "after" /\ c = "," ->
            St(IF IsArr(st.open.value) THEN "value" ELSE "key", st.open)
      [] \/ st.mode \in {"after", "value_or_end"} /\ c = "]" /\ IsArr(st.open.value)
         \/ st.mode \in {"after", "key_or_end"} /\ c = "}" /\ IsObj(st.open.value) ->
            Put(st.open.around, st.open.value)
      [] OTHER -> St("error", st.open)

Long == [e \in {Quote, Back, "n", "r", "t"} |->
    CHOOSE c \in DOMAIN Short : Short[c] = e]

StringEnds(st) ==
    IF KeyDue(st.open) THEN St("colon", [st.open EXCEPT !.due = << st.text >>])
    ELSE Put(st.open, [str |-> st.text])

\* An unknown escape stands for itself; a \u is dropped with its four digits.
InString(st, c) ==
    CASE st.mode = "string" /\ c = Quote -> StringEnds(st)
      [] st.mode = "string" /\ c = Back -> [st EXCEPT !.mode = "escape"]
      [] st.mode = "escape" /\ c = "u" -> [st EXCEPT !.mode = "digits", !.skip = 4]
      [] st.mode = "digits" /\ st.skip > 1 -> [st EXCEPT !.skip = @ - 1]
      [] st.mode = "digits" /\ st.skip <= 1 -> [st EXCEPT !.mode = "string", !.skip = 0]
      [] OTHER -> [st EXCEPT !.mode = "string",
                      !.text = Append(@, IF st.mode = "escape" /\ c \in DOMAIN Long
                                         THEN Long[c] ELSE c)]

Took(st, c) ==
    IF st.mode \in {"string", "escape", "digits"} THEN InString(st, c) ELSE Structure(st, c)

\* Mutant of Parsed: the end of the line closes an object as "}" does.
ParsedUnclosed(line) ==
    LET st  == Through(Took, Fresh, line)
        end == IF st.mode = "string" THEN StringEnds(st) ELSE st
    IN  IF end.mode = "after" THEN Put(end.open.around, end.open.value) ELSE end

Parsed(line) == Through(Took, Fresh, line)

\* J::parse throws unless the line begins with a value.  A string needs no
\* closing quote, an array or object needs its bracket.
IsJson(line) ==
    \/ Parsed(line).mode = "done"
    \/ Parsed(line).open = Nothing /\ Parsed(line).mode \in {"string", "escape", "digits"}
Parse(line) ==
    IF Parsed(line).mode = "done" THEN Parsed(line).open ELSE [str |-> Parsed(line).text]

-----------------------------------------------------------------------------
(* What is made of the lines                                                 *)

\* from_json throws when a key is missing or has another kind of value.
Has(value, keys) ==
    /\ IsObj(value)
    /\ \A i \in DOMAIN keys : keys[i] \in DOMAIN value.obj /\ IsStr(value.obj[keys[i]])
IsContact(value) ==
    /\ Has(value, FieldKey)
    /\ HistoryKey \in DOMAIN value.obj /\ IsArr(value.obj[HistoryKey])
    /\ LET entries == value.obj[HistoryKey].arr
       IN \A k \in DOMAIN entries : Has(entries[k], EntryKey)

TextsIn(value, keys) == [i \in DOMAIN keys |-> value.obj[keys[i]].str]
FromJson(value) ==
    [fields  |-> TextsIn(value, FieldKey),
     history |-> LET entries == value.obj[HistoryKey].arr
                 IN [k \in DOMAIN entries |-> TextsIn(entries[k], EntryKey)]]

\* merge skips the lines that it cannot read.
Readable(line) == IsJson(line) /\ IsContact(Parse(line))
ReadableContacts(text) ==
    LET lines == LinesOf(text)
    IN FlattenSeq([k \in DOMAIN lines |->
            IF Readable(lines[k]) THEN << FromJson(Parse(lines[k])) >> ELSE << >>])
=============================================================================
