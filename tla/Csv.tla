-------------------------------- MODULE Csv ---------------------------------
(***************************************************************************)
(* CSV as csv_escape and export_data (storage.cpp) write it and            *)
(* csv_parse_rfc4180 (csv.cpp) reads it.  A string is a sequence of        *)
(* characters.  export_data sorts a copy of the contacts by id.            *)
(***************************************************************************)
EXTENDS Chars, FiniteSets

CONSTANTS Rank,     \* the place of each id in the order of strings
          Header    \* the names of the columns

-----------------------------------------------------------------------------
(* Writing                                                                   *)

\* Mutant of CsvEscape: quotes inside a quoted field are not doubled.
QuotedOnly(s) ==
    IF \E i \in DOMAIN s : s[i] \in {",", Quote, LF} THEN << Quote >> \o s \o << Quote >> ELSE s

Doubled(c) == IF c = Quote THEN << Quote, Quote >> ELSE << c >>

CsvEscape(s) ==
    IF \E i \in DOMAIN s : s[i] \in {",", Quote, LF}
    THEN << Quote >> \o FlattenSeq([i \in DOMAIN s |-> Doubled(s[i])]) \o << Quote >>
    ELSE s

CsvLine(row) ==
    FlattenSeq([i \in DOMAIN row |->
        CsvEscape(row[i]) \o IF i = Len(row) THEN << LF >> ELSE << "," >>])

\* The row at a place is the one that has as many rows before it: ids differ.
Before(rows, k) == {j \in DOMAIN rows : Rank[rows[j][1]] < Rank[rows[k][1]]}
Sorted(rows) ==
    [p \in DOMAIN rows |->
        rows[CHOOSE k \in DOMAIN rows : Cardinality(Before(rows, k)) = p - 1]]

CsvText(rows) ==
    CsvLine(Header) \o FlattenSeq([k \in DOMAIN rows |-> CsvLine(Sorted(rows)[k])])

-----------------------------------------------------------------------------
(* Reading, one character after the other.  mode says what came before:      *)
(* "quote" is a quote within quotes, "cr" a CR that an LF may follow.         *)

CsvStart == [rows |-> << >>, row |-> << >>, field |-> << >>, mode |-> "plain"]

Pushed(st, c) == [st EXCEPT !.field = Append(@, c)]
FieldEnded(st) == [st EXCEPT !.row = Append(@, st.field), !.field = << >>]
RowEnded(st) ==
    [FieldEnded(st) EXCEPT !.rows = Append(@, FieldEnded(st).row), !.row = << >>]

Unquoted(st, c) ==
    CASE c = Quote -> [st EXCEPT !.mode = "quoted"]
      [] c = "," -> FieldEnded(st)
      [] c = CR -> [RowEnded(st) EXCEPT !.mode = "cr"]
      [] c = LF -> RowEnded(st)
      [] OTHER -> Pushed(st, c)

Fed(st, c) ==
    CASE st.mode = "quoted" /\ c = Quote -> [st EXCEPT !.mode = "quote"]
      [] st.mode = "quoted" /\ c # Quote -> Pushed(st, c)
      [] st.mode = "quote" /\ c = Quote -> [Pushed(st, c) EXCEPT !.mode = "quoted"]
      [] st.mode = "cr" /\ c = LF -> [st EXCEPT !.mode = "plain"]
      [] OTHER -> Unquoted([st EXCEPT !.mode = "plain"], c)

\* What is left at the end is a row too, even when it is empty.
CsvRows(text) == RowEnded(Through(Fed, CsvStart, text)).rows

CsvParse(text) ==
    IF \A k \in DOMAIN CsvRows(text) : Len(CsvRows(text)[k]) = Len(CsvRows(text)[1])
    THEN CsvRows(text) ELSE Failed

\* The contacts of a file: the rows below the header that are wide enough.
CsvContacts(text) ==
    IF CsvParse(text) = Failed THEN Failed
    ELSE LET rows == Tail(CsvParse(text))
         IN  FlattenSeq([k \in DOMAIN rows |->
                IF Len(rows[k]) >= Len(Header) THEN << rows[k] >> ELSE << >>])
=============================================================================
