----------------------------- MODULE IndexFile ------------------------------
(***************************************************************************)
(* The text of the index file, as PersistentIndex::save writes it and      *)
(* load_or_build reads it: a line for the hash of the data, then a line    *)
(* with key and position for each entry of the two maps.                   *)
(*                                                                         *)
(* Abstractions: "hash=", "email:" and "phone:" count as one character     *)
(* each, and so do a hash and a position, of which there are as many as    *)
(* Numbers has.  The order of a map's entries is any: nothing depends on   *)
(* it, for its keys differ.                                                *)
(***************************************************************************)
EXTENDS Chars

CONSTANTS EmailColumn, PhoneColumn,   \* where a contact has its keys
          Numbers                     \* what std::to_string makes of the positions

ASSUME NumbersAssumption ==
    /\ Numbers \in Seq(Char \ {LF})
    /\ \A i, j \in DOMAIN Numbers : Numbers[i] = Numbers[j] => i = j

\* load_or_build without an index file: the last contact with a key has it.
KeyMap(rows, column) ==
    [key \in {rows[i][column] : i \in DOMAIN rows} |->
        CHOOSE i \in DOMAIN rows : /\ rows[i][column] = key
                                   /\ \A j \in DOMAIN rows : rows[j][column] = key => j <= i]

KeyMaps(rows) == [email |-> KeyMap(rows, EmailColumn), phone |-> KeyMap(rows, PhoneColumn)]

MapText(map, prefix) ==
    FlattenSeq([n \in 1 .. Cardinality(DOMAIN map) |->
        LET key == SetToSeq(DOMAIN map)[n]
        IN  << prefix >> \o key \o << "=", Numbers[map[key]], LF >>])

IndexText(hash, maps) ==
    << "hash=", hash, LF >> \o MapText(maps.email, "email:") \o MapText(maps.phone, "phone:")

-----------------------------------------------------------------------------
FirstEquals(line) == CHOOSE i \in DOMAIN line :
    line[i] = "=" /\ \A j \in 1 .. i - 1 : line[j] # "="

\* Mutant of KeyIn: the '=' is taken for a part of the key.
KeyAndEquals(line) == SubSeq(line, 2, FirstEquals(line))

KeyIn(line) == SubSeq(line, 2, FirstEquals(line) - 1)

HasEntry(line) == Head(line) \in {"email:", "phone:"} /\ Contains(line, "=")

\* std::stoull of what follows the first '=', which throws unless that is a number.
NumberIn(line) ==
    LET rest == SubSeq(line, FirstEquals(line) + 1, Len(line))
    IN  SelectInSeq(Numbers, LAMBDA d : rest # << >> /\ d = Head(rest))

IndexEntry(maps, line) ==
    LET Added(map) == With(map, KeyIn(line), NumberIn(line))
    IN  CASE ~HasEntry(line) -> maps
          [] HasEntry(line) /\ Head(line) = "email:" -> [maps EXCEPT !.email = Added(@)]
          [] HasEntry(line) /\ Head(line) = "phone:" -> [maps EXCEPT !.phone = Added(@)]

\* Maps are taken from a file that names the data, and made anew otherwise; an
\* exception on the way leaves none.
MapsFrom(text, hash, rows) ==
    LET lines == LinesOf(text)
    IN  IF lines = << >> \/ Head(lines) # << "hash=", hash >> THEN KeyMaps(rows)
        ELSE IF \E k \in DOMAIN lines : HasEntry(lines[k]) /\ NumberIn(lines[k]) = 0 THEN Failed
        ELSE Through(IndexEntry, [email |-> << >>, phone |-> << >>], Tail(lines))
=============================================================================
