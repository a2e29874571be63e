--------------------------- MODULE MCFileHelpers ----------------------------
(* Small instances of the file helpers for TLC. *)
EXTENDS FileHelpers

CONSTANTS t1, t2,                \* threads
          ann, spaced,           \* a name, and the same between blanks
          addr, upper, stars,    \* an address, the same in capitals, masked
          odd,                   \* "a@b.c": dotted, but no address to the regex
          phone, digits,         \* a phone as typed and as digits
          number                 \* "42", which is a line of JSON as well

MCTrim == [t \in Texts |-> IF t = spaced THEN ann ELSE t]
MCLower == [t \in Texts |-> IF t = upper THEN addr ELSE t]
MCDigits == [t \in Texts |-> IF t = phone THEN digits ELSE t]
MCStarEmail == [t \in Texts |-> IF t = NoText THEN t ELSE stars]
MCStarPhone == [t \in Texts |-> IF t = NoText THEN t ELSE stars]

Object(n, e, p) == [form |-> "object", name |-> n, email |-> e, phone |-> p]

Ann == Object(ann, addr, phone)
Ann2 == Object(spaced, upper, digits)
Again == Object(spaced, addr, Absent)
NoMail == Object(ann, NoText, Absent)
NoMail2 == Object(NoText, NoText, phone)
Odd == Object(ann, odd, Absent)
Anon == Object(Absent, Absent, phone)
Empty == Bare("empty")
Broken == Bare("broken")
Scalar == Bare("scalar")
Numbered == Object(ann, number, Absent)

MCSpelled == [t \in {number} |-> Scalar]

MCContents ==
    {<< >>, << Ann >>, << Ann, Empty, Again >>, << Ann, Broken, Again, Ann2 >>,
     << NoMail, Anon, NoMail2, Anon >>, << Scalar, Odd, Scalar, Broken >>,
     << Numbered, Scalar, Odd >>}
=============================================================================
