--------------------------- MODULE MCInterchange ----------------------------
(* Small instances of export, the data file, encryption, reading back and     *)
(* diff for TLC.                                                              *)
EXTENDS Interchange

CONSTANTS k1, k2, short, pass, aad

\* The id, the name, which diff compares, and created_at, which it does not.
MCHeader == << << "i" >>, << "n" >>, << "t" >> >>
MCFieldKey == << << "i" >>, << "n" >>, << "c" >> >>
MCHistoryKey == << "h" >>
MCEntryKey == << << "a" >> >>
MCOrder == << 3, 0, 1, 2 >>
MCRank == [id \in {<< "1" >>, << "2" >>} |-> IF id = << "1" >> THEN 1 ELSE 2]

MCNumbers == << "0", "1", "2" >>

\* What the names are made of, and what the codecs write beside them.
Characters == {"n", ",", Quote, LF, CR, "\t", Back, "ctl", "="}
MCChar == Characters \cup {"{", "}", "[", "]", ":", "u", "0", "1", "2", "f", "r", "t", "h", "i",
                          "c", "a", "hash=", "email:", "phone:"}

Names == BoundedSeq(Characters, 2)

Of(id, name, history) ==
    [fields |-> << << id >>, name, << >> >>, history |-> [n \in DOMAIN history |-> << history[n] >>]]

\* One contact with any name of up to two characters; two contacts, not sorted;
\* one with brackets, quotes and control characters in its history.
MCBooks ==
    {<< >>} \cup {<< Of("1", n, << >>) >> : n \in Names}
            \cup {<< Of("2", n, << << >> >>), Of("1", m, << >>) >> :
                    n \in {<< >>, << "," >>, << CR >>, << "ctl" >>, << "=" >>},
                    m \in {<< >>, << LF >>, << Quote >>}}
            \cup {<< Of("1", << "n" >>, << << x >>, << "n" >> >>) >> : x \in {"}", "]", Quote, "ctl"}}

\* Books with another name and another created_at.
MCOtherBooks ==
    {<< Of("1", << "n" >>, << >>) >>,
     << [Of("1", << "," >>, << << "n" >> >>) EXCEPT !.fields[3] = << "1" >>], Of("2", << >>, << >>) >>}
=============================================================================
