------------------------- MODULE ContactBookProofs -------------------------
(***************************************************************************)
(* What the operators of ContactBook do to the maps of a book, for every   *)
(* vector of keys.  The facts about keys (ExactAppend, ExactRebuild,       *)
(* ExactReplace, ExactRemove) say that each operation keeps the maps exact *)
(* when it is given exact maps; the others carry them over to contacts.    *)
(***************************************************************************)
EXTENDS ContactBook, SequenceTheorems, WellFoundedInduction, TLAPS

(* Every non-empty set of positions up to n has a greatest element.  (Used   *)
(* for the last assignment of a loop that fills a map.)                      *)
LEMMA GreatestPosition ==
    ASSUME NEW n \in Nat, NEW T \in SUBSET (1 .. n), T # {}
    PROVE  \E x \in T : \A y \in T : y <= x
  <1> DEFINE U == {n - y : y \in T}
  <1>1. U \subseteq Nat
    OBVIOUS
  <1>2. U # {}
    OBVIOUS
  <1> HIDE DEF U
  <1>3. \E u \in U : \A v \in U : << v, u >> \notin OpToRel(<, Nat)
    BY <1>1, <1>2, NatLessThanWellFounded, WFMin
  <1>4. PICK u \in U : \A v \in U : ~(v < u)
    BY <1>1, <1>3 DEF OpToRel
  <1>5. PICK x \in T : u = n - x
    BY <1>4 DEF U
  <1>6. ASSUME NEW y \in T
        PROVE  y <= x
    <2>1. n - y \in U
      BY DEF U
    <2>2. QED
      BY <1>1, <1>4, <1>5, <2>1
  <1>7. QED
    BY <1>6

(* Two contacts of a vector with exact maps never share a key: exactness is  *)
(* what makes the program's duplicate checks sufficient.                     *)
THEOREM ExactDistinct ==
    ASSUME NEW ks, NEW f, Exact(ks, f)
    PROVE  Distinct(ks)
  BY DEF Exact, Distinct

(* The map of an exact book only leads to positions that hold the key.       *)
LEMMA ExactLeads ==
    ASSUME NEW ks, NEW f, Exact(ks, f), NEW k \in DOMAIN f
    PROVE  f[k] \in DOMAIN ks /\ ks[f[k]] = k
  BY DEF Exact

(* push_back of a key that is not in the map.                                *)
LEMMA ExactAppend ==
    ASSUME NEW K, NEW ks \in Seq(K), NEW f, Exact(ks, f), NEW k \in K, k \notin DOMAIN f
    PROVE  Exact(Append(ks, k), Put(f, k, Len(ks) + 1))
  <1> DEFINE kx == Append(ks, k)
             g  == Put(f, k, Len(ks) + 1)
  <1>1. /\ Len(ks) \in Nat /\ DOMAIN ks = 1 .. Len(ks) /\ DOMAIN kx = 1 .. Len(ks) + 1
        /\ kx[Len(ks) + 1] = k
        /\ \A i \in DOMAIN ks : kx[i] = ks[i]
    BY AppendProperties, LenProperties
  <1>2. DOMAIN g = DOMAIN f \cup {k}
    BY DEF Put
  <1>3. \A i \in DOMAIN ks : ks[i] # k
    BY DEF Exact
  <1> HIDE DEF kx, g
  <1>4. DOMAIN g = {kx[i] : i \in DOMAIN kx}
    <2>1. DOMAIN kx = DOMAIN ks \cup {Len(ks) + 1}
      BY <1>1
    <2>2. {kx[i] : i \in DOMAIN kx} = {ks[i] : i \in DOMAIN ks} \cup {k}
      BY <1>1, <2>1
    <2>3. QED
      BY <1>2, <2>2 DEF Exact
  <1>5. ASSUME NEW i \in DOMAIN kx
        PROVE  g[kx[i]] = i
    <2>1. CASE i = Len(ks) + 1
      BY <1>1, <2>1 DEF Put, g
    <2>2. CASE i \in DOMAIN ks
      BY <1>1, <1>3, <2>2 DEF Put, Exact, g
    <2>3. QED
      BY <1>1, <2>1, <2>2
  <1>6. QED
    BY <1>4, <1>5 DEF Exact, kx, g

(* An edit that gives position i a key no other position has.                *)
LEMMA ExactReplace ==
    ASSUME NEW K, NEW ks \in Seq(K), NEW f, Exact(ks, f),
           NEW i \in DOMAIN ks, NEW k \in K, k \in DOMAIN f => f[k] = i
    PROVE  Exact([ks EXCEPT ![i] = k], Put(Erase(f, ks[i]), k, i))
  <1> DEFINE kx == [ks EXCEPT ![i] = k]
             g  == Put(Erase(f, ks[i]), k, i)
  <1>1. Distinct(ks)
    BY ExactDistinct
  <1>2. /\ DOMAIN kx = DOMAIN ks /\ kx[i] = k
        /\ \A j \in DOMAIN ks : j # i => kx[j] = ks[j] /\ ks[j] # ks[i]
    BY <1>1 DEF Distinct
  <1>3. DOMAIN g = (DOMAIN f \ {ks[i]}) \cup {k}
    BY DEF Put, Erase
  <1>4. DOMAIN f = {ks[j] : j \in DOMAIN ks}
    BY DEF Exact
  <1>5. DOMAIN g = {kx[j] : j \in DOMAIN kx}
    BY <1>2, <1>3, <1>4
  <1>6. ASSUME NEW j \in DOMAIN kx
        PROVE  g[kx[j]] = j
    <2>1. CASE j = i
      BY <1>2, <2>1 DEF Put
    <2>2. CASE j # i
      <3>1. ks[j] # k
        BY <1>2, <2>2 DEF Exact
      <3>2. QED
        BY <1>2, <2>2, <3>1 DEF Put, Erase, Exact
    <2>3. QED
      BY <2>1, <2>2
  <1>7. QED
    BY <1>5, <1>6 DEF Exact

-----------------------------------------------------------------------------
(* The loop that assigns positions lo, lo + 1, ... to their keys.            *)

(* A key the loop meets ends up at a position that holds it.                 *)
LEMMA LastAtPosition ==
    ASSUME NEW K, NEW ks \in Seq(K), NEW lo \in Nat,
           NEW j \in DOMAIN ks, j >= lo
    PROVE  /\ LastAt(ks, lo, ks[j]) \in DOMAIN ks
           /\ ks[LastAt(ks, lo, ks[j])] = ks[j]
           /\ LastAt(ks, lo, ks[j]) >= lo
  <1> DEFINE T == {i \in DOMAIN ks : i >= lo /\ ks[i] = ks[j]}
  <1>1. Len(ks) \in Nat /\ DOMAIN ks = 1 .. Len(ks)
    BY LenProperties
  <1>2. T \in SUBSET (1 .. Len(ks)) /\ T # {}
    BY <1>1
  <1>3. PICK x \in T : \A y \in T : y <= x
    BY <1>1, <1>2, GreatestPosition
  <1>4. \A y \in DOMAIN ks : y > x => ks[y] # ks[j]
    BY <1>1, <1>3
  <1>5. QED
    BY <1>3, <1>4 DEF LastAt

(* With no key twice, that position is its own.                              *)
LEMMA LastAtDistinct ==
    ASSUME NEW K, NEW ks \in Seq(K), Distinct(ks), NEW lo \in Nat,
           NEW j \in DOMAIN ks, j >= lo
    PROVE  LastAt(ks, lo, ks[j]) = j
  BY LastAtPosition DEF Distinct

(* The loop gives maps of positions, whatever the keys.                      *)
LEMMA AssignFromType ==
    ASSUME NEW K, NEW ks \in Seq(K), NEW lo \in Nat, NEW f, IsMap(f, K)
    PROVE  IsMap(AssignFrom(f, ks, lo), K)
  <1> DEFINE tail == {ks[i] : i \in {j \in DOMAIN ks : j >= lo}}
             g    == AssignFrom(f, ks, lo)
  <1>1. DOMAIN ks \subseteq Nat /\ \A i \in DOMAIN ks : ks[i] \in K
    BY LenProperties, ElementOfSeq
  <1>2. /\ DOMAIN g = DOMAIN f \cup tail
        /\ g = [k \in DOMAIN g |-> IF k \in tail THEN LastAt(ks, lo, k) ELSE f[k]]
    BY DEF AssignFrom
  <1>3. \A k \in tail : LastAt(ks, lo, k) \in Nat
    BY <1>1, LastAtPosition
  <1> HIDE DEF g, tail
  <1>4. \A k \in DOMAIN g : g[k] \in Nat
    BY <1>2, <1>3 DEF IsMap
  <1>5. DOMAIN g \subseteq K
    BY <1>1, <1>2 DEF IsMap, tail
  <1>6. g \in [DOMAIN g -> Nat]
    BY <1>2, <1>4
  <1>7. QED
    BY <1>5, <1>6 DEF IsMap, g

(* load_or_build's rebuild of a vector without duplicates is exact.          *)
LEMMA ExactRebuild ==
    ASSUME NEW K, NEW ks \in Seq(K), Distinct(ks)
    PROVE  Exact(ks, AssignFrom(EmptyMap, ks, 1))
  <1>1. DOMAIN ks \subseteq Nat /\ \A j \in DOMAIN ks : j >= 1
    BY LenProperties
  <1>2. DOMAIN EmptyMap = {}
    BY DEF EmptyMap
  <1>3. {j \in DOMAIN ks : j >= 1} = DOMAIN ks
    BY <1>1
  <1>4. \A j \in DOMAIN ks : LastAt(ks, 1, ks[j]) = j
    BY <1>1, LastAtDistinct
  <1>5. QED
    BY <1>2, <1>3, <1>4 DEF AssignFrom, Exact

(* delete_contact: the keys after the deleted one move down by one, and the  *)
(* loop over the tail follows them.                                          *)
LEMMA RemoveFacts ==
    ASSUME NEW K, NEW ks \in Seq(K), NEW i \in DOMAIN ks
    PROVE  /\ WithoutPosition(ks, i) \in Seq(K)
           /\ DOMAIN WithoutPosition(ks, i) = 1 .. Len(ks) - 1
           /\ \A j \in 1 .. Len(ks) - 1 :
                WithoutPosition(ks, i)[j] = IF j < i THEN ks[j] ELSE ks[j + 1]
  <1>1. Len(ks) \in Nat /\ DOMAIN ks = 1 .. Len(ks) /\ \A j \in DOMAIN ks : ks[j] \in K
    BY LenProperties, ElementOfSeq
  <1>2. Len(ks) - 1 \in Nat
    BY <1>1
  <1>3. \A j \in 1 .. Len(ks) - 1 : (IF j < i THEN ks[j] ELSE ks[j + 1]) \in K
    BY <1>1
  <1>4. WithoutPosition(ks, i) \in [1 .. Len(ks) - 1 -> K]
    BY <1>3 DEF WithoutPosition
  <1>5. WithoutPosition(ks, i) \in Seq(K)
    BY <1>2, <1>4, IsASeq
  <1>6. QED
    BY <1>5 DEF WithoutPosition

(* Taking one element out, erasing its key and indexing again what moved     *)
(* down leaves an exact map exact: the loop at the end of delete_contact.    *)
LEMMA ExactRemove ==
    ASSUME NEW K, NEW ks \in Seq(K), NEW f, Exact(ks, f), NEW i \in DOMAIN ks
    PROVE  Exact(WithoutPosition(ks, i),
                 AssignFrom(Erase(f, ks[i]), WithoutPosition(ks, i), i))
  <1> DEFINE kx == WithoutPosition(ks, i)
             tail == {kx[j] : j \in {l \in DOMAIN kx : l >= i}}
             g  == AssignFrom(Erase(f, ks[i]), kx, i)
  <1>1. Len(ks) \in Nat /\ DOMAIN ks = 1 .. Len(ks) /\ i \in Nat
    BY LenProperties
  <1>2. /\ kx \in Seq(K) /\ DOMAIN kx = 1 .. Len(ks) - 1
        /\ \A j \in DOMAIN kx : kx[j] = IF j < i THEN ks[j] ELSE ks[j + 1]
    BY RemoveFacts
  <1>3. Distinct(ks) /\ DOMAIN f = {ks[j] : j \in DOMAIN ks}
    BY ExactDistinct DEF Exact
  <1> HIDE DEF kx
  <1>4. Distinct(kx)
    BY SMTT(30), <1>1, <1>2, <1>3 DEF Distinct
  <1>5. DOMAIN g = (DOMAIN f \ {ks[i]}) \cup tail
    BY DEF AssignFrom, Erase
  <1>6. {kx[j] : j \in DOMAIN kx} = DOMAIN f \ {ks[i]}
    <2>1. ASSUME NEW j \in DOMAIN kx
          PROVE  kx[j] \in DOMAIN f \ {ks[i]}
      <3>1. PICK l \in DOMAIN ks : l # i /\ kx[j] = ks[l]
        BY <1>1, <1>2
      <3>2. QED
        BY <1>3, <3>1 DEF Distinct
    <2>2. ASSUME NEW k \in DOMAIN f \ {ks[i]}
          PROVE  \E j \in DOMAIN kx : kx[j] = k
      <3>1. PICK l \in DOMAIN ks : l # i /\ ks[l] = k
        BY <1>3
      <3>2. CASE l < i
        BY <1>1, <1>2, <3>1, <3>2
      <3>3. CASE l > i
        <4>1. l - 1 \in DOMAIN kx /\ kx[l - 1] = ks[l]
          BY <1>1, <1>2, <3>3
        <4>2. QED
          BY <3>1, <4>1
      <3>4. QED
        BY <1>1, <3>1, <3>2, <3>3
    <2>3. QED
      BY <2>1, <2>2
  <1>7. tail \subseteq {kx[j] : j \in DOMAIN kx}
    OBVIOUS
  <1>8. ASSUME NEW j \in DOMAIN kx
        PROVE  g[kx[j]] = j
    <2>1. CASE j >= i
      <3>1. kx[j] \in tail /\ LastAt(kx, i, kx[j]) = j
        BY <1>1, <1>2, <1>4, <2>1, LastAtDistinct
      <3>2. QED
        BY <3>1 DEF AssignFrom
    <2>2. CASE j < i
      <3>1. kx[j] \notin tail
        BY <1>1, <1>2, <1>4, <2>2 DEF Distinct
      <3>2. kx[j] = ks[j] /\ kx[j] # ks[i] /\ kx[j] \in DOMAIN f /\ f[ks[j]] = j
        BY <1>1, <1>2, <1>3, <2>2 DEF Distinct, Exact
      <3>3. QED
        BY <3>1, <3>2 DEF AssignFrom, Erase
    <2>3. QED
      BY <1>1, <1>2, <2>1, <2>2
  <1>9. QED
    BY <1>5, <1>6, <1>7, <1>8 DEF Exact, kx

-----------------------------------------------------------------------------
(* From keys to contacts.                                                    *)

(* The keys and ids of a sequence of contacts are sequences as long as it.   *)
LEMMA KeysOfContacts ==
    ASSUME NEW cs \in Seq(Contact)
    PROVE  /\ EmailsOf(cs) \in Seq(Emails) /\ PhonesOf(cs) \in Seq(Phones)
           /\ IdsOf(cs) \in Seq(Ids)
           /\ DOMAIN EmailsOf(cs) = DOMAIN cs /\ DOMAIN PhonesOf(cs) = DOMAIN cs
           /\ DOMAIN IdsOf(cs) = DOMAIN cs
           /\ Len(EmailsOf(cs)) = Len(cs) /\ Len(PhonesOf(cs)) = Len(cs)
           /\ Len(cs) \in Nat /\ DOMAIN cs = 1 .. Len(cs)
           /\ \A i \in DOMAIN cs : cs[i] \in Contact
  <1>1. Len(cs) \in Nat /\ DOMAIN cs = 1 .. Len(cs) /\ \A i \in DOMAIN cs : cs[i] \in Contact
    BY LenProperties, ElementOfSeq
  <1>2. /\ EmailsOf(cs) \in [1 .. Len(cs) -> Emails]
        /\ PhonesOf(cs) \in [1 .. Len(cs) -> Phones]
        /\ IdsOf(cs) \in [1 .. Len(cs) -> Ids]
    BY <1>1 DEF EmailsOf, PhonesOf, IdsOf, Contact
  <1>3. /\ EmailsOf(cs) \in Seq(Emails) /\ PhonesOf(cs) \in Seq(Phones)
        /\ IdsOf(cs) \in Seq(Ids)
    BY SMTT(30), <1>1, <1>2, IsASeq
  <1>4. QED
    BY <1>1, <1>2, <1>3, LenProperties

(* Appending a contact appends its keys.                                     *)
LEMMA KeysOfAppend ==
    ASSUME NEW cs \in Seq(Contact), NEW c \in Contact
    PROVE  /\ Append(cs, c) \in Seq(Contact)
           /\ Len(Append(cs, c)) = Len(cs) + 1
           /\ EmailsOf(Append(cs, c)) = Append(EmailsOf(cs), c.email)
           /\ PhonesOf(Append(cs, c)) = Append(PhonesOf(cs), c.phone)
           /\ IdsOf(Append(cs, c)) = Append(IdsOf(cs), c.id)
  <1>1. c.email \in Emails /\ c.phone \in Phones /\ c.id \in Ids
    BY DEF Contact
  <1> DEFINE cx == Append(cs, c)
  <1>2. /\ cx \in Seq(Contact) /\ Len(cx) = Len(cs) + 1 /\ cx[Len(cs) + 1] = c
        /\ \A i \in 1 .. Len(cs) : cx[i] = cs[i]
    BY AppendProperties
  <1> HIDE DEF cx
  <1>3. ASSUME NEW K, NEW ks \in Seq(K), NEW kx \in Seq(K), NEW k \in K,
               Len(kx) = Len(ks) + 1, kx[Len(ks) + 1] = k,
               \A i \in 1 .. Len(ks) : kx[i] = ks[i]
        PROVE  kx = Append(ks, k)
    BY <1>3, AppendProperties, SeqEqual, LenProperties
  <1>4. /\ DOMAIN cx = 1 .. Len(cs) + 1 /\ Len(cs) \in Nat
        /\ EmailsOf(cx) = [i \in DOMAIN cx |-> cx[i].email]
        /\ PhonesOf(cx) = [i \in DOMAIN cx |-> cx[i].phone]
        /\ IdsOf(cx) = [i \in DOMAIN cx |-> cx[i].id]
    BY <1>2, KeysOfContacts DEF EmailsOf, PhonesOf, IdsOf
  <1>5. EmailsOf(cx) = Append(EmailsOf(cs), c.email)
    <2>1. /\ EmailsOf(cx)[Len(cs) + 1] = c.email
          /\ \A i \in 1 .. Len(cs) : EmailsOf(cx)[i] = EmailsOf(cs)[i]
      BY <1>2, <1>4, KeysOfContacts DEF EmailsOf
    <2>2. QED
      BY <1>1, <1>2, <1>3, <2>1, KeysOfContacts
  <1>6. PhonesOf(cx) = Append(PhonesOf(cs), c.phone)
    <2>1. /\ PhonesOf(cx)[Len(cs) + 1] = c.phone
          /\ \A i \in 1 .. Len(cs) : PhonesOf(cx)[i] = PhonesOf(cs)[i]
      BY <1>2, <1>4, KeysOfContacts DEF PhonesOf
    <2>2. QED
      BY <1>1, <1>2, <1>3, <2>1, KeysOfContacts
  <1>7. IdsOf(cx) = Append(IdsOf(cs), c.id)
    <2>1. /\ IdsOf(cx)[Len(cs) + 1] = c.id
          /\ \A i \in 1 .. Len(cs) : IdsOf(cx)[i] = IdsOf(cs)[i]
      BY <1>2, <1>4, KeysOfContacts DEF IdsOf
    <2>2. QED
      BY <1>1, <1>2, <1>3, <2>1, KeysOfContacts
  <1>8. QED
    BY <1>2, <1>5, <1>6, <1>7 DEF cx

(* Two distinct contacts of an exact book share neither e-mail nor phone.    *)
LEMMA ExactBookDistinct ==
    ASSUME NEW b, ExactBook(b)
    PROVE  Distinct(EmailsOf(b.contacts)) /\ Distinct(PhonesOf(b.contacts))
  BY ExactDistinct DEF ExactBook

(* The maps of an exact book lead to contacts.                               *)
LEMMA MapsLead ==
    ASSUME NEW b, IsBook(b), ExactBook(b)
    PROVE  /\ \A k \in DOMAIN b.email : b.email[k] \in DOMAIN b.contacts
           /\ \A k \in DOMAIN b.phone : b.phone[k] \in DOMAIN b.contacts
  BY ExactLeads, KeysOfContacts DEF ExactBook, IsBook

(* With the empty skip, and no contact whose id is empty, a key is taken as  *)
(* soon as it is in the map.                                                 *)
LEMMA TakenKeys ==
    ASSUME NEW b, IsBook(b), ExactBook(b), Named(IdsOf(b.contacts)), NEW oob
    PROVE  /\ \A k : EmailExists(b, k, Blank, oob) <=> k \in DOMAIN b.email
           /\ \A k : PhoneExists(b, k, Blank, oob) <=> k \in DOMAIN b.phone
  <1>1. \A i \in DOMAIN b.contacts : b.contacts[i].id # Blank
    BY DEF Named, IdsOf
  <1>2. QED
    BY <1>1, MapsLead DEF EmailExists, PhoneExists, Exists

(* Setting a key to a position keeps a map a map.                            *)
LEMMA PutType ==
    ASSUME NEW K, NEW f, IsMap(f, K), NEW k \in K, NEW i \in Nat
    PROVE  IsMap(Put(f, k, i), K)
  BY DEF IsMap, Put

(* Erasing a key keeps a map a map.                                          *)
LEMMA EraseType ==
    ASSUME NEW K, NEW f, IsMap(f, K), NEW k
    PROVE  IsMap(Erase(f, k), K)
  BY DEF IsMap, Erase

(* push_back, as add_contact and import use it, keeps a book a book and,     *)
(* when neither key is taken, keeps exact maps exact.                        *)
LEMMA PushBackType ==
    ASSUME NEW b, IsBook(b), NEW c \in Contact
    PROVE  IsBook(PushBack(b, c))
  <1>1. /\ Append(b.contacts, c) \in Seq(Contact)
        /\ Len(Append(b.contacts, c)) \in Nat
    BY KeysOfAppend, KeysOfContacts DEF IsBook
  <1>2. c.email \in Emails /\ c.phone \in Phones
    BY DEF Contact
  <1>3. QED
    BY <1>1, <1>2, PutType DEF IsBook, PushBack, Book

(* push_back with two free keys keeps exact maps exact.                      *)
LEMMA PushBackExact ==
    ASSUME NEW b, IsBook(b), ExactBook(b), NEW c \in Contact,
           c.email \notin DOMAIN b.email, c.phone \notin DOMAIN b.phone
    PROVE  ExactBook(PushBack(b, c))
  <1>1. c.email \in Emails /\ c.phone \in Phones
    BY DEF Contact
  <1>2. b.contacts \in Seq(Contact)
    BY DEF IsBook
  <1>3. Exact(Append(EmailsOf(b.contacts), c.email), Put(b.email, c.email, Len(b.contacts) + 1))
    BY <1>1, <1>2, KeysOfContacts, ExactAppend DEF ExactBook
  <1>4. Exact(Append(PhonesOf(b.contacts), c.phone), Put(b.phone, c.phone, Len(b.contacts) + 1))
    BY <1>1, <1>2, KeysOfContacts, ExactAppend DEF ExactBook
  <1>5. QED
    BY <1>2, <1>3, <1>4, KeysOfAppend DEF ExactBook, PushBack, Book

(* The empty book of a process that is not running.                          *)
LEMMA EmptyBookFacts ==
    /\ IsBook(NoBook) /\ ExactBook(NoBook)
    /\ Distinct(IdsOf(<< >>)) /\ Named(IdsOf(<< >>))
  <1>1. << >> \in Seq(Contact) /\ DOMAIN << >> = {}
    BY EmptySeq
  <1>2. IsMap(EmptyMap, Emails) /\ IsMap(EmptyMap, Phones)
    BY DEF IsMap, EmptyMap
  <1>3. EmailsOf(<< >>) = << >> /\ PhonesOf(<< >>) = << >> /\ IdsOf(<< >>) = << >>
    BY <1>1 DEF EmailsOf, PhonesOf, IdsOf
  <1>4. Exact(<< >>, EmptyMap)
    BY <1>1 DEF Exact, EmptyMap
  <1>5. QED
    BY <1>1, <1>2, <1>3, <1>4 DEF NoBook, Book, IsBook, ExactBook, Distinct, Named

(* A new contact with an id of its own keeps the ids of a book what they     *)
(* were: none empty, no two the same.                                        *)
LEMMA PushBackIds ==
    ASSUME NEW b, IsBook(b), NEW c \in Contact
    PROVE  /\ Named(IdsOf(b.contacts)) /\ c.id # Blank
                => Named(IdsOf(PushBack(b, c).contacts))
           /\ Distinct(IdsOf(b.contacts)) /\ Positions(b, c.id) = {}
                => Distinct(IdsOf(PushBack(b, c).contacts))
  <1> DEFINE cs == b.contacts
  <1>1. cs \in Seq(Contact) /\ Len(cs) \in Nat /\ DOMAIN cs = 1 .. Len(cs)
    BY KeysOfContacts DEF IsBook
  <1>2. /\ Append(cs, c) \in Seq(Contact) /\ Len(Append(cs, c)) = Len(cs) + 1
        /\ DOMAIN Append(cs, c) = 1 .. Len(cs) + 1
        /\ Append(cs, c)[Len(cs) + 1] = c
        /\ \A i \in 1 .. Len(cs) : Append(cs, c)[i] = cs[i]
    BY <1>1, AppendProperties, LenProperties
  <1>3. PushBack(b, c).contacts = Append(cs, c)
    BY DEF PushBack, Book
  <1>4. ASSUME Named(IdsOf(cs)), c.id # Blank
        PROVE  Named(IdsOf(Append(cs, c)))
    <2>1. \A i \in DOMAIN cs : cs[i].id # Blank
      BY <1>4 DEF Named, IdsOf
    <2>2. \A i \in DOMAIN Append(cs, c) : Append(cs, c)[i].id # Blank
      BY <1>1, <1>2, <1>4, <2>1
    <2>3. QED
      BY <2>2 DEF Named, IdsOf
  <1>5. ASSUME Distinct(IdsOf(cs)), Positions(b, c.id) = {}
        PROVE  Distinct(IdsOf(Append(cs, c)))
    <2>1. \A i \in DOMAIN cs : cs[i].id # c.id
      BY <1>5 DEF Positions
    <2>2. \A i, j \in DOMAIN cs : cs[i].id = cs[j].id => i = j
      BY <1>5 DEF Distinct, IdsOf
    <2>3. \A i, j \in DOMAIN Append(cs, c) : Append(cs, c)[i].id = Append(cs, c)[j].id => i = j
      BY <1>1, <1>2, <2>1, <2>2
    <2>4. QED
      BY <2>3 DEF Distinct, IdsOf
  <1>6. QED
    BY <1>3, <1>4, <1>5

(* What add_contact, import and a new row of a merge leave in memory: a      *)
(* contact joins the book only when neither of its keys is in the maps.      *)
LEMMA AddKeepsBook ==
    ASSUME NEW b, IsBook(b), NEW c \in Contact, NEW oob,
           ~EmailExists(b, c.email, Blank, oob), ~PhoneExists(b, c.phone, Blank, oob)
    PROVE  /\ IsBook(PushBack(b, c))
           /\ ExactBook(b) /\ Named(IdsOf(b.contacts)) => ExactBook(PushBack(b, c))
  <1>1. ASSUME ExactBook(b), Named(IdsOf(b.contacts))
        PROVE  ExactBook(PushBack(b, c))
    <2>1. c.email \notin DOMAIN b.email /\ c.phone \notin DOMAIN b.phone
      BY <1>1, TakenKeys
    <2>2. QED
      BY <1>1, <2>1, PushBackExact
  <1>2. QED
    BY <1>1, PushBackType

(* load_or_build makes a book of any contacts.                               *)
LEMMA RebuiltType ==
    ASSUME NEW cs \in Seq(Contact)
    PROVE  IsBook(Rebuilt(cs))
  <1>1. IsMap(EmptyMap, Emails) /\ IsMap(EmptyMap, Phones)
    BY DEF IsMap, EmptyMap
  <1>2. QED
    BY <1>1, KeysOfContacts, AssignFromType DEF Rebuilt, Book, IsBook

(* Maps built from contacts without two equal keys are exact.                *)
LEMMA RebuiltExact ==
    ASSUME NEW cs \in Seq(Contact), Distinct(EmailsOf(cs)), Distinct(PhonesOf(cs))
    PROVE  ExactBook(Rebuilt(cs))
  BY KeysOfContacts, ExactRebuild DEF Rebuilt, Book, ExactBook

-----------------------------------------------------------------------------
(* edit_contact.                                                             *)

(* A set of positions that is not empty has a least one.                     *)
LEMMA LeastPosition ==
    ASSUME NEW T \in SUBSET Nat, T # {}
    PROVE  \E x \in T : \A y \in T : x <= y
  <1>1. \E x \in T : \A y \in T : << y, x >> \notin OpToRel(<, Nat)
    BY NatLessThanWellFounded, WFMin
  <1>2. PICK x \in T : \A y \in T : ~(y < x)
    BY <1>1 DEF OpToRel
  <1>3. QED
    BY <1>2

(* edit and delete find a contact that has the id they look for.             *)
LEMMA FirstPositionFact ==
    ASSUME NEW b, IsBook(b), NEW id, Positions(b, id) # {}
    PROVE  /\ FirstPosition(b, id) \in DOMAIN b.contacts
           /\ b.contacts[FirstPosition(b, id)].id = id
  <1>1. Positions(b, id) \in SUBSET Nat
    BY KeysOfContacts DEF Positions, IsBook
  <1>2. \E i \in Positions(b, id) : \A j \in Positions(b, id) : i <= j
    BY <1>1, LeastPosition
  <1>3. FirstPosition(b, id) \in Positions(b, id)
    BY <1>2 DEF FirstPosition
  <1>4. QED
    BY <1>3 DEF Positions

(* Each of the four assignments, on the contacts alone.                      *)
LEMMA FieldChange ==
    ASSUME NEW cs \in Seq(Contact), NEW i \in DOMAIN cs, NEW c \in Contact
    PROVE  /\ [cs EXCEPT ![i] = c] \in Seq(Contact)
           /\ EmailsOf([cs EXCEPT ![i] = c]) = [EmailsOf(cs) EXCEPT ![i] = c.email]
           /\ PhonesOf([cs EXCEPT ![i] = c]) = [PhonesOf(cs) EXCEPT ![i] = c.phone]
           /\ IdsOf([cs EXCEPT ![i] = c]) = [IdsOf(cs) EXCEPT ![i] = c.id]
           /\ [EmailsOf(cs) EXCEPT ![i] = cs[i].email] = EmailsOf(cs)
           /\ [PhonesOf(cs) EXCEPT ![i] = cs[i].phone] = PhonesOf(cs)
           /\ [IdsOf(cs) EXCEPT ![i] = cs[i].id] = IdsOf(cs)
  <1>1. [cs EXCEPT ![i] = c] \in Seq(Contact)
    BY ExceptSeq
  <1>2. QED
    BY <1>1 DEF EmailsOf, PhonesOf, IdsOf

(* A contact replaced by one with the same id: the book stays a book, and    *)
(* its maps are exact when they are so for the changed keys.                 *)
LEMMA ReplaceFacts ==
    ASSUME NEW b, IsBook(b), NEW i \in DOMAIN b.contacts,
           NEW c \in Contact, c.id = b.contacts[i].id,
           NEW fe, IsMap(fe, Emails), NEW fp, IsMap(fp, Phones),
           NEW bx, bx = Book([b.contacts EXCEPT ![i] = c], fe, fp)
    PROVE  /\ IsBook(bx)
           /\ IdsOf(bx.contacts) = IdsOf(b.contacts)
           /\ DOMAIN bx.contacts = DOMAIN b.contacts
           /\ ExactBook(bx) <=> /\ Exact([EmailsOf(b.contacts) EXCEPT ![i] = c.email], fe)
                               /\ Exact([PhonesOf(b.contacts) EXCEPT ![i] = c.phone], fp)
  <1>1. bx.contacts = [b.contacts EXCEPT ![i] = c] /\ bx.email = fe /\ bx.phone = fp
    BY DEF Book
  <1>2. b.contacts \in Seq(Contact)
    BY DEF IsBook
  <1>3. bx.contacts \in Seq(Contact)
    BY <1>1, <1>2, ExceptSeq
  <1>4. IsBook(bx)
    BY <1>1, <1>3 DEF IsBook
  <1>5. IdsOf(bx.contacts) = IdsOf(b.contacts)
    BY <1>1 DEF IdsOf
  <1>6. DOMAIN bx.contacts = DOMAIN b.contacts
    BY <1>1
  <1>7. /\ EmailsOf(bx.contacts) = [EmailsOf(b.contacts) EXCEPT ![i] = c.email]
        /\ PhonesOf(bx.contacts) = [PhonesOf(b.contacts) EXCEPT ![i] = c.phone]
    BY <1>1 DEF EmailsOf, PhonesOf
  <1>8. QED
    BY <1>1, <1>4, <1>5, <1>6, <1>7 DEF ExactBook

(* The keys a position already holds, written over themselves.               *)
LEMMA SameKeys ==
    ASSUME NEW b, IsBook(b), NEW i \in DOMAIN b.contacts
    PROVE  /\ [EmailsOf(b.contacts) EXCEPT ![i] = b.contacts[i].email] = EmailsOf(b.contacts)
           /\ [PhonesOf(b.contacts) EXCEPT ![i] = b.contacts[i].phone] = PhonesOf(b.contacts)
           /\ IsMap(b.email, Emails) /\ IsMap(b.phone, Phones)
           /\ b.contacts[i] \in Contact
  BY FieldChange, KeysOfContacts DEF IsBook

(* A new name changes no key and no id.                                      *)
LEMMA SetNameFacts ==
    ASSUME NEW b, IsBook(b), NEW i \in DOMAIN b.contacts, NEW n \in Names \cup {Blank}
    PROVE  /\ IsBook(SetName(b, i, n))
           /\ IdsOf(SetName(b, i, n).contacts) = IdsOf(b.contacts)
           /\ DOMAIN SetName(b, i, n).contacts = DOMAIN b.contacts
           /\ ExactBook(b) => ExactBook(SetName(b, i, n))
  <1>1. CASE n = Blank
    BY <1>1 DEF SetName
  <1>2. CASE n # Blank
    <2> DEFINE c == [b.contacts[i] EXCEPT !.name = n]
    <2>1. b.contacts[i] \in Contact
      BY KeysOfContacts DEF IsBook
    <2>2. /\ c \in Contact /\ c.email = b.contacts[i].email
          /\ c.phone = b.contacts[i].phone /\ c.id = b.contacts[i].id
      BY <1>2, <2>1 DEF Contact
    <2>3. SetName(b, i, n) = Book([b.contacts EXCEPT ![i] = c], b.email, b.phone)
      BY <1>2 DEF SetName
    <2> HIDE DEF c
    <2>4. /\ IsBook(SetName(b, i, n))
          /\ IdsOf(SetName(b, i, n).contacts) = IdsOf(b.contacts)
          /\ DOMAIN SetName(b, i, n).contacts = DOMAIN b.contacts
          /\ ExactBook(SetName(b, i, n))
               <=> /\ Exact([EmailsOf(b.contacts) EXCEPT ![i] = c.email], b.email)
                   /\ Exact([PhonesOf(b.contacts) EXCEPT ![i] = c.phone], b.phone)
      BY <2>2, <2>3, SameKeys, ReplaceFacts
    <2>5. /\ [EmailsOf(b.contacts) EXCEPT ![i] = c.email] = EmailsOf(b.contacts)
          /\ [PhonesOf(b.contacts) EXCEPT ![i] = c.phone] = PhonesOf(b.contacts)
      BY <2>2, SameKeys, Zenon
    <2>6. QED
      BY <2>4, <2>5 DEF ExactBook
  <1>3. QED
    BY <1>1, <1>2

(* A new note changes no key and no id.                                      *)
LEMMA SetNoteFacts ==
    ASSUME NEW b, IsBook(b), NEW i \in DOMAIN b.contacts, NEW n \in Notes \cup {Blank}
    PROVE  /\ IsBook(SetNote(b, i, n))
           /\ IdsOf(SetNote(b, i, n).contacts) = IdsOf(b.contacts)
           /\ ExactBook(b) => ExactBook(SetNote(b, i, n))
  <1>1. CASE n = Blank
    BY <1>1 DEF SetNote
  <1>2. CASE n # Blank
    <2> DEFINE c == [b.contacts[i] EXCEPT !.note = n]
    <2>1. b.contacts[i] \in Contact
      BY KeysOfContacts DEF IsBook
    <2>2. /\ c \in Contact /\ c.email = b.contacts[i].email
          /\ c.phone = b.contacts[i].phone /\ c.id = b.contacts[i].id
      BY <1>2, <2>1 DEF Contact
    <2>3. SetNote(b, i, n) = Book([b.contacts EXCEPT ![i] = c], b.email, b.phone)
      BY <1>2 DEF SetNote
    <2> HIDE DEF c
    <2>4. /\ IsBook(SetNote(b, i, n))
          /\ IdsOf(SetNote(b, i, n).contacts) = IdsOf(b.contacts)
          /\ DOMAIN SetNote(b, i, n).contacts = DOMAIN b.contacts
          /\ ExactBook(SetNote(b, i, n))
               <=> /\ Exact([EmailsOf(b.contacts) EXCEPT ![i] = c.email], b.email)
                   /\ Exact([PhonesOf(b.contacts) EXCEPT ![i] = c.phone], b.phone)
      BY <2>2, <2>3, SameKeys, ReplaceFacts
    <2>5. /\ [EmailsOf(b.contacts) EXCEPT ![i] = c.email] = EmailsOf(b.contacts)
          /\ [PhonesOf(b.contacts) EXCEPT ![i] = c.phone] = PhonesOf(b.contacts)
      BY <2>2, SameKeys, Zenon
    <2>6. QED
      BY <2>4, <2>5 DEF ExactBook
  <1>3. QED
    BY <1>1, <1>2

(* A new e-mail keeps the book a book, and its maps exact when the e-mail is *)
(* free or the own one of the contact.                                       *)
LEMMA SetEmailFacts ==
    ASSUME NEW b, IsBook(b), NEW i \in DOMAIN b.contacts, NEW e \in Emails \cup {Blank}
    PROVE  /\ IsBook(SetEmail(b, i, e))
           /\ IdsOf(SetEmail(b, i, e).contacts) = IdsOf(b.contacts)
           /\ DOMAIN SetEmail(b, i, e).contacts = DOMAIN b.contacts
           /\ ExactBook(b) /\ (e \in DOMAIN b.email => b.email[e] = i)
                => ExactBook(SetEmail(b, i, e))
  <1>1. CASE e = Blank
    BY <1>1 DEF SetEmail
  <1>2. CASE e # Blank
    <2> DEFINE c  == [b.contacts[i] EXCEPT !.email = e]
               fx == Put(Erase(b.email, b.contacts[i].email), e, i)
    <2>1. b.contacts[i] \in Contact /\ i \in Nat
      BY KeysOfContacts DEF IsBook
    <2>2. /\ c \in Contact /\ c.email = e /\ e \in Emails
          /\ c.phone = b.contacts[i].phone /\ c.id = b.contacts[i].id
      BY <1>2, <2>1 DEF Contact
    <2>3. SetEmail(b, i, e) = Book([b.contacts EXCEPT ![i] = c], fx, b.phone)
      BY <1>2 DEF SetEmail
    <2>4. IsMap(fx, Emails)
      BY <2>1, <2>2, PutType, EraseType DEF IsBook
    <2>5. ASSUME ExactBook(b), e \in DOMAIN b.email => b.email[e] = i
          PROVE  Exact([EmailsOf(b.contacts) EXCEPT ![i] = e], fx)
      BY <2>2, <2>5, KeysOfContacts, ExactReplace DEF ExactBook, IsBook, EmailsOf
    <2> HIDE DEF c, fx
    <2>6. /\ IsBook(SetEmail(b, i, e))
          /\ IdsOf(SetEmail(b, i, e).contacts) = IdsOf(b.contacts)
          /\ DOMAIN SetEmail(b, i, e).contacts = DOMAIN b.contacts
          /\ ExactBook(SetEmail(b, i, e))
               <=> /\ Exact([EmailsOf(b.contacts) EXCEPT ![i] = c.email], fx)
                   /\ Exact([PhonesOf(b.contacts) EXCEPT ![i] = c.phone], b.phone)
      BY <2>2, <2>3, SameKeys, <2>4, ReplaceFacts
    <2>7. QED
      BY ZenonT(60), <2>2, <2>6, SameKeys, <2>5 DEF ExactBook
  <1>3. QED
    BY <1>1, <1>2

(* The same for a new phone.                                                 *)
LEMMA SetPhoneFacts ==
    ASSUME NEW b, IsBook(b), NEW i \in DOMAIN b.contacts, NEW p \in Phones \cup {Blank}
    PROVE  /\ IsBook(SetPhone(b, i, p))
           /\ IdsOf(SetPhone(b, i, p).contacts) = IdsOf(b.contacts)
           /\ DOMAIN SetPhone(b, i, p).contacts = DOMAIN b.contacts
           /\ ExactBook(b) /\ (p \in DOMAIN b.phone => b.phone[p] = i)
                => ExactBook(SetPhone(b, i, p))
  <1>1. CASE p = Blank
    BY <1>1 DEF SetPhone
  <1>2. CASE p # Blank
    <2> DEFINE c  == [b.contacts[i] EXCEPT !.phone = p]
               fx == Put(Erase(b.phone, b.contacts[i].phone), p, i)
    <2>1. b.contacts[i] \in Contact /\ i \in Nat
      BY KeysOfContacts DEF IsBook
    <2>2. /\ c \in Contact /\ c.phone = p /\ p \in Phones
          /\ c.email = b.contacts[i].email /\ c.id = b.contacts[i].id
      BY <1>2, <2>1 DEF Contact
    <2>3. SetPhone(b, i, p) = Book([b.contacts EXCEPT ![i] = c], b.email, fx)
      BY <1>2 DEF SetPhone
    <2>4. IsMap(fx, Phones)
      BY <2>1, <2>2, PutType, EraseType DEF IsBook
    <2>5. ASSUME ExactBook(b), p \in DOMAIN b.phone => b.phone[p] = i
          PROVE  Exact([PhonesOf(b.contacts) EXCEPT ![i] = p], fx)
      BY <2>2, <2>5, KeysOfContacts, ExactReplace DEF ExactBook, IsBook, PhonesOf
    <2> HIDE DEF c, fx
    <2>6. /\ IsBook(SetPhone(b, i, p))
          /\ IdsOf(SetPhone(b, i, p).contacts) = IdsOf(b.contacts)
          /\ DOMAIN SetPhone(b, i, p).contacts = DOMAIN b.contacts
          /\ ExactBook(SetPhone(b, i, p))
               <=> /\ Exact([EmailsOf(b.contacts) EXCEPT ![i] = c.email], b.email)
                   /\ Exact([PhonesOf(b.contacts) EXCEPT ![i] = c.phone], fx)
      BY <2>2, <2>3, SameKeys, <2>4, ReplaceFacts
    <2>7. QED
      BY ZenonT(60), <2>2, <2>6, SameKeys, <2>5 DEF ExactBook
  <1>3. QED
    BY <1>1, <1>2

(* A key that the check for this edit lets through is either in no map or    *)
(* leads to the contact being edited: here unique ids are needed, because    *)
(* the check skips by id and the edit changes by position.                   *)
LEMMA FreeEmail ==
    ASSUME NEW b, IsBook(b), ExactBook(b), Distinct(IdsOf(b.contacts)),
           NEW i \in DOMAIN b.contacts,
           NEW e \in DOMAIN b.email, NEW oob, ~EmailExists(b, e, b.contacts[i].id, oob)
    PROVE  b.email[e] = i
  <1>1. \A j \in DOMAIN b.contacts : b.contacts[j].id = b.contacts[i].id => j = i
    BY KeysOfContacts DEF IsBook, Distinct, IdsOf
  <1>2. b.email[e] \in DOMAIN b.contacts
    BY MapsLead
  <1>3. QED
    BY <1>1, <1>2 DEF EmailExists, Exists

(* The same for the phone.                                                   *)
LEMMA FreePhone ==
    ASSUME NEW b, IsBook(b), ExactBook(b), Distinct(IdsOf(b.contacts)),
           NEW i \in DOMAIN b.contacts,
           NEW p \in DOMAIN b.phone, NEW oob, ~PhoneExists(b, p, b.contacts[i].id, oob)
    PROVE  b.phone[p] = i
  <1>1. \A j \in DOMAIN b.contacts : b.contacts[j].id = b.contacts[i].id => j = i
    BY KeysOfContacts DEF IsBook, Distinct, IdsOf
  <1>2. b.phone[p] \in DOMAIN b.contacts
    BY MapsLead
  <1>3. QED
    BY <1>1, <1>2 DEF PhoneExists, Exists

(* An e-mail that the check lets through keeps exact maps exact.             *)
LEMMA SetEmailExact ==
    ASSUME NEW b, IsBook(b), ExactBook(b), Distinct(IdsOf(b.contacts)),
           NEW i \in DOMAIN b.contacts, NEW id, b.contacts[i].id = id,
           NEW e \in Emails \cup {Blank}, NEW oob, ~EmailRefused(b, id, e, oob)
    PROVE  ExactBook(SetEmail(b, i, e))
  <1>1. CASE e = Blank
    BY <1>1 DEF SetEmail
  <1>2. CASE e # Blank
    <2>1. ~EmailExists(b, e, id, oob)
      BY <1>2 DEF EmailRefused
    <2>2. e \in DOMAIN b.email => b.email[e] = i
      BY <2>1, FreeEmail
    <2>3. ExactBook(b) /\ (e \in DOMAIN b.email => b.email[e] = i)
            => ExactBook(SetEmail(b, i, e))
      BY SetEmailFacts
    <2>4. QED
      BY <2>2, <2>3
  <1>3. QED
    BY <1>1, <1>2

(* The same for the phone.                                                   *)
LEMMA SetPhoneExact ==
    ASSUME NEW b, IsBook(b), ExactBook(b), Distinct(IdsOf(b.contacts)),
           NEW i \in DOMAIN b.contacts, NEW id, b.contacts[i].id = id,
           NEW p \in Phones \cup {Blank}, NEW oob, ~PhoneRefused(b, id, p, oob)
    PROVE  ExactBook(SetPhone(b, i, p))
  <1>1. CASE p = Blank
    BY <1>1 DEF SetPhone
  <1>2. CASE p # Blank
    <2>1. ~PhoneExists(b, p, id, oob)
      BY <1>2 DEF PhoneRefused
    <2>2. p \in DOMAIN b.phone => b.phone[p] = i
      BY <2>1, FreePhone
    <2>3. ExactBook(b) /\ (p \in DOMAIN b.phone => b.phone[p] = i)
            => ExactBook(SetPhone(b, i, p))
      BY SetPhoneFacts
    <2>4. QED
      BY <2>2, <2>3
  <1>3. QED
    BY <1>1, <1>2

(* Whatever an edit does, and wherever it stops, what it leaves in memory is *)
(* a book with the same ids, and its maps are exact if they were.            *)
LEMMA EditedFacts ==
    ASSUME NEW b, IsBook(b), NEW id, NEW o \in EditOptions, NEW oob
    PROVE  LET r == Edited(b, id, o, oob)
           IN  /\ IsBook(r.book)
               /\ IdsOf(r.book.contacts) = IdsOf(b.contacts)
               /\ ExactBook(b) /\ Distinct(IdsOf(b.contacts)) => ExactBook(r.book)
  <1>1. CASE Positions(b, id) = {}
    BY <1>1 DEF Edited
  <1>2. CASE Positions(b, id) # {}
    <2> DEFINE i  == FirstPosition(b, id)
               b1 == SetName(b, i, o.name)
               b2 == SetEmail(b1, i, o.email)
               b3 == SetPhone(b2, i, o.phone)
               b4 == SetNote(b3, i, o.note)
               r  == Edited(b, id, o, oob)
               P  == ExactBook(b) /\ Distinct(IdsOf(b.contacts))
    <2>1. /\ o.name \in Names \cup {Blank} /\ o.email \in Emails \cup {Blank}
          /\ o.phone \in Phones \cup {Blank} /\ o.note \in Notes \cup {Blank}
      BY DEF EditOptions
    <2>2. i \in DOMAIN b.contacts /\ b.contacts[i].id = id
      BY <1>2, FirstPositionFact
    <2>3. /\ r.book = IF NameRefused(o.name) THEN b
                      ELSE IF EmailRefused(b1, id, o.email, oob) THEN b1
                      ELSE IF PhoneRefused(b2, id, o.phone, oob) THEN b2 ELSE b4
      BY <1>2 DEF Edited
    <2> HIDE DEF i, r
    <2>4. /\ IsBook(b1) /\ i \in DOMAIN b1.contacts /\ IdsOf(b1.contacts) = IdsOf(b.contacts)
          /\ P => ExactBook(b1)
      BY <2>1, <2>2, SetNameFacts
    <2>5. b1.contacts[i].id = id
      BY <2>2, <2>4 DEF IdsOf
    <2> HIDE DEF b1
    <2>6. /\ IsBook(b2) /\ i \in DOMAIN b2.contacts /\ IdsOf(b2.contacts) = IdsOf(b.contacts)
      BY <2>1, <2>4, SetEmailFacts
    <2>7. ASSUME P, ~EmailRefused(b1, id, o.email, oob)
          PROVE  ExactBook(b2)
      <3>1. ExactBook(b1) /\ Distinct(IdsOf(b1.contacts))
        BY <2>4, <2>7
      <3>2. QED
        BY <2>1, <2>4, <2>5, <2>7, <3>1, SetEmailExact
    <2>8. b2.contacts[i].id = id
      BY <2>4, <2>5, <2>6 DEF IdsOf
    <2> HIDE DEF b2
    <2>9. /\ IsBook(b3) /\ i \in DOMAIN b3.contacts /\ IdsOf(b3.contacts) = IdsOf(b.contacts)
      BY <2>1, <2>6, SetPhoneFacts
    <2>10. ASSUME P, ~EmailRefused(b1, id, o.email, oob), ~PhoneRefused(b2, id, o.phone, oob)
           PROVE  ExactBook(b3)
      <3>1. ExactBook(b2) /\ Distinct(IdsOf(b2.contacts))
        BY <2>6, <2>7, <2>10
      <3>2. QED
        BY <2>1, <2>6, <2>8, <2>10, <3>1, SetPhoneExact
    <2> HIDE DEF b3
    <2>11. /\ IsBook(b4) /\ IdsOf(b4.contacts) = IdsOf(b.contacts)
           /\ ExactBook(b3) => ExactBook(b4)
      BY <2>1, <2>9, SetNoteFacts
    <2> HIDE DEF b4
    <2>12. IsBook(r.book) /\ IdsOf(r.book.contacts) = IdsOf(b.contacts)
      BY <2>3, <2>4, <2>6, <2>11
    <2>13. P => ExactBook(r.book)
      BY <2>3, <2>4, <2>7, <2>10, <2>11
    <2>14. QED
      BY <2>12, <2>13 DEF r
  <1>3. QED
    BY <1>1, <1>2

-----------------------------------------------------------------------------
(* delete_contact.                                                           *)

(* A delete keeps a book a book and exact maps exact.                        *)
LEMMA DeletedFacts ==
    ASSUME NEW b, IsBook(b), NEW i \in DOMAIN b.contacts
    PROVE  /\ IsBook(Deleted(b, i))
           /\ Distinct(IdsOf(b.contacts)) => Distinct(IdsOf(Deleted(b, i).contacts))
           /\ Named(IdsOf(b.contacts)) => Named(IdsOf(Deleted(b, i).contacts))
           /\ ExactBook(b) => ExactBook(Deleted(b, i))
  <1> DEFINE cs == b.contacts
             cx == WithoutPosition(cs, i)
             fe == AssignFrom(Erase(b.email, cs[i].email), EmailsOf(cx), i)
             fp == AssignFrom(Erase(b.phone, cs[i].phone), PhonesOf(cx), i)
  <1>1. /\ cs \in Seq(Contact) /\ Len(cs) \in Nat /\ DOMAIN cs = 1 .. Len(cs) /\ i \in Nat
        /\ IsMap(b.email, Emails) /\ IsMap(b.phone, Phones)
    BY KeysOfContacts DEF IsBook
  <1>2. /\ cx \in Seq(Contact) /\ DOMAIN cx = 1 .. Len(cs) - 1
        /\ \A j \in DOMAIN cx : cx[j] = IF j < i THEN cs[j] ELSE cs[j + 1]
    BY <1>1, RemoveFacts
  <1>3. /\ EmailsOf(cx) = WithoutPosition(EmailsOf(cs), i)
        /\ PhonesOf(cx) = WithoutPosition(PhonesOf(cs), i)
    <2>1. \A j \in 1 .. Len(cs) - 1 : j \in DOMAIN cs /\ j + 1 \in DOMAIN cs
      BY <1>1
    <2>2. QED
      BY <1>1, <1>2, <2>1, KeysOfContacts DEF EmailsOf, PhonesOf, WithoutPosition
  <1>4. Deleted(b, i).contacts = cx /\ Deleted(b, i).email = fe /\ Deleted(b, i).phone = fp
    BY DEF Deleted, Book
  <1> HIDE DEF cx
  <1>5. IsMap(fe, Emails) /\ IsMap(fp, Phones)
    BY <1>1, <1>2, KeysOfContacts, EraseType, AssignFromType
  <1>6. IsBook(Deleted(b, i))
    BY <1>2, <1>4, <1>5 DEF IsBook
  <1>7. ASSUME Distinct(IdsOf(cs))
        PROVE  Distinct(IdsOf(cx))
    <2> DEFINE old(j) == IF j < i THEN j ELSE j + 1
    <2>1. \A j \in DOMAIN cx : old(j) \in DOMAIN cs /\ cx[j] = cs[old(j)]
      BY <1>1, <1>2
    <2>2. \A j, k \in DOMAIN cx : old(j) = old(k) => j = k
      BY <1>1, <1>2
    <2>3. \A j, k \in DOMAIN cs : cs[j].id = cs[k].id => j = k
      BY <1>7 DEF Distinct, IdsOf
    <2> HIDE DEF old
    <2>4. QED
      BY <2>1, <2>2, <2>3 DEF Distinct, IdsOf
  <1>8. ASSUME ExactBook(b)
        PROVE  Exact(EmailsOf(cx), fe) /\ Exact(PhonesOf(cx), fp)
    <2>1. EmailsOf(cs)[i] = cs[i].email /\ PhonesOf(cs)[i] = cs[i].phone
      BY DEF EmailsOf, PhonesOf
    <2>2. /\ EmailsOf(cs) \in Seq(Emails) /\ PhonesOf(cs) \in Seq(Phones)
          /\ i \in DOMAIN EmailsOf(cs) /\ i \in DOMAIN PhonesOf(cs)
      BY <1>1, KeysOfContacts
    <2>3. Exact(EmailsOf(cs), b.email) /\ Exact(PhonesOf(cs), b.phone)
      BY <1>8 DEF ExactBook
    <2>4. QED
      BY <1>3, <2>1, <2>2, <2>3, ExactRemove
  <1>9. ASSUME Named(IdsOf(cs))
        PROVE  Named(IdsOf(cx))
    <2>1. \A j \in DOMAIN cs : cs[j].id # Blank
      BY <1>9 DEF Named, IdsOf
    <2>2. \A j \in DOMAIN cx : j \in DOMAIN cs /\ j + 1 \in DOMAIN cs
      BY <1>1, <1>2
    <2>3. \A j \in DOMAIN cx : cx[j].id # Blank
      BY <1>2, <2>1, <2>2
    <2>4. QED
      BY <2>3 DEF Named, IdsOf
  <1>10. QED
    BY <1>4, <1>6, <1>7, <1>8, <1>9 DEF ExactBook
=============================================================================
