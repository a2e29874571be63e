------------------------- MODULE SearchIndexProofs -------------------------
(***************************************************************************)
(* For every set of versions of the book, every set of queries and any     *)
(* number of searches beside one process that saves: an index that loads   *)
(* and is not behind its meta file leads to the lines with the key looked  *)
(* up and nowhere else, and a fast search beside which the data were not   *)
(* replaced answers with a contact that has the key.                       *)
(*                                                                         *)
(* Neither is inductive.  The index is honest because what is in it, at    *)
(* any moment, is the beginning of a listing of the data its meta file     *)
(* names (Filed), which rests on where the saving process is and on what   *)
(* it has still to write (Saving).  A search is right because, from the    *)
(* check of the meta file on, whatever the index holds and whatever it     *)
(* held is a listing of the data that the search will slice (Searching):   *)
(* the index may be rewritten between two of its reads, but only with      *)
(* another listing of the same data.                                       *)
(*                                                                         *)
(* The first part is about the algorithms: places in the data file, the    *)
(* blocks, the search by halves.                                           *)
(***************************************************************************)
EXTENDS SearchIndex, FiniteSetTheorems, SequenceTheorems, WellFoundedInduction, TLAPS

-----------------------------------------------------------------------------
(* Places in the data file                                                   *)

Line == [email : Nat, phone : Nat, size : Nat]

(* Every non-empty set of numbers has a least element.                       *)
LEMMA LeastNumber ==
    ASSUME NEW S \in SUBSET Nat, S # {}
    PROVE  \E m \in S : \A k \in S : m <= k
  <1>1. \E m \in S : \A k \in S : << k, m >> \notin OpToRel(<, Nat)
    BY NatLessThanWellFounded, WFMin
  <1>2. PICK m \in S : \A k \in S : ~(k < m)
    BY <1>1 DEF OpToRel
  <1>3. QED
    BY <1>2

(* The sums that save counts up exist, for as many lines as one likes.       *)
LEMMA SumsExist ==
    ASSUME NEW d, NEW m \in Nat
    PROVE  \E f : f = [i \in 1 .. m |-> IF i = 1 THEN 0 ELSE f[i - 1] + d[i - 1].size + 1]
  <1> DEFINE Sums(n) == \E f : f = [i \in 1 .. n |-> IF i = 1 THEN 0 ELSE f[i - 1] + d[i - 1].size + 1]
             Bad     == {n \in Nat : ~Sums(n)}
  <1>1. Sums(0)
    <2> DEFINE f == [i \in 1 .. 0 |-> 0]
    <2>1. f = [i \in 1 .. 0 |-> IF i = 1 THEN 0 ELSE f[i - 1] + d[i - 1].size + 1]
      OBVIOUS
    <2>2. QED
      BY <2>1
  <1>2. ASSUME NEW n \in Nat, Sums(n)
        PROVE  Sums(n + 1)
    <2>1. PICK f : f = [i \in 1 .. n |-> IF i = 1 THEN 0 ELSE f[i - 1] + d[i - 1].size + 1]
      BY <1>2
    <2> DEFINE g == [i \in 1 .. n + 1 |-> IF i = 1 THEN 0 ELSE f[i - 1] + d[i - 1].size + 1]
    <2>2. \A i \in 1 .. n : g[i] = f[i]
      BY <2>1
    <2>3. \A i \in 1 .. n + 1 : i # 1 => i - 1 \in 1 .. n
      OBVIOUS
    <2>4. g = [i \in 1 .. n + 1 |-> IF i = 1 THEN 0 ELSE g[i - 1] + d[i - 1].size + 1]
      BY <2>2, <2>3
    <2>5. QED
      BY <2>4
  <1> HIDE DEF Sums
  <1>3. Bad = {}
    <2>1. SUFFICES ASSUME Bad # {}
                   PROVE  FALSE
      OBVIOUS
    <2>2. PICK n \in Bad : \A k \in Bad : n <= k
      BY <2>1, LeastNumber
    <2>3. n # 0 /\ n \in Nat /\ ~Sums(n)
      BY <1>1, <2>2
    <2>4. n - 1 \in Nat /\ n - 1 \notin Bad
      BY <2>2, <2>3
    <2>5. Sums(n - 1)
      BY <2>4
    <2>6. Sums((n - 1) + 1)
      BY <1>2, <2>4, <2>5
    <2>7. QED
      BY <2>3, <2>6
  <1>4. QED
    BY SMTT(30), <1>3 DEF Sums

(* The places are such sums.                                                 *)
LEMMA OffsetsUnfold ==
    ASSUME NEW d \in Seq(Line)
    PROVE  Offsets(d) = [i \in 1 .. Len(d) + 1 |->
                           IF i = 1 THEN 0 ELSE Offsets(d)[i - 1] + d[i - 1].size + 1]
  <1> DEFINE at == CHOOSE at : at = [i \in 1 .. Len(d) + 1 |->
                                       IF i = 1 THEN 0 ELSE at[i - 1] + d[i - 1].size + 1]
  <1>1. Len(d) + 1 \in Nat
    OBVIOUS
  <1>2. at = [i \in 1 .. Len(d) + 1 |-> IF i = 1 THEN 0 ELSE at[i - 1] + d[i - 1].size + 1]
    <2>1. PICK f : f = [i \in 1 .. Len(d) + 1 |-> IF i = 1 THEN 0 ELSE f[i - 1] + d[i - 1].size + 1]
      BY <1>1, SumsExist
    <2>2. QED
      BY <2>1
  <1>3. Offsets(d) = at
    BY DEF Offsets
  <1> HIDE DEF at
  <1>4. QED
    BY <1>2, <1>3

(* The places are numbers, and each line starts after the one before it.     *)
LEMMA OffsetsClimb ==
    ASSUME NEW d \in Seq(Line)
    PROVE  /\ Offsets(d)[1] = 0
           /\ \A i \in DOMAIN d : Offsets(d)[i + 1] = Offsets(d)[i] + d[i].size + 1
           /\ \A i \in 1 .. Len(d) + 1 : Offsets(d)[i] \in Nat
           /\ \A i, j \in 1 .. Len(d) + 1 : i < j => Offsets(d)[i] < Offsets(d)[j]
  <1> DEFINE at == Offsets(d)
  <1>1. at = [i \in 1 .. Len(d) + 1 |-> IF i = 1 THEN 0 ELSE at[i - 1] + d[i - 1].size + 1]
    BY OffsetsUnfold
  <1> HIDE DEF at
  <1>2. Len(d) \in Nat /\ DOMAIN d = 1 .. Len(d) /\ \A i \in 1 .. Len(d) : d[i].size \in Nat
    <2>1. Len(d) \in Nat /\ DOMAIN d = 1 .. Len(d) /\ \A i \in 1 .. Len(d) : d[i] \in Line
      OBVIOUS
    <2>2. QED
      BY <2>1 DEF Line
  <1>3. at[1] = 0
    BY <1>1, <1>2
  <1>4. ASSUME NEW i \in 1 .. Len(d)
        PROVE  at[i + 1] = at[i] + d[i].size + 1
    <2>1. i + 1 \in 1 .. Len(d) + 1 /\ i + 1 # 1 /\ (i + 1) - 1 = i
      BY <1>2
    <2>2. QED
      BY <1>1, <2>1
  <1> DEFINE Bad == {i \in Nat : i \in 1 .. Len(d) + 1 /\
                       ~(at[i] \in Nat /\ \A k \in 1 .. i - 1 : at[k] < at[i])}
  <1>5. Bad = {}
    <2>1. SUFFICES ASSUME Bad # {}
                   PROVE  FALSE
      OBVIOUS
    <2>2. PICK i \in Bad : \A k \in Bad : i <= k
      BY <2>1, LeastNumber
    <2>3. i # 1 /\ i \in 1 .. Len(d) + 1
      BY <1>3, <2>2
    <2> DEFINE j == i - 1
    <2>4. j \in 1 .. Len(d) /\ j \notin Bad /\ i = j + 1
      BY <1>2, <2>2, <2>3
    <2>5. j \in Nat /\ at[j] \in Nat /\ \A k \in 1 .. j - 1 : at[k] < at[j]
      BY <1>2, <2>4
    <2>6. at[i] = at[j] + d[j].size + 1 /\ d[j].size \in Nat
      BY <1>2, <1>4, <2>4
    <2>7. at[i] \in Nat /\ at[j] < at[i]
      BY <2>5, <2>6
    <2>8. ASSUME NEW k \in 1 .. i - 1
          PROVE  at[k] < at[i]
      <3>1. CASE k = j
        BY <2>7, <3>1
      <3>2. CASE k # j
        <4>1. k \in 1 .. j - 1
          BY <2>4, <2>5, <3>2
        <4>2. at[k] < at[j] /\ at[k] \in Nat
          <5>1. k \notin Bad /\ k \in Nat /\ k \in 1 .. Len(d) + 1
            BY <1>2, <2>2, <2>3, <2>4, <4>1
          <5>2. QED
            BY <2>5, <4>1, <5>1
        <4>3. QED
          BY <2>5, <2>6, <4>2
      <3>3. QED
        BY <3>1, <3>2
    <2>9. QED
      BY <2>2, <2>7, <2>8
  <1>6. \A i \in 1 .. Len(d) + 1 : at[i] \in Nat /\ \A k \in 1 .. i - 1 : at[k] < at[i]
    BY <1>2, <1>5
  <1>7. QED
    BY <1>2, <1>3, <1>4, <1>6 DEF at

(* The line that is sliced at the place of a line is that line.              *)
LEMMA LinesAtOffset ==
    ASSUME NEW d \in Seq(Line), NEW j \in DOMAIN d
    PROVE  LinesAt(d, Offsets(d)[j]) = {d[j]}
  <1> DEFINE starts == CHOOSE starts :
                starts = [i \in 1 .. Len(d) |-> IF i = 1 THEN 0 ELSE starts[i - 1] + d[i - 1].size + 1]
             at == Offsets(d)
  <1>1. Len(d) \in Nat /\ DOMAIN d = 1 .. Len(d)
    OBVIOUS
  <1>2. starts = [i \in 1 .. Len(d) |-> IF i = 1 THEN 0 ELSE starts[i - 1] + d[i - 1].size + 1]
    <2>1. PICK f : f = [i \in 1 .. Len(d) |-> IF i = 1 THEN 0 ELSE f[i - 1] + d[i - 1].size + 1]
      BY <1>1, SumsExist
    <2>2. QED
      BY <2>1
  <1>3. LinesAt(d, at[j]) = {d[i] : i \in {k \in DOMAIN d : starts[k] = at[j]}}
    BY DEF LinesAt
  <1> HIDE DEF starts, at
  <1>4. /\ at[1] = 0 /\ \A i \in DOMAIN d : at[i + 1] = at[i] + d[i].size + 1
        /\ \A i, k \in 1 .. Len(d) + 1 : i < k => at[i] < at[k]
        /\ \A i \in 1 .. Len(d) + 1 : at[i] \in Nat
    BY OffsetsClimb DEF at
  <1> DEFINE Bad == {i \in Nat : i \in DOMAIN d /\ starts[i] # at[i]}
  <1>5. Bad = {}
    <2>1. SUFFICES ASSUME Bad # {}
                   PROVE  FALSE
      OBVIOUS
    <2>2. PICK i \in Bad : \A k \in Bad : i <= k
      BY <2>1, LeastNumber
    <2>3. i \in 1 .. Len(d) /\ i # 1
      BY <1>1, <1>2, <1>4, <2>2
    <2> DEFINE k == i - 1
    <2>4. k \in 1 .. Len(d) /\ k \notin Bad /\ i = k + 1 /\ k \in Nat
      BY <1>1, <2>2, <2>3
    <2>5. starts[k] = at[k] /\ at[i] = at[k] + d[k].size + 1
      BY <1>1, <1>4, <2>4
    <2>6. starts[i] = starts[k] + d[k].size + 1
      BY <1>2, <2>3
    <2>7. QED
      BY <2>2, <2>5, <2>6
  <1>6. \A k \in DOMAIN d : starts[k] = at[j] <=> k = j
    <2>1. \A k \in DOMAIN d : starts[k] = at[k]
      BY <1>1, <1>5
    <2>2. \A k \in DOMAIN d : at[k] = at[j] => k = j
      BY <1>1, <1>4
    <2>3. QED
      BY <2>1, <2>2
  <1>7. QED
    BY <1>3, <1>6 DEF at

-----------------------------------------------------------------------------
(* The search by halves                                                      *)

Entry == [key : Nat, off : Nat]

Spans(block) == (0 .. Len(block)) \X (0 .. Len(block))

\* One step of the search: what it finds in a span, with f for the rest of it.
HalfStep(block, key, f, span) ==
    LET lo == span[1]
        hi == span[2]
        mid == (lo + hi) \div 2
    IN  IF lo >= hi THEN {}
        ELSE IF block[mid + 1].key = key THEN {block[mid + 1].off}
        ELSE IF block[mid + 1].key < key THEN f[<< mid + 1, hi >>]
        ELSE f[<< lo, mid >>]

\* f is the function that Found computes.
Halves(f, block, key) == f = [span \in Spans(block) |-> HalfStep(block, key, f, span)]

(* What is left after a step is within the span and shorter.                 *)
LEMMA HalvesShrink ==
    ASSUME NEW n \in Nat, NEW lo \in 0 .. n, NEW hi \in 0 .. n, lo < hi,
           NEW mid, mid = (lo + hi) \div 2
    PROVE  /\ mid \in Nat /\ lo <= mid /\ mid < hi
           /\ mid + 1 \in 0 .. n /\ mid \in 0 .. n
           /\ hi - (mid + 1) < hi - lo /\ mid - lo < hi - lo
  OBVIOUS

(* The function the search by halves computes exists.                        *)
LEMMA HalvesExist ==
    ASSUME NEW block, Len(block) \in Nat, NEW key
    PROVE  \E f : Halves(f, block, key)
  <1> DEFINE D == Spans(block)
             n == Len(block)
             Good(f, m) == /\ f = [span \in D |-> f[span]]
                           /\ \A span \in D : span[2] - span[1] <= m => f[span] = HalfStep(block, key, f, span)
             Upto(m) == \E f : Good(f, m)
             Bad == {m \in Nat : ~Upto(m)}
  <1>1. Upto(0)
    <2> DEFINE f == [span \in D |-> {}]
    <2>1. ASSUME NEW span \in D, span[2] - span[1] <= 0
          PROVE  HalfStep(block, key, f, span) = {}
      <3>1. span[1] \in 0 .. n /\ span[2] \in 0 .. n
        BY DEF Spans
      <3>2. span[1] >= span[2]
        BY <2>1, <3>1
      <3>3. QED
        BY <3>2 DEF HalfStep
    <2>2. Good(f, 0)
      BY <2>1
    <2>3. QED
      BY <2>2
  <1>2. ASSUME NEW m \in Nat, Upto(m)
        PROVE  Upto(m + 1)
    <2>1. PICK f : Good(f, m)
      BY <1>2
    <2> DEFINE g == [span \in D |-> HalfStep(block, key, f, span)]
    <2>2. ASSUME NEW span \in D, span[2] - span[1] <= m
          PROVE  g[span] = f[span]
      BY <2>1, <2>2
    <2>3. ASSUME NEW span \in D, span[2] - span[1] <= m + 1
          PROVE  HalfStep(block, key, g, span) = HalfStep(block, key, f, span)
      <3> DEFINE lo == span[1]
                 hi == span[2]
                 mid == (lo + hi) \div 2
      <3>1. lo \in 0 .. n /\ hi \in 0 .. n
        BY DEF Spans
      <3> HIDE DEF g
      <3>2. CASE lo >= hi
        BY <3>2 DEF HalfStep
      <3>3. CASE ~(lo >= hi)
        <4>1. lo < hi /\ n \in Nat
          BY <3>1, <3>3
        <4>2. /\ mid + 1 \in 0 .. n /\ mid \in 0 .. n /\ mid \in Nat
              /\ hi - (mid + 1) < hi - lo /\ mid - lo < hi - lo
          BY <3>1, <4>1, HalvesShrink
        <4> HIDE DEF mid
        <4>3. hi - (mid + 1) <= m /\ mid - lo <= m
          BY <2>3, <3>1, <4>2
        <4>4. g[<< mid + 1, hi >>] = f[<< mid + 1, hi >>]
          <5>1. << mid + 1, hi >> \in D
            BY <3>1, <4>2 DEF Spans
          <5>2. QED
            BY <2>2, <4>3, <5>1
        <4>5. g[<< lo, mid >>] = f[<< lo, mid >>]
          <5>1. << lo, mid >> \in D
            BY <3>1, <4>2 DEF Spans
          <5>2. QED
            BY <2>2, <4>3, <5>1
        <4>6. QED
          BY <4>4, <4>5 DEF HalfStep, mid
      <3>4. QED
        BY <3>2, <3>3
    <2>4. Good(g, m + 1)
      <3>1. g = [span \in D |-> g[span]]
        OBVIOUS
      <3>2. ASSUME NEW span \in D, span[2] - span[1] <= m + 1
            PROVE  g[span] = HalfStep(block, key, g, span)
        BY <2>3, <3>2
      <3>3. QED
        BY <3>1, <3>2
    <2>5. QED
      BY <2>4
  <1>3. Upto(n)
    <2> HIDE DEF Upto
    <2>1. Bad = {}
      <3>1. SUFFICES ASSUME Bad # {}
                     PROVE  FALSE
        OBVIOUS
      <3>2. PICK m \in Bad : \A k \in Bad : m <= k
        BY <3>1, LeastNumber
      <3>3. m # 0 /\ m \in Nat /\ ~Upto(m)
        BY <1>1, <3>2
      <3>4. m - 1 \in Nat /\ m - 1 \notin Bad
        BY <3>2, <3>3
      <3>5. Upto((m - 1) + 1)
        BY <1>2, <3>4
      <3>6. QED
        BY <3>3, <3>5
    <2>2. QED
      BY <2>1
  <1>4. PICK f : Good(f, n)
    BY <1>3
  <1>5. \A span \in D : span[2] - span[1] <= n
    BY DEF Spans
  <1>6. f = [span \in D |-> HalfStep(block, key, f, span)]
    BY <1>4, <1>5
  <1>7. QED
    BY <1>6 DEF Halves

\* Places of entries with the key; entries in order; no entry of a span with the key.
Leads(offs, block, key) ==
    \A off \in offs : \E i \in DOMAIN block : block[i].key = key /\ block[i].off = off
InOrder(block) == \A i, j \in DOMAIN block : i <= j => block[i].key <= block[j].key
NoneIn(block, key, lo, hi) == \A i \in DOMAIN block : lo < i /\ i <= hi => block[i].key # key

(* What the search by halves finds in a span is the place of an entry with   *)
(* the key; when the entries are in order and one of the span has the key,   *)
(* it finds one.                                                             *)
LEMMA HalvesFind ==
    ASSUME NEW block \in Seq(Entry), NEW key \in Nat, NEW f, Halves(f, block, key),
           NEW lo \in 0 .. Len(block), NEW hi \in 0 .. Len(block)
    PROVE  /\ Leads(f[<< lo, hi >>], block, key)
           /\ InOrder(block) /\ f[<< lo, hi >>] = {} => NoneIn(block, key, lo, hi)
  <1> DEFINE n == Len(block)
             Fine(l, h) == /\ Leads(f[<< l, h >>], block, key)
                           /\ InOrder(block) /\ f[<< l, h >>] = {} => NoneIn(block, key, l, h)
             Bad == {m \in Nat : \E l, h \in 0 .. n : h - l <= m /\ ~Fine(l, h)}
  <1>1. n \in Nat /\ DOMAIN block = 1 .. n /\ \A i \in 1 .. n : block[i] \in Entry
    OBVIOUS
  <1>2. \A i \in 1 .. n : block[i].key \in Nat
    BY <1>1 DEF Entry
  <1>3. ASSUME NEW l \in 0 .. n, NEW h \in 0 .. n
        PROVE  f[<< l, h >>] = HalfStep(block, key, f, << l, h >>)
    <2>1. << l, h >> \in Spans(block)
      BY DEF Spans
    <2>2. QED
      BY <2>1 DEF Halves
  <1>4. ASSUME NEW l \in 0 .. n, NEW h \in 0 .. n, l >= h
        PROVE  Fine(l, h)
    <2>1. f[<< l, h >>] = {}
      BY <1>3, <1>4 DEF HalfStep
    <2>2. NoneIn(block, key, l, h)
      BY <1>1, <1>4 DEF NoneIn
    <2>3. QED
      BY <2>1, <2>2 DEF Leads
  <1>5. ASSUME NEW l \in 0 .. n, NEW h \in 0 .. n, l < h,
               \A a, b \in 0 .. n : b - a < h - l => Fine(a, b)
        PROVE  Fine(l, h)
    <2> DEFINE mid == (l + h) \div 2
    <2>1. /\ mid \in Nat /\ l <= mid /\ mid < h /\ mid + 1 \in 0 .. n /\ mid \in 0 .. n
          /\ h - (mid + 1) < h - l /\ mid - l < h - l
      <3> HIDE DEF Fine
      <3>1. n \in Nat /\ l < h
        BY <1>1, <1>5
      <3>2. QED
        BY <3>1, HalvesShrink
    <2>2. Fine(mid + 1, h) /\ Fine(l, mid)
      BY <1>5, <2>1
    <2>3. f[<< l, h >>] = IF block[mid + 1].key = key THEN {block[mid + 1].off}
                          ELSE IF block[mid + 1].key < key THEN f[<< mid + 1, h >>]
                          ELSE f[<< l, mid >>]
      <3>1. ~(l >= h)
        BY <1>5
      <3>2. QED
        BY <1>3, <3>1 DEF HalfStep
    <2> HIDE DEF mid
    <2>4. mid + 1 \in DOMAIN block /\ block[mid + 1].key \in Nat
      BY <1>1, <1>2, <2>1
    <2>5. CASE block[mid + 1].key = key
      BY <2>3, <2>4, <2>5 DEF Leads
    <2>6. CASE block[mid + 1].key < key
      <3>1. f[<< l, h >>] = f[<< mid + 1, h >>]
        BY <2>3, <2>4, <2>6
      <3>2. ASSUME InOrder(block), NoneIn(block, key, mid + 1, h)
            PROVE  NoneIn(block, key, l, h)
        <4>1. ASSUME NEW i \in DOMAIN block, l < i, i <= h, block[i].key = key
              PROVE  FALSE
          <5>1. CASE i <= mid + 1
            BY <1>1, <1>2, <2>4, <2>6, <3>2, <4>1, <5>1 DEF InOrder, NoneIn
          <5>2. CASE ~(i <= mid + 1)
            BY <1>1, <2>1, <3>2, <4>1, <5>2 DEF NoneIn
          <5>3. QED
            BY <5>1, <5>2
        <4>2. QED
          BY <4>1 DEF NoneIn
      <3>3. QED
        BY <2>2, <3>1, <3>2
    <2>7. CASE key < block[mid + 1].key
      <3>1. f[<< l, h >>] = f[<< l, mid >>]
        BY <2>3, <2>4, <2>7
      <3>2. ASSUME InOrder(block), NoneIn(block, key, l, mid)
            PROVE  NoneIn(block, key, l, h)
        <4>1. ASSUME NEW i \in DOMAIN block, l < i, i <= h, block[i].key = key
              PROVE  FALSE
          <5>1. CASE mid + 1 <= i
            BY <1>1, <1>2, <2>4, <2>7, <3>2, <4>1, <5>1 DEF InOrder, NoneIn
          <5>2. CASE ~(mid + 1 <= i)
            BY <1>1, <2>1, <3>2, <4>1, <5>2 DEF NoneIn
          <5>3. QED
            BY <5>1, <5>2
        <4>2. QED
          BY <4>1 DEF NoneIn
      <3>3. QED
        BY <2>2, <3>1, <3>2
    <2> HIDE DEF Fine
    <2>8. QED
      BY <2>4, <2>5, <2>6, <2>7
  <1> HIDE DEF Fine
  <1>6. Bad = {}
    <2>1. SUFFICES ASSUME Bad # {}
                   PROVE  FALSE
      OBVIOUS
    <2>2. PICK m \in Bad : \A k \in Bad : m <= k
      BY <2>1, LeastNumber
    <2>3. PICK l \in 0 .. n, h \in 0 .. n : h - l <= m /\ ~Fine(l, h)
      BY <2>2
    <2>4. l < h /\ m \in Nat
      BY <1>4, <2>2, <2>3
    <2>5. PICK a \in 0 .. n, b \in 0 .. n : b - a < h - l /\ ~Fine(a, b)
      BY <1>5, <2>3, <2>4
    <2>6. b - a <= m - 1 /\ m - 1 \in Nat
      BY <2>3, <2>4, <2>5 DEF Leads
    <2>7. m - 1 \in Bad
      BY <2>5, <2>6
    <2> HIDE DEF Bad
    <2>8. QED
      BY <2>2, <2>4, <2>7
  <1>7. Fine(lo, hi)
    <2> DEFINE m == IF hi - lo >= 0 THEN hi - lo ELSE 0
    <2>1. m \in Nat /\ hi - lo <= m
      OBVIOUS
    <2>2. QED
      BY <1>6, <2>1
  <1>8. QED
    BY <1>7 DEF Fine

(* bsearch_key: it finds only places of entries with the key, and one of     *)
(* them if the block is in order and there is one.                           *)
LEMMA FoundFacts ==
    ASSUME NEW block \in Seq(Entry), NEW key \in Nat
    PROVE  /\ Leads(Found(block, key), block, key)
           /\ InOrder(block) /\ Found(block, key) = {} => \A i \in DOMAIN block : block[i].key # key
  <1> DEFINE half == CHOOSE half : half = [span \in Spans(block) |-> HalfStep(block, key, half, span)]
  <1>1. Len(block) \in Nat /\ DOMAIN block = 1 .. Len(block)
    OBVIOUS
  <1>2. Halves(half, block, key)
    <2>1. PICK f : f = [span \in Spans(block) |-> HalfStep(block, key, f, span)]
      BY <1>1, HalvesExist DEF Halves
    <2>2. QED
      BY <2>1 DEF Halves
  <1>3. Found(block, key) = half[<< 0, Len(block) >>]
    BY DEF Found, Spans, HalfStep
  <1> HIDE DEF half
  <1>4. 0 \in 0 .. Len(block) /\ Len(block) \in 0 .. Len(block)
    BY <1>1
  <1>5. /\ Leads(half[<< 0, Len(block) >>], block, key)
        /\ InOrder(block) /\ half[<< 0, Len(block) >>] = {} => NoneIn(block, key, 0, Len(block))
    BY <1>2, <1>4, HalvesFind
  <1>6. QED
    BY <1>1, <1>3, <1>5 DEF NoneIn

-----------------------------------------------------------------------------
(* The blocks of an index                                                    *)

LEMMA IntervalCounted ==
    ASSUME NEW n \in Nat
    PROVE  IsFiniteSet(1 .. n) /\ Cardinality(1 .. n) = n
  <1>1. IsFiniteSet(1 .. n) /\ Cardinality(1 .. n) = IF 1 > n THEN 0 ELSE n - 1 + 1
    BY FS_Interval
  <1>2. QED
    BY <1>1

(* As many entries as lines, since each line has a place of its own.         *)
LEMMA EntriesCounted ==
    ASSUME NEW d \in Seq(Line), NEW key \in [1 .. Len(d) -> Nat]
    PROVE  LET E == {[key |-> key[i], off |-> Offsets(d)[i]] : i \in 1 .. Len(d)}
           IN  E \subseteq Entry /\ IsFiniteSet(E) /\ Cardinality(E) = Len(d)
  <1> DEFINE E == {[key |-> key[i], off |-> Offsets(d)[i]] : i \in 1 .. Len(d)}
             n == Len(d)
             f == [i \in 1 .. n |-> [key |-> key[i], off |-> Offsets(d)[i]]]
  <1>1. n \in Nat /\ IsFiniteSet(1 .. n) /\ Cardinality(1 .. n) = n
    <2>1. n \in Nat
      OBVIOUS
    <2>2. QED
      BY <2>1, IntervalCounted
  <1>2. /\ \A i \in 1 .. n : Offsets(d)[i] \in Nat
        /\ \A i, j \in 1 .. n : i < j => Offsets(d)[i] < Offsets(d)[j]
    <2>1. \A i \in 1 .. n : i \in 1 .. n + 1
      BY <1>1
    <2>2. QED
      BY <2>1, OffsetsClimb
  <1>3. E \subseteq Entry
    BY <1>2 DEF Entry
  <1>4. f \in Bijection(1 .. n, E)
    <2>1. f \in [1 .. n -> E]
      OBVIOUS
    <2>2. \A i, j \in 1 .. n : f[i] = f[j] => i = j
      <3>1. \A i, j \in 1 .. n : f[i] = f[j] => Offsets(d)[i] = Offsets(d)[j]
        OBVIOUS
      <3>2. \A i, j \in 1 .. n : i < j \/ j < i \/ i = j
        BY <1>1
      <3>3. \A i, j \in 1 .. n : Offsets(d)[i] = Offsets(d)[j] => i = j
        BY <1>2, <3>2
      <3>4. QED
        BY <3>1, <3>3
    <2>3. \A e \in E : \E i \in 1 .. n : f[i] = e
      OBVIOUS
    <2>4. QED
      BY <2>1, <2>2, <2>3 DEF Bijection, Injection, Surjection, IsInjective
  <1>5. ExistsBijection(1 .. n, E)
    BY <1>4 DEF ExistsBijection
  <1>6. IsFiniteSet(E) /\ Cardinality(E) = n
    BY <1>1, <1>5, FS_Bijection
  <1>7. QED
    BY <1>3, <1>6

LEMMA EntriesFacts ==
    ASSUME NEW d \in Seq(Line)
    PROVE  /\ EmailEntries(d) \subseteq Entry /\ IsFiniteSet(EmailEntries(d)) /\ Cardinality(EmailEntries(d)) = Len(d)
           /\ PhoneEntries(d) \subseteq Entry /\ IsFiniteSet(PhoneEntries(d)) /\ Cardinality(PhoneEntries(d)) = Len(d)
  <1>1. DOMAIN d = 1 .. Len(d) /\ \A i \in 1 .. Len(d) : d[i] \in Line
    OBVIOUS
  <1>2. /\ [i \in 1 .. Len(d) |-> d[i].email] \in [1 .. Len(d) -> Nat]
        /\ [i \in 1 .. Len(d) |-> d[i].phone] \in [1 .. Len(d) -> Nat]
    BY <1>1 DEF Line
  <1>3. EmailEntries(d) = {[key |-> [k \in 1 .. Len(d) |-> d[k].email][i], off |-> Offsets(d)[i]] : i \in 1 .. Len(d)}
    BY <1>1 DEF EmailEntries
  <1>4. PhoneEntries(d) = {[key |-> [k \in 1 .. Len(d) |-> d[k].phone][i], off |-> Offsets(d)[i]] : i \in 1 .. Len(d)}
    BY <1>1 DEF PhoneEntries
  <1> DEFINE ke == [i \in 1 .. Len(d) |-> d[i].email]
             kp == [i \in 1 .. Len(d) |-> d[i].phone]
  <1>5. /\ ke \in [1 .. Len(d) -> Nat] /\ kp \in [1 .. Len(d) -> Nat]
        /\ EmailEntries(d) = {[key |-> ke[i], off |-> Offsets(d)[i]] : i \in 1 .. Len(d)}
        /\ PhoneEntries(d) = {[key |-> kp[i], off |-> Offsets(d)[i]] : i \in 1 .. Len(d)}
    BY <1>2, <1>3, <1>4
  <1> HIDE DEF ke, kp
  <1>6. EmailEntries(d) \subseteq Entry /\ IsFiniteSet(EmailEntries(d)) /\ Cardinality(EmailEntries(d)) = Len(d)
    BY <1>5, EntriesCounted
  <1>7. PhoneEntries(d) \subseteq Entry /\ IsFiniteSet(PhoneEntries(d)) /\ Cardinality(PhoneEntries(d)) = Len(d)
    BY <1>5, EntriesCounted
  <1>8. QED
    BY <1>6, <1>7

(* A block is a sequence in order that holds every entry.                    *)
LEMMA BlockFacts ==
    ASSUME NEW E \in SUBSET Entry, IsFiniteSet(E), NEW s \in Blocks(E)
    PROVE  /\ s \in Seq(E) /\ s \in Seq(Entry) /\ Len(s) = Cardinality(E)
           /\ InOrder(s)
           /\ \A e \in E : \E i \in DOMAIN s : s[i] = e
  <1> DEFINE n == Cardinality(E)
  <1>1. n \in Nat /\ IsFiniteSet(1 .. n) /\ Cardinality(1 .. n) = n
    <2>1. n \in Nat
      BY FS_CardinalityType
    <2>2. QED
      BY <2>1, IntervalCounted
  <1>2. s \in [1 .. n -> E] /\ \A i, j \in 1 .. n : i # j => s[i] # s[j]
    BY DEF Blocks, SetToSeqs
  <1> HIDE DEF n
  <1>3. s \in Injection(1 .. n, E)
    BY <1>2 DEF Injection, IsInjective
  <1>4. s \in Surjection(1 .. n, E)
    BY <1>1, <1>3, FS_Injection DEF n
  <1>5. \A e \in E : \E i \in 1 .. n : s[i] = e
    BY <1>4 DEF Surjection
  <1>6. s \in Seq(E) /\ s \in Seq(Entry) /\ Len(s) = n /\ DOMAIN s = 1 .. n
    <2>1. s \in Seq(E) /\ Len(s) = n /\ DOMAIN s = 1 .. n
      BY <1>1, <1>2
    <2>2. s \in [1 .. n -> Entry]
      BY <1>2
    <2>3. s \in Seq(Entry)
      BY <1>1, <2>2
    <2>4. QED
      BY <2>1, <2>3
  <1>7. InOrder(s)
    BY DEF Blocks, InOrder
  <1>8. QED
    BY <1>5, <1>6, <1>7 DEF n

\* All entries of d, as they are written: those by e-mail, then those by phone.
Listing(d) ==
    {es \o ps : es \in Blocks(EmailEntries(d)), ps \in Blocks(PhoneEntries(d))}

LEMMA ListingFacts ==
    ASSUME NEW d \in Seq(Line), NEW l \in Listing(d)
    PROVE  /\ l \in Seq(Entry) /\ Len(l) = 2 * Len(d)
           /\ \A i \in DOMAIN l : /\ i <= Len(d) => l[i] \in EmailEntries(d)
                                  /\ i > Len(d) => l[i] \in PhoneEntries(d)
           /\ SubSeq(l, 1, Len(d)) \in Blocks(EmailEntries(d))
           /\ SubSeq(l, Len(d) + 1, 2 * Len(d)) \in Blocks(PhoneEntries(d))
  <1> DEFINE n == Len(d)
  <1>1. PICK es \in Blocks(EmailEntries(d)), ps \in Blocks(PhoneEntries(d)) : l = es \o ps
    BY DEF Listing
  <1>2. es \in Seq(EmailEntries(d)) /\ es \in Seq(Entry) /\ Len(es) = n
    BY EntriesFacts, BlockFacts
  <1>3. ps \in Seq(PhoneEntries(d)) /\ ps \in Seq(Entry) /\ Len(ps) = n
    BY EntriesFacts, BlockFacts
  <1>4. n \in Nat
    OBVIOUS
  <1> HIDE DEF n
  <1>5. l \in Seq(Entry) /\ Len(l) = 2 * n
    <2>1. l \in Seq(Entry) /\ Len(l) = Len(es) + Len(ps)
      BY <1>1, <1>2, <1>3, ConcatProperties
    <2>2. QED
      BY <1>2, <1>3, <1>4, <2>1
  <1>6. /\ DOMAIN es = 1 .. n /\ DOMAIN ps = 1 .. n /\ DOMAIN l = 1 .. 2 * n
        /\ \A i \in 1 .. n : l[i] = es[i] /\ es[i] \in EmailEntries(d)
        /\ \A i \in 1 .. n : l[n + i] = ps[i] /\ ps[i] \in PhoneEntries(d)
    BY <1>1, <1>2, <1>3, <1>4, <1>5
  <1>7. \A i \in DOMAIN l : i <= n => l[i] \in EmailEntries(d)
    BY <1>4, <1>6
  <1>8. ASSUME NEW i \in DOMAIN l, i > n
        PROVE  l[i] \in PhoneEntries(d)
    <2>1. i - n \in 1 .. n /\ i = n + (i - n)
      BY <1>4, <1>6, <1>8
    <2>2. QED
      BY <1>6, <2>1
  <1>9. SubSeq(l, 1, n) = es
    <2> DEFINE s == SubSeq(l, 1, n)
    <2>1. s \in Seq(Entry) /\ Len(s) = n /\ \A i \in 1 .. n : s[i] = l[i]
      BY <1>4, <1>5
    <2> HIDE DEF s
    <2>2. QED
      BY <1>2, <1>4, <1>6, <2>1, SeqEqual DEF s
  <1>10. SubSeq(l, n + 1, 2 * n) = ps
    <2> DEFINE s == SubSeq(l, n + 1, 2 * n)
    <2>1. s \in Seq(Entry) /\ Len(s) = n /\ \A i \in 1 .. n : s[i] = l[n + i]
      <3>1. \A i \in n + 1 .. 2 * n : l[i] \in Entry
        BY <1>4, <1>5, <1>6
      <3>2. /\ s \in Seq(Entry)
            /\ Len(s) = IF n + 1 <= 2 * n THEN 2 * n - (n + 1) + 1 ELSE 0
            /\ \A i \in 1 .. 2 * n - (n + 1) + 1 : s[i] = l[(n + 1) + i - 1]
        BY <1>4, <3>1, SubSeqProperties
      <3> HIDE DEF s
      <3>3. Len(s) = n
        BY <1>4, <3>2
      <3>4. \A i \in 1 .. n : s[i] = l[n + i]
        <4> SUFFICES ASSUME NEW i \in 1 .. n PROVE s[i] = l[n + i]
          OBVIOUS
        <4>1. i \in 1 .. 2 * n - (n + 1) + 1 /\ (n + 1) + i - 1 = n + i
          BY <1>4
        <4>2. s[i] = l[(n + 1) + i - 1]
          BY <3>2, <4>1
        <4>3. QED
          BY <4>1, <4>2
      <3>5. QED
        BY <3>2, <3>3, <3>4
    <2> HIDE DEF s
    <2>2. QED
      BY <1>3, <1>4, <1>6, <2>1, SeqEqual DEF s
  <1>11. QED
    BY <1>5, <1>7, <1>8, <1>9, <1>10 DEF n

-----------------------------------------------------------------------------
(* Lookups                                                                   *)

\* The entries that were read are of d, each in its half.
Reads(got, d) ==
    \A i \in DOMAIN got : /\ i <= Len(d) => got[i] \in EmailEntries(d)
                          /\ i > Len(d) => got[i] \in PhoneEntries(d)

LEMMA QueryKey ==
    ASSUME NEW q \in Queries
    PROVE  (q.email # None => q.email \in Nat) /\ (q.email = None => q.phone \in Nat)
  BY QueriesAssumption

(* Whatever listing the entries were read of, or several of them in turn: a  *)
(* lookup leads to the place of a line with the key.                         *)
LEMMA LookupLeads ==
    ASSUME NEW d \in Seq(Line), NEW q \in Queries, NEW got \in Seq(Entry),
           Len(got) >= 2 * Len(d), Reads(got, d),
           NEW off \in FoundIn(<< Len(d), Len(d) >>, got, q)
    PROVE  \E j \in DOMAIN d : off = Offsets(d)[j] /\ d[j] \in Hits(d, q)
  <1> DEFINE n == Len(d)
  <1>1. /\ n \in Nat /\ Len(got) \in Nat /\ DOMAIN got = 1 .. Len(got)
        /\ \A i \in 1 .. Len(got) : got[i] \in Entry
    OBVIOUS
  <1>2. CASE q.email # None
    <2> DEFINE block == SubSeq(got, 1, n)
    <2>1. off \in Found(block, q.email)
      BY <1>2 DEF FoundIn
    <2>2. \A i \in 1 .. n : got[i] \in Entry /\ got[i] \in EmailEntries(d)
      BY SMTT(30), <1>1 DEF Reads
    <2>3. block \in Seq(Entry) /\ Len(block) = n /\ \A i \in 1 .. n : block[i] = got[i]
      <3>1. /\ block \in Seq(Entry) /\ Len(block) = IF 1 <= n THEN n - 1 + 1 ELSE 0
            /\ \A i \in 1 .. n - 1 + 1 : block[i] = got[1 + i - 1]
        BY <1>1, <2>2, SubSeqProperties
      <3> HIDE DEF block
      <3>2. QED
        BY <1>1, <3>1
    <2> HIDE DEF block
    <2>4. Leads(Found(block, q.email), block, q.email) /\ DOMAIN block = 1 .. n
      BY <1>2, <2>3, QueryKey, FoundFacts
    <2>5. PICK i \in 1 .. n : block[i].key = q.email /\ block[i].off = off
      BY <2>1, <2>4 DEF Leads
    <2>6. PICK j \in DOMAIN d : got[i] = [key |-> d[j].email, off |-> Offsets(d)[j]]
      BY <2>2 DEF EmailEntries
    <2>7. off = Offsets(d)[j] /\ d[j].email = q.email
      BY <2>3, <2>5, <2>6
    <2>8. d[j] \in Hits(d, q)
      BY <1>2, <2>7 DEF Hits
    <2>9. QED
      BY <2>7, <2>8
  <1>3. CASE q.email = None
    <2> DEFINE block == SubSeq(got, n + 1, n + n)
    <2>1. off \in Found(block, q.phone)
      BY <1>3 DEF FoundIn
    <2>2. \A i \in n + 1 .. n + n : got[i] \in Entry /\ got[i] \in PhoneEntries(d)
      BY <1>1 DEF Reads
    <2>3. block \in Seq(Entry) /\ Len(block) = n /\ \A i \in 1 .. n : block[i] = got[n + i]
      <3>1. /\ block \in Seq(Entry) /\ Len(block) = IF n + 1 <= n + n THEN n + n - (n + 1) + 1 ELSE 0
            /\ \A i \in 1 .. n + n - (n + 1) + 1 : block[i] = got[n + 1 + i - 1]
        BY <1>1, <2>2, SubSeqProperties
      <3> HIDE DEF block
      <3>2. n + n - (n + 1) + 1 = n /\ (IF n + 1 <= n + n THEN n + n - (n + 1) + 1 ELSE 0) = n
        BY <1>1
      <3>3. Len(block) = n /\ \A i \in 1 .. n : block[i] = got[n + 1 + i - 1]
        BY <3>1, <3>2
      <3>4. \A i \in 1 .. n : n + 1 + i - 1 = n + i
        BY <1>1
      <3>5. \A i \in 1 .. n : block[i] = got[n + i]
        BY <3>3, <3>4
      <3>6. QED
        BY <3>1, <3>3, <3>5
    <2> HIDE DEF block
    <2>4. Leads(Found(block, q.phone), block, q.phone) /\ DOMAIN block = 1 .. n
      BY <1>3, <2>3, QueryKey, FoundFacts
    <2>5. PICK i \in 1 .. n : block[i].key = q.phone /\ block[i].off = off
      BY <2>1, <2>4 DEF Leads
    <2>6. PICK j \in DOMAIN d : got[n + i] = [key |-> d[j].phone, off |-> Offsets(d)[j]]
      <3>1. n + i \in n + 1 .. n + n
        BY <1>1
      <3>2. QED
        BY <2>2, <3>1 DEF PhoneEntries
    <2>7. off = Offsets(d)[j] /\ d[j].phone = q.phone
      BY <2>3, <2>5, <2>6
    <2>8. d[j] \in Hits(d, q)
      BY <1>3, <2>7 DEF Hits
    <2>9. QED
      BY <2>7, <2>8
  <1>4. QED
    BY <1>2, <1>3

(* In a whole listing, a lookup that finds nothing means that no line has    *)
(* the key.                                                                  *)
LEMMA LookupFinds ==
    ASSUME NEW d \in Seq(Line), NEW q \in Queries, NEW l \in Listing(d),
           FoundIn(<< Len(d), Len(d) >>, l, q) = {}
    PROVE  Hits(d, q) = {}
  <1> DEFINE n == Len(d)
             es == SubSeq(l, 1, n)
             ps == SubSeq(l, n + 1, n + n)
  <1>1. n \in Nat /\ 2 * n = n + n
    OBVIOUS
  <1>2. es \in Blocks(EmailEntries(d)) /\ ps \in Blocks(PhoneEntries(d))
    BY <1>1, ListingFacts
  <1>3. (q.email # None => Found(es, q.email) = {}) /\ (q.email = None => Found(ps, q.phone) = {})
    BY DEF FoundIn
  <1> HIDE DEF es, ps
  <1>4. /\ es \in Seq(Entry) /\ InOrder(es) /\ \A e \in EmailEntries(d) : \E i \in DOMAIN es : es[i] = e
        /\ ps \in Seq(Entry) /\ InOrder(ps) /\ \A e \in PhoneEntries(d) : \E i \in DOMAIN ps : ps[i] = e
    <2>1. es \in Seq(Entry) /\ InOrder(es) /\ \A e \in EmailEntries(d) : \E i \in DOMAIN es : es[i] = e
      BY <1>2, EntriesFacts, BlockFacts
    <2>2. ps \in Seq(Entry) /\ InOrder(ps) /\ \A e \in PhoneEntries(d) : \E i \in DOMAIN ps : ps[i] = e
      BY <1>2, EntriesFacts, BlockFacts
    <2>3. QED
      BY <2>1, <2>2
  <1>5. ASSUME NEW j \in DOMAIN d, IF q.email # None THEN d[j].email = q.email ELSE d[j].phone = q.phone
        PROVE  FALSE
    <2>1. CASE q.email # None
      <3>1. \A i \in DOMAIN es : es[i].key # q.email
        BY <1>3, <1>4, <2>1, QueryKey, FoundFacts
      <3>2. [key |-> d[j].email, off |-> Offsets(d)[j]] \in EmailEntries(d)
        BY DEF EmailEntries
      <3>3. PICK i \in DOMAIN es : es[i] = [key |-> d[j].email, off |-> Offsets(d)[j]]
        BY <1>4, <3>2
      <3>4. QED
        BY <1>5, <2>1, <3>1, <3>3
    <2>2. CASE q.email = None
      <3>1. \A i \in DOMAIN ps : ps[i].key # q.phone
        BY <1>3, <1>4, <2>2, QueryKey, FoundFacts
      <3>2. [key |-> d[j].phone, off |-> Offsets(d)[j]] \in PhoneEntries(d)
        BY DEF PhoneEntries
      <3>3. PICK i \in DOMAIN ps : ps[i] = [key |-> d[j].phone, off |-> Offsets(d)[j]]
        BY <1>4, <3>2
      <3>4. QED
        BY <1>5, <2>2, <3>1, <3>3
    <2>3. QED
      BY <2>1, <2>2
  <1>6. QED
    BY <1>5 DEF Hits

-----------------------------------------------------------------------------
(* The inductive invariant                                                   *)

\* Saves follow one another.  The one saver stands for all processes that save in
\* turn, since a process that is done with a save keeps nothing of it here.
OneSaver == \A p, q \in Savers : p = q

\* x is an index of d, whole or as far as it has been written.
IndexOf(x, d) ==
    /\ x.head \in {None, << Len(d), Len(d) >>}
    /\ \E l \in Listing(d) : Len(x.body) <= Len(l) /\ \A i \in DOMAIN x.body : x.body[i] = l[i]

SaverShape(s) == s = [pc |-> s.pc, rows |-> s.rows, hash |-> s.hash, todo |-> s.todo]

SearchShape(s) ==
    s = [pc |-> s.pc, query |-> s.query, hash |-> s.hash, head |-> s.head, got |-> s.got,
         at |-> s.at, found |-> s.found, exposed |-> s.exposed]

Files ==
    /\ data \in Versions \cup {<< >>} /\ meta \in Versions \cup {None}
    /\ index = [head |-> index.head, body |-> index.body] /\ index.body \in Seq(Entry)
    /\ index = Empty \/ \E d \in Versions : IndexOf(index, d)
    /\ cut \in BOOLEAN

\* Where a save is, and what it knows.
Saves(s) ==
    /\ SaverShape(s)
    /\ s.pc \in {"idle", "hash", "meta", "open", "head", "entries"}
    /\ s.pc = "idle" => s = NotSaving
    /\ s.pc # "idle" => data \in Versions /\ s.rows = data
    /\ s.pc = "hash" => s.hash = << >>
    /\ s.pc \in {"meta", "open", "head", "entries"} => s.hash = data
    /\ s.pc = "head" => index = Empty /\ s.todo \in Listing(data)
    /\ s.pc = "entries" =>
         /\ index.head = << Len(data), Len(data) >>
         /\ s.todo \in Seq(Entry) /\ index.body \o s.todo \in Listing(data)
    /\ s.pc \in {"head", "entries"} /\ ~cut => meta = data

Saving == saver = [p \in Savers |-> saver[p]] /\ \A p \in Savers : Saves(saver[p])

\* The index belongs to its meta file, unless that ran ahead of it.
Filed ==
    \/ cut
    \/ \E p \in Savers : saver[p].pc = "open" /\ meta = saver[p].hash
    \/ index = Empty
    \/ meta \in Versions /\ IndexOf(index, meta)

\* Whatever is in the index is of the data.
Settled == data \in Versions /\ meta = data /\ (index = Empty \/ IndexOf(index, data))

\* What an unexposed search has seen is of the data.
Sees(s) ==
    /\ s.pc # "idle" => data # << >>
    /\ s.pc = "meta" => s.hash = data
    /\ s.pc \in {"head", "entries", "slice", "answer"} => Settled
    /\ s.pc = "entries" => s.head = << Len(data), Len(data) >> /\ Reads(s.got, data)
    /\ s.pc = "slice" =>
         \E j \in DOMAIN data : s.at = Offsets(data)[j] /\ data[j] \in Hits(data, s.query)
    /\ s.pc = "answer" => s.found \in Hits(data, s.query)

Searches(s) ==
    /\ SearchShape(s)
    /\ s.pc \in {"idle", "hash", "meta", "head", "entries", "slice", "answer"}
    /\ s.exposed \in BOOLEAN
    /\ s.pc = "idle" => s = NotSearching
    /\ s.pc # "idle" => s.query \in Queries
    /\ s.got \in Seq(Entry) /\ Len(s.got) <= 2 * Longest
    /\ s.pc \in {"hash", "meta", "head"} => s.got = << >>
    /\ ~s.exposed => Sees(s)

Searching == search = [r \in Searchers |-> search[r]] /\ \A r \in Searchers : Searches(search[r])

IInv == Files /\ Saving /\ Filed /\ Searching

-----------------------------------------------------------------------------
(* What an index of d says                                                   *)

LEMMA VersionsAreLines ==
    ASSUME NEW d \in Versions
    PROVE  d \in Seq(Line)
  BY VersionsAssumption DEF Line

(* An index that loads has been written to the end.                          *)
LEMMA WholeIndex ==
    ASSUME NEW d \in Seq(Line), index.body \in Seq(Entry), IndexOf(index, d), Loads
    PROVE  index.head = << Len(d), Len(d) >> /\ index.body \in Listing(d)
  <1>1. index.head = << Len(d), Len(d) >>
    BY DEF IndexOf, Loads
  <1>2. PICK l \in Listing(d) :
          Len(index.body) <= Len(l) /\ \A i \in DOMAIN index.body : index.body[i] = l[i]
    BY DEF IndexOf
  <1>3. Len(index.body) >= Len(d) + Len(d)
    BY <1>1 DEF Loads, Needed
  <1>4. l \in Seq(Entry) /\ Len(l) = 2 * Len(d) /\ Len(d) \in Nat
    BY ListingFacts
  <1>5. Len(index.body) = Len(l) /\ DOMAIN index.body = 1 .. Len(index.body)
    <2>1. Len(index.body) \in Nat /\ DOMAIN index.body = 1 .. Len(index.body)
      OBVIOUS
    <2>2. Len(index.body) <= Len(l)
      BY <1>2
    <2>3. Len(index.body) = Len(l)
      BY <1>3, <1>4, <2>1, <2>2
    <2>4. QED
      BY <2>1, <2>3
  <1>6. index.body = l
    BY <1>2, <1>4, <1>5, SeqEqual
  <1>7. QED
    BY <1>1, <1>6

LEMMA IndexDescribes ==
    ASSUME NEW d \in Seq(Line), index.body \in Seq(Entry), IndexOf(index, d), Loads
    PROVE  Describes(d)
  <1> DEFINE n == Len(d)
             l == index.body
  <1>1. index.head = << n, n >> /\ l \in Listing(d)
    BY WholeIndex
  <1>2. l \in Seq(Entry) /\ Len(l) >= 2 * n /\ Reads(l, d)
    <2>1. l \in Seq(Entry) /\ Len(l) = 2 * n /\ n \in Nat
      BY <1>1, ListingFacts
    <2>2. Reads(l, d)
      BY <1>1, ListingFacts DEF Reads
    <2>3. QED
      BY <2>1, <2>2
  <1>3. ASSUME NEW q \in Queries
        PROVE  LET offs == FoundIn(index.head, index.body, q)
               IN  /\ offs = {} <=> Hits(d, q) = {}
                   /\ \A off \in offs : LinesAt(d, off) # {} /\ LinesAt(d, off) \subseteq Hits(d, q)
    <2> DEFINE offs == FoundIn(<< n, n >>, l, q)
    <2>1. offs = FoundIn(index.head, index.body, q)
      BY <1>1
    <2>2. \A off \in offs : \E j \in DOMAIN d : off = Offsets(d)[j] /\ d[j] \in Hits(d, q)
      BY <1>2, LookupLeads
    <2>3. offs = {} => Hits(d, q) = {}
      BY <1>1, LookupFinds
    <2> HIDE DEF offs
    <2>4. \A off \in offs : LinesAt(d, off) # {} /\ LinesAt(d, off) \subseteq Hits(d, q)
      BY <2>2, LinesAtOffset
    <2>5. offs # {} => Hits(d, q) # {}
      BY <2>2
    <2>6. QED
      BY <2>1, <2>3, <2>4, <2>5
  <1>4. QED
    BY <1>3 DEF Describes

LEMMA LongestFacts == Longest \in Nat /\ \A d \in Versions : Len(d) <= Longest
  <1>1. PICK d \in Versions : \A e \in Versions : Len(e) <= Len(d)
    BY LongestAssumption
  <1>2. Longest \in {Len(e) : e \in Versions} /\ \A e \in Versions : Len(e) <= Longest
    <2>1. \E n \in {Len(e) : e \in Versions} : \A e \in Versions : Len(e) <= n
      BY <1>1
    <2>2. QED
      BY <2>1 DEF Longest
  <1>3. \A e \in Versions : Len(e) \in Nat
    BY VersionsAreLines
  <1>4. QED
    BY <1>2, <1>3

(* However far it has been written, an index of d holds entries of d, and no *)
(* more than two for each line.                                              *)
LEMMA IndexFacts ==
    ASSUME NEW d \in Seq(Line), NEW x, x.body \in Seq(Entry), IndexOf(x, d)
    PROVE  Len(x.body) <= 2 * Len(d) /\ Reads(x.body, d)
  <1>1. PICK l \in Listing(d) : Len(x.body) <= Len(l) /\ \A i \in DOMAIN x.body : x.body[i] = l[i]
    BY DEF IndexOf
  <1>2. /\ l \in Seq(Entry) /\ Len(l) = 2 * Len(d)
        /\ \A i \in DOMAIN l : /\ i <= Len(d) => l[i] \in EmailEntries(d)
                               /\ i > Len(d) => l[i] \in PhoneEntries(d)
    BY ListingFacts
  <1>3. \A i \in DOMAIN x.body : i \in DOMAIN l
    <2>1. /\ DOMAIN x.body = 1 .. Len(x.body) /\ DOMAIN l = 1 .. Len(l)
          /\ Len(x.body) \in Nat /\ Len(l) \in Nat /\ Len(x.body) <= Len(l)
      BY <1>1, <1>2
    <2>2. QED
      BY <2>1
  <1>4. Reads(x.body, d)
    BY <1>1, <1>2, <1>3 DEF Reads
  <1>5. QED
    BY <1>1, <1>2, <1>4

LEMMA IndexBounded ==
    ASSUME Files
    PROVE  Len(index.body) <= 2 * Longest
  <1>1. CASE index = Empty
    <2>1. Len(index.body) = 0
      BY <1>1 DEF Empty
    <2>2. QED
      BY <2>1, LongestFacts
  <1>2. CASE \E d \in Versions : IndexOf(index, d)
    <2>1. PICK d \in Versions : IndexOf(index, d)
      BY <1>2
    <2>2. Len(index.body) <= 2 * Len(d) /\ Len(d) \in Nat
      BY <2>1, VersionsAreLines, IndexFacts DEF Files
    <2>3. Len(index.body) \in Nat
      BY DEF Files
    <2>4. Len(d) <= Longest /\ Longest \in Nat
      BY LongestFacts
    <2>5. QED
      BY <2>2, <2>3, <2>4
  <1>3. QED
    BY <1>1, <1>2 DEF Files

(* What has been written with what is left to write is a listing, so what    *)
(* has been written is the beginning of one.                                 *)
LEMMA BeginningIsIndex ==
    ASSUME NEW d \in Seq(Line), NEW x, x.head = << Len(d), Len(d) >>, x.body \in Seq(Entry),
           NEW todo \in Seq(Entry), x.body \o todo \in Listing(d)
    PROVE  IndexOf(x, d)
  <1> DEFINE l == x.body \o todo
  <1>1. /\ Len(l) = Len(x.body) + Len(todo)
        /\ \A i \in 1 .. Len(x.body) + Len(todo) :
             l[i] = IF i <= Len(x.body) THEN x.body[i] ELSE todo[i - Len(x.body)]
    BY ConcatProperties
  <1>2. DOMAIN x.body = 1 .. Len(x.body) /\ Len(x.body) \in Nat /\ Len(todo) \in Nat
    OBVIOUS
  <1> HIDE DEF l
  <1>3. Len(x.body) <= Len(l)
    BY <1>1, <1>2
  <1>4. \A i \in DOMAIN x.body : i \in 1 .. Len(x.body) + Len(todo) /\ i <= Len(x.body)
    BY <1>2
  <1>5. \A i \in DOMAIN x.body : x.body[i] = l[i]
    BY <1>1, <1>4
  <1>6. QED
    BY <1>3, <1>5 DEF IndexOf, l

(* Moving the first of what is left to the end of what is written.           *)
LEMMA MoveOne ==
    ASSUME NEW b \in Seq(Entry), NEW t \in Seq(Entry), t # << >>
    PROVE  /\ Append(b, Head(t)) \in Seq(Entry) /\ Tail(t) \in Seq(Entry)
           /\ Append(b, Head(t)) \o Tail(t) = b \o t
  <1>1. /\ Head(t) \in Entry /\ Tail(t) \in Seq(Entry) /\ Len(Tail(t)) = Len(t) - 1
        /\ \A i \in 1 .. Len(Tail(t)) : Tail(t)[i] = t[i + 1]
        /\ Head(t) = t[1]
    BY HeadTailProperties
  <1> DEFINE a == Append(b, Head(t))
             s == Tail(t)
  <1>2. /\ a \in Seq(Entry) /\ Len(a) = Len(b) + 1
        /\ \A i \in 1 .. Len(b) : a[i] = b[i]
        /\ a[Len(b) + 1] = Head(t)
    BY <1>1, AppendProperties
  <1>3. Len(b) \in Nat /\ Len(t) \in Nat /\ s \in Seq(Entry)
    BY <1>1
  <1> HIDE DEF a
  <1>4. /\ a \o s \in Seq(Entry) /\ Len(a \o s) = Len(a) + Len(s)
        /\ \A i \in 1 .. Len(a) + Len(s) : (a \o s)[i] = IF i <= Len(a) THEN a[i] ELSE s[i - Len(a)]
    BY <1>2, <1>3, ConcatProperties
  <1>5. /\ b \o t \in Seq(Entry) /\ Len(b \o t) = Len(b) + Len(t)
        /\ \A i \in 1 .. Len(b) + Len(t) : (b \o t)[i] = IF i <= Len(b) THEN b[i] ELSE t[i - Len(b)]
    BY ConcatProperties
  <1>6. Len(s) = Len(t) - 1 /\ \A i \in 1 .. Len(s) : s[i] = t[i + 1]
    BY <1>1
  <1> HIDE DEF s
  <1>7. Len(a \o s) = Len(b \o t) /\ Len(a \o s) = Len(b) + Len(t)
    BY <1>2, <1>3, <1>4, <1>5, <1>6
  <1>8. ASSUME NEW i \in 1 .. Len(b) + Len(t)
        PROVE  (a \o s)[i] = (b \o t)[i]
    <2>1. CASE i <= Len(b)
      BY <1>2, <1>3, <1>4, <1>5, <1>7, <2>1
    <2>2. CASE i = Len(b) + 1
      <3>1. (a \o s)[i] = a[i] /\ (b \o t)[i] = t[1]
        BY <1>2, <1>3, <1>4, <1>5, <1>7, <2>2
      <3>2. QED
        BY <1>1, <1>2, <2>2, <3>1
    <2>3. CASE i > Len(b) + 1
      <3> DEFINE k == i - Len(a)
      <3>1. k \in 1 .. Len(s) /\ i - Len(b) = k + 1 /\ ~(i <= Len(a)) /\ ~(i <= Len(b))
        BY <1>2, <1>3, <1>6, <2>3
      <3>2. (a \o s)[i] = s[k] /\ (b \o t)[i] = t[k + 1]
        BY <1>4, <1>5, <1>7, <3>1
      <3>3. QED
        BY <1>6, <3>1, <3>2
    <2>4. i <= Len(b) \/ i = Len(b) + 1 \/ i > Len(b) + 1
      BY <1>3
    <2>5. QED
      BY <2>1, <2>2, <2>3, <2>4
  <1>9. a \o s = b \o t
    BY <1>4, <1>5, <1>7, <1>8, SeqEqual
  <1>10. QED
    BY <1>2, <1>3, <1>9 DEF a, s

-----------------------------------------------------------------------------
(* The initial states                                                        *)

LEMMA InitHolds == Init => IInv
  <1> SUFFICES ASSUME Init PROVE IInv
    OBVIOUS
  <1>1. Files
    <2>1. index.body = << >> /\ index = [head |-> index.head, body |-> index.body]
      BY DEF Init, Empty
    <2>2. << >> \in Seq(Entry)
      OBVIOUS
    <2>3. index.body \in Seq(Entry)
      BY <2>1, <2>2
    <2>4. data = << >> /\ meta = None /\ index = Empty /\ cut = FALSE
      BY DEF Init
    <2>5. QED
      BY <2>1, <2>3, <2>4 DEF Files
  <1>2. Saving
    <2>1. \A p \in Savers : saver[p] = NotSaving
      BY DEF Init
    <2>2. Saves(NotSaving)
      BY DEF Saves, SaverShape, NotSaving
    <2>3. saver = [p \in Savers |-> saver[p]]
      BY DEF Init
    <2>4. QED
      BY <2>1, <2>2, <2>3 DEF Saving
  <1>3. Filed
    BY DEF Init, Filed
  <1>4. Searching
    <2>1. \A r \in Searchers : search[r] = NotSearching
      BY DEF Init
    <2>2. Searches(NotSearching)
      <3>1. << >> \in Seq(Entry) /\ Len(<< >>) = 0 /\ 0 <= 2 * Longest
        BY LongestFacts
      <3>2. QED
        BY <3>1 DEF Searches, Sees, SearchShape, NotSearching
    <2>3. search = [r \in Searchers |-> search[r]]
      BY DEF Init
    <2>4. QED
      BY <2>1, <2>2, <2>3 DEF Searching
  <1>5. QED
    BY <1>1, <1>2, <1>3, <1>4 DEF IInv

-----------------------------------------------------------------------------
(* The steps of a save                                                       *)

(* Only p saves, so what p does is all there is to say of the saves.         *)
LEMMA OnlyOneSaves ==
    ASSUME OneSaver, Saving, NEW p \in Savers, NEW s, SaverTo(p, s), Saves(s)'
    PROVE  Saving' /\ saver'[p] = s
  <1>1. saver' = [saver EXCEPT ![p] = s] /\ saver = [q \in Savers |-> saver[q]]
    BY DEF SaverTo, Saving
  <1>2. saver'[p] = s /\ saver' = [q \in Savers |-> saver'[q]]
    BY <1>1
  <1>3. \A q \in Savers : saver'[q] = s
    BY <1>2 DEF OneSaver
  <1>4. \A q \in Savers : Saves(saver[q])'
    BY <1>3 DEF Saves, SaverShape
  <1>5. QED
    BY <1>2, <1>4 DEF Saving

(* A search under way goes on seeing the data as long as a save rewrites     *)
(* the other files for the same data.                                        *)
LEMMA SearchesGoOn ==
    ASSUME Searching, UNCHANGED << search, data >>, Settled => Settled'
    PROVE  Searching'
  <1>1. ASSUME NEW r \in Searchers
        PROVE  Searches(search[r])'
    <2>1. Searches(search[r])
      BY DEF Searching
    <2>2. Sees(search[r]) => Sees(search[r])'
      BY DEF Sees
    <2>3. QED
      BY <2>1, <2>2 DEF Searches, SearchShape
  <1>2. QED
    BY <1>1 DEF Searching

LEMMA SaverFacts ==
    ASSUME IInv, NEW p \in Savers
    PROVE  /\ Saves(saver[p])
           /\ (saver[p].pc # "idle" => data \in Versions /\ data \in Seq(Line) /\ Len(data) \in Nat)
  <1>1. Saves(saver[p])
    BY DEF IInv, Saving
  <1>2. QED
    BY <1>1, VersionsAreLines DEF Saves

LEMMA WriteDataStep ==
    ASSUME OneSaver, IInv, NEW p \in Savers, NEW d \in Versions, WriteData(p, d)
    PROVE  IInv'
  <1> DEFINE s == [NotSaving EXCEPT !.pc = "hash", !.rows = d]
  <1>1. s = [pc |-> "hash", rows |-> d, hash |-> << >>, todo |-> << >>]
    <2>1. PICK x : x = NotSaving
      OBVIOUS
    <2>2. SaverShape(x) /\ x.hash = << >> /\ x.todo = << >>
      BY <2>1 DEF SaverShape, NotSaving
    <2>3. PICK y : y = [x EXCEPT !.pc = "hash", !.rows = d]
      OBVIOUS
    <2>4. y = [pc |-> "hash", rows |-> d, hash |-> x.hash, todo |-> x.todo]
      BY <2>2, <2>3 DEF SaverShape
    <2>5. QED
      BY <2>1, <2>2, <2>3, <2>4
  <1>2. data' = d /\ UNCHANGED << meta, index, cut >> /\ SaverTo(p, s)
    BY DEF WriteData
  <1> HIDE DEF s
  <1>3. Files'
    BY <1>2 DEF IInv, Files
  <1>4. Saves(s)'
    BY <1>1, <1>2 DEF Saves, SaverShape
  <1>5. Saving' /\ saver'[p] = s
    BY <1>2, <1>4, OnlyOneSaves DEF IInv
  <1>6. Filed'
    <2>1. \A q \in Savers : q = p
      BY DEF OneSaver
    <2>2. saver[p].pc = "idle"
      BY DEF WriteData
    <2>3. cut \/ index = Empty \/ (meta \in Versions /\ IndexOf(index, meta))
      BY <2>1, <2>2 DEF IInv, Filed
    <2>4. QED
      BY <1>2, <2>3 DEF Filed
  <1>7. Searching'
    <2>1. search' = [r \in Searchers |-> IF search[r].pc = "idle" THEN search[r]
                                         ELSE [search[r] EXCEPT !.exposed = TRUE]]
      BY DEF WriteData
    <2>2. ASSUME NEW r \in Searchers
          PROVE  Searches(search[r])'
      <3>1. Searches(search[r])
        BY DEF IInv, Searching
      <3>2. CASE search[r].pc = "idle"
        <4>1. search'[r] = search[r]
          BY <2>1, <3>2
        <4>2. Sees(search[r])'
          BY <3>2, <4>1 DEF Sees
        <4>3. QED
          BY <3>1, <4>1, <4>2 DEF Searches, SearchShape
      <3>3. CASE search[r].pc # "idle"
        <4>1. PICK x : x = search[r]
          OBVIOUS
        <4>2. PICK y : y = [x EXCEPT !.exposed = TRUE]
          OBVIOUS
        <4>3. search'[r] = y
          BY <2>1, <3>3, <4>1, <4>2
        <4>4. Searches(x) /\ SearchShape(x) /\ x.pc # "idle"
          BY <3>1, <3>3, <4>1 DEF Searches
        <4>5. y = [pc |-> x.pc, query |-> x.query, hash |-> x.hash, head |-> x.head, got |-> x.got,
                   at |-> x.at, found |-> x.found, exposed |-> TRUE]
          BY <4>2, <4>4 DEF SearchShape
        <4>6. Searches(y)'
          BY <4>4, <4>5 DEF Searches, SearchShape
        <4>7. QED
          BY <4>3, <4>6 DEF Searches, SearchShape
      <3>4. QED
        BY <3>2, <3>3
    <2>3. QED
      BY <2>1, <2>2 DEF Searching
  <1>8. QED
    BY <1>3, <1>5, <1>6, <1>7 DEF IInv

LEMMA HashDataStep ==
    ASSUME OneSaver, IInv, NEW p \in Savers, HashData(p)
    PROVE  IInv'
  <1>1. PICK x : x = saver[p]
    OBVIOUS
  <1>2. PICK s : s = [x EXCEPT !.pc = "meta", !.hash = data]
    OBVIOUS
  <1>3. x.pc = "hash" /\ UNCHANGED << data, meta, index, search, cut >> /\ SaverTo(p, s)
    BY <1>1, <1>2 DEF HashData
  <1>4. Saves(x) /\ SaverShape(x) /\ data \in Versions /\ x.rows = data
    BY <1>1, <1>3, SaverFacts DEF Saves
  <1>5. s = [pc |-> "meta", rows |-> x.rows, hash |-> data, todo |-> x.todo]
    BY <1>2, <1>4 DEF SaverShape
  <1>6. Saves(s)'
    BY <1>3, <1>4, <1>5 DEF Saves, SaverShape
  <1>7. Saving' /\ saver'[p] = s
    BY <1>3, <1>6, OnlyOneSaves DEF IInv
  <1>8. Files'
    BY <1>3 DEF IInv, Files
  <1>9. Filed'
    <2>1. \A q \in Savers : q = p
      BY DEF OneSaver
    <2>2. cut \/ index = Empty \/ (meta \in Versions /\ IndexOf(index, meta))
      BY <1>1, <1>3, <2>1 DEF IInv, Filed
    <2>3. QED
      BY <1>3, <2>2 DEF Filed
  <1>10. Searching'
    <2>1. Settled => Settled'
      BY <1>3 DEF Settled
    <2>2. QED
      BY <1>3, <2>1, SearchesGoOn DEF IInv
  <1>11. QED
    BY <1>7, <1>8, <1>9, <1>10 DEF IInv

LEMMA WriteMetaStep ==
    ASSUME OneSaver, IInv, NEW p \in Savers, WriteMeta(p)
    PROVE  IInv'
  <1>1. PICK x : x = saver[p]
    OBVIOUS
  <1>2. PICK s : s = [x EXCEPT !.pc = "open"]
    OBVIOUS
  <1>3. /\ x.pc = "meta" /\ UNCHANGED << data, index, search, cut >> /\ SaverTo(p, s)
        /\ meta' \in {meta, x.hash}
    BY <1>1, <1>2 DEF WriteMeta
  <1>4. Saves(x) /\ SaverShape(x) /\ data \in Versions /\ x.rows = data /\ x.hash = data
    BY <1>1, <1>3, SaverFacts DEF Saves
  <1>5. s = [pc |-> "open", rows |-> x.rows, hash |-> x.hash, todo |-> x.todo]
    BY <1>2, <1>4 DEF SaverShape
  <1>6. Saves(s)'
    BY <1>3, <1>4, <1>5 DEF Saves, SaverShape
  <1>7. Saving' /\ saver'[p] = s
    BY <1>3, <1>6, OnlyOneSaves DEF IInv
  <1>8. Files'
    BY <1>3, <1>4 DEF IInv, Files
  <1>9. Filed'
    <2>1. \A q \in Savers : q = p
      BY DEF OneSaver
    <2>2. cut \/ index = Empty \/ (meta \in Versions /\ IndexOf(index, meta))
      BY <1>1, <1>3, <2>1 DEF IInv, Filed
    <2>3. CASE meta' = x.hash
      <3>1. saver'[p].pc = "open" /\ meta' = saver'[p].hash
        BY <1>5, <1>7, <2>3
      <3>2. QED
        BY <3>1 DEF Filed
    <2>4. CASE meta' = meta
      BY <1>3, <2>2, <2>4 DEF Filed
    <2>5. QED
      BY <1>3, <2>3, <2>4
  <1>10. Searching'
    <2>1. Settled => Settled'
      BY <1>3, <1>4 DEF Settled
    <2>2. QED
      BY <1>3, <2>1, SearchesGoOn DEF IInv
  <1>11. QED
    BY <1>7, <1>8, <1>9, <1>10 DEF IInv

LEMMA OpenIndexStep ==
    ASSUME OneSaver, IInv, NEW p \in Savers, OpenIndex(p)
    PROVE  IInv'
  <1>1. PICK x : x = saver[p]
    OBVIOUS
  <1>2. PICK es \in Blocks(EmailEntries(x.rows)), ps \in Blocks(PhoneEntries(x.rows)) :
          SaverTo(p, [x EXCEPT !.pc = "head", !.todo = es \o ps])
    BY <1>1 DEF OpenIndex
  <1>3. PICK s : s = [x EXCEPT !.pc = "head", !.todo = es \o ps]
    OBVIOUS
  <1>4. x.pc = "open" /\ index' = Empty /\ UNCHANGED << data, meta, search >> /\ SaverTo(p, s)
        /\ cut' = (meta # x.hash)
    BY <1>1, <1>2, <1>3 DEF OpenIndex
  <1>5. Saves(x) /\ SaverShape(x) /\ data \in Versions /\ x.rows = data /\ x.hash = data
    BY <1>1, <1>4, SaverFacts DEF Saves
  <1>6. s = [pc |-> "head", rows |-> x.rows, hash |-> x.hash, todo |-> es \o ps]
    BY <1>3, <1>5 DEF SaverShape
  <1>7. es \o ps \in Listing(data)
    BY <1>2, <1>5 DEF Listing
  <1>8. Saves(s)'
    BY <1>4, <1>5, <1>6, <1>7 DEF Saves, SaverShape
  <1>9. Saving' /\ saver'[p] = s
    BY <1>4, <1>8, OnlyOneSaves DEF IInv
  <1>10. Files'
    <2>1. index'.body = << >> /\ index' = [head |-> index'.head, body |-> index'.body]
      BY <1>4 DEF Empty
    <2>2. << >> \in Seq(Entry)
      OBVIOUS
    <2>3. index'.body \in Seq(Entry)
      BY <2>1, <2>2
    <2>4. QED
      BY <1>4, <2>1, <2>3 DEF IInv, Files
  <1>11. Filed'
    BY <1>4 DEF Filed
  <1>12. Searching'
    <2>1. Settled => Settled'
      BY <1>4 DEF Settled
    <2>2. QED
      BY <1>4, <2>1, SearchesGoOn DEF IInv
  <1>13. QED
    BY <1>9, <1>10, <1>11, <1>12 DEF IInv

LEMMA WriteHeadStep ==
    ASSUME OneSaver, IInv, NEW p \in Savers, WriteHead(p)
    PROVE  IInv'
  <1>1. PICK x : x = saver[p]
    OBVIOUS
  <1>2. PICK s : s = [x EXCEPT !.pc = "entries"]
    OBVIOUS
  <1>3. /\ x.pc = "head" /\ UNCHANGED << data, meta, search, cut >> /\ SaverTo(p, s)
        /\ index' = [index EXCEPT !.head = << Len(x.rows), Len(x.rows) >>]
    BY <1>1, <1>2 DEF WriteHead
  <1>4. /\ Saves(x) /\ SaverShape(x) /\ data \in Versions /\ data \in Seq(Line) /\ x.rows = data
        /\ x.hash = data /\ index = Empty /\ x.todo \in Listing(data) /\ (~cut => meta = data)
    BY <1>1, <1>3, SaverFacts DEF Saves
  <1>5. s = [pc |-> "entries", rows |-> x.rows, hash |-> x.hash, todo |-> x.todo]
    BY <1>2, <1>4 DEF SaverShape
  <1>6. x.todo \in Seq(Entry) /\ << >> \o x.todo = x.todo
    <2>1. x.todo \in Seq(Entry)
      BY <1>4, ListingFacts
    <2>2. QED
      BY <2>1, ConcatEmptySeq
  <1>7. index' = [head |-> << Len(data), Len(data) >>, body |-> << >>]
    BY <1>3, <1>4 DEF Empty
  <1>8. /\ index'.head = << Len(data), Len(data) >> /\ index'.body = << >>
        /\ index' = [head |-> index'.head, body |-> index'.body]
    BY <1>7
  <1>9. index'.body \o x.todo \in Listing(data) /\ index'.body \in Seq(Entry)
    <2>1. << >> \in Seq(Entry)
      OBVIOUS
    <2>2. QED
      BY <1>4, <1>6, <1>8, <2>1
  <1>10. IndexOf(index', data)
    BY <1>4, <1>6, <1>8, <1>9, BeginningIsIndex
  <1>11. Saves(s)'
    BY <1>3, <1>4, <1>5, <1>6, <1>8, <1>9 DEF Saves, SaverShape
  <1>12. Saving' /\ saver'[p] = s
    BY <1>3, <1>11, OnlyOneSaves DEF IInv
  <1>13. Files'
    BY <1>3, <1>4, <1>8, <1>9, <1>10 DEF IInv, Files
  <1>14. Filed'
    BY <1>3, <1>4, <1>10 DEF Filed
  <1>15. Searching'
    <2>1. Settled => Settled'
      BY <1>3, <1>10 DEF Settled
    <2>2. QED
      BY <1>3, <2>1, SearchesGoOn DEF IInv
  <1>16. QED
    BY <1>12, <1>13, <1>14, <1>15 DEF IInv

LEMMA WriteEntryStep ==
    ASSUME OneSaver, IInv, NEW p \in Savers, WriteEntry(p)
    PROVE  IInv'
  <1>1. PICK x : x = saver[p]
    OBVIOUS
  <1>2. PICK s : s = [x EXCEPT !.todo = Tail(@)]
    OBVIOUS
  <1>3. /\ x.pc = "entries" /\ x.todo # << >> /\ UNCHANGED << data, meta, search, cut >> /\ SaverTo(p, s)
        /\ index' = [index EXCEPT !.body = Append(@, Head(x.todo))]
    BY <1>1, <1>2 DEF WriteEntry
  <1>4. /\ Saves(x) /\ SaverShape(x) /\ data \in Versions /\ data \in Seq(Line) /\ x.rows = data
        /\ x.hash = data /\ index.head = << Len(data), Len(data) >> /\ x.todo \in Seq(Entry)
        /\ index.body \o x.todo \in Listing(data) /\ (~cut => meta = data)
    BY <1>1, <1>3, SaverFacts DEF Saves
  <1>5. s = [pc |-> "entries", rows |-> x.rows, hash |-> x.hash, todo |-> Tail(x.todo)]
    BY <1>2, <1>3, <1>4 DEF SaverShape
  <1>6. index = [head |-> index.head, body |-> index.body] /\ index.body \in Seq(Entry)
    BY DEF IInv, Files
  <1>7. /\ Append(index.body, Head(x.todo)) \in Seq(Entry) /\ Tail(x.todo) \in Seq(Entry)
        /\ Append(index.body, Head(x.todo)) \o Tail(x.todo) = index.body \o x.todo
    BY <1>3, <1>4, <1>6, MoveOne
  <1>8. index' = [head |-> index.head, body |-> Append(index.body, Head(x.todo))]
    BY <1>3, <1>6
  <1>9. /\ index'.head = << Len(data), Len(data) >> /\ index' = [head |-> index'.head, body |-> index'.body]
        /\ index'.body = Append(index.body, Head(x.todo))
    BY <1>4, <1>8
  <1>10. index'.body \in Seq(Entry) /\ index'.body \o Tail(x.todo) \in Listing(data)
    BY <1>4, <1>7, <1>9
  <1>11. IndexOf(index', data)
    BY <1>4, <1>7, <1>9, <1>10, BeginningIsIndex
  <1>12. Saves(s)'
    BY <1>3, <1>4, <1>5, <1>7, <1>9, <1>10 DEF Saves, SaverShape
  <1>13. Saving' /\ saver'[p] = s
    BY <1>3, <1>12, OnlyOneSaves DEF IInv
  <1>14. Files'
    BY <1>3, <1>4, <1>9, <1>10, <1>11 DEF IInv, Files
  <1>15. Filed'
    BY <1>3, <1>4, <1>11 DEF Filed
  <1>16. Searching'
    <2>1. Settled => Settled'
      BY <1>3, <1>11 DEF Settled
    <2>2. QED
      BY <1>3, <2>1, SearchesGoOn DEF IInv
  <1>17. QED
    BY <1>13, <1>14, <1>15, <1>16 DEF IInv

(* A save that ends, in one way or the other.                                *)
LEMMA EndStep ==
    ASSUME OneSaver, IInv, NEW p \in Savers, CloseIndex(p) \/ BreakOff(p)
    PROVE  IInv'
  <1>1. /\ UNCHANGED << data, meta, index, search >> /\ SaverTo(p, NotSaving)
        /\ cut' = cut \/ cut' = TRUE
        /\ cut' \/ ~(saver[p].pc = "open" /\ meta = saver[p].hash)
        /\ cut => cut'
    <2>1. cut \in BOOLEAN
      BY DEF IInv, Files
    <2>2. CASE CloseIndex(p)
      BY <2>1, <2>2 DEF CloseIndex
    <2>3. CASE BreakOff(p)
      BY <2>1, <2>3 DEF BreakOff
    <2>4. QED
      BY <2>2, <2>3
  <1>2. Saves(NotSaving)'
    BY DEF Saves, SaverShape, NotSaving
  <1>3. Saving' /\ saver'[p] = NotSaving
    BY <1>1, <1>2, OnlyOneSaves DEF IInv
  <1>4. Files'
    BY <1>1 DEF IInv, Files
  <1>5. Filed'
    <2>1. \A q \in Savers : q = p
      BY DEF OneSaver
    <2>2. cut' \/ index = Empty \/ (meta \in Versions /\ IndexOf(index, meta))
      BY <1>1, <2>1 DEF IInv, Filed
    <2>3. QED
      BY <1>1, <2>2 DEF Filed
  <1>6. Searching'
    <2>1. Settled => Settled'
      BY <1>1 DEF Settled
    <2>2. QED
      BY <1>1, <2>1, SearchesGoOn DEF IInv
  <1>7. QED
    BY <1>3, <1>4, <1>5, <1>6 DEF IInv

-----------------------------------------------------------------------------
(* The steps of a search                                                     *)

(* A search changes nothing but itself.                                      *)
LEMMA OnlySearchMoves ==
    ASSUME IInv, UNCHANGED << data, meta, index, saver, cut >>, NEW r \in Searchers, NEW s,
           SearchTo(r, s), Searches(s)
    PROVE  IInv'
  <1>1. Files'
    BY DEF IInv, Files
  <1>2. Saving'
    <2>1. \A p \in Savers : Saves(saver[p])
      BY DEF IInv, Saving
    <2>2. \A p \in Savers : Saves(saver[p])'
      BY <2>1 DEF Saves, SaverShape
    <2>3. QED
      BY <2>2 DEF IInv, Saving
  <1>3. Filed'
    BY DEF IInv, Filed
  <1>4. Searching'
    <2>1. search' = [search EXCEPT ![r] = s] /\ search = [q \in Searchers |-> search[q]]
      BY DEF SearchTo, IInv, Searching
    <2>2. search' = [q \in Searchers |-> search'[q]]
      BY <2>1
    <2>3. ASSUME NEW q \in Searchers
          PROVE  Searches(search[q])'
      <3>1. search'[q] = s \/ search'[q] = search[q]
        BY <2>1
      <3>2. PICK x : x = search'[q]
        OBVIOUS
      <3>3. Searches(x)
        BY <3>1, <3>2 DEF IInv, Searching
      <3>4. Settled' = Settled
        BY DEF Settled
      <3>5. Sees(x) => Sees(x)'
        BY <3>4 DEF Sees
      <3>6. Searches(x)'
        BY <3>3, <3>5 DEF Searches, SearchShape
      <3>7. QED
        BY <3>2, <3>6 DEF Searches, SearchShape, Sees
    <2>4. QED
      BY <2>2, <2>3 DEF Searching
  <1>5. QED
    BY <1>1, <1>2, <1>3, <1>4 DEF IInv

LEMMA GivenUp == Searches(NotSearching)
  <1>1. << >> \in Seq(Entry) /\ Len(<< >>) = 0 /\ 0 <= 2 * Longest
    BY LongestFacts
  <1>2. QED
    BY <1>1 DEF Searches, Sees, SearchShape, NotSearching

LEMMA GiveUpStep ==
    ASSUME IInv, UNCHANGED << data, meta, index, saver, cut >>, NEW r \in Searchers, GiveUp(r)
    PROVE  IInv'
  BY OnlySearchMoves, GivenUp DEF GiveUp

LEMMA BeginSearchStep ==
    ASSUME IInv, NEW r \in Searchers, NEW q \in Queries, BeginSearch(r, q)
    PROVE  IInv'
  <1>1. PICK x : x = NotSearching
    OBVIOUS
  <1>2. PICK s : s = [x EXCEPT !.pc = "hash", !.query = q]
    OBVIOUS
  <1>3. /\ UNCHANGED << data, meta, index, saver, cut >> /\ SearchTo(r, s) /\ data # << >>
    BY <1>1, <1>2 DEF BeginSearch
  <1>4. Searches(x) /\ SearchShape(x) /\ x.got = << >>
    BY <1>1, GivenUp DEF Searches, NotSearching
  <1>5. s = [pc |-> "hash", query |-> q, hash |-> x.hash, head |-> x.head, got |-> x.got,
             at |-> x.at, found |-> x.found, exposed |-> x.exposed]
    BY <1>2, <1>4 DEF SearchShape
  <1>6. Searches(s)
    BY <1>3, <1>4, <1>5 DEF Searches, SearchShape, Sees
  <1>7. QED
    BY <1>3, <1>6, OnlySearchMoves

LEMMA ReadHashStep ==
    ASSUME IInv, NEW r \in Searchers, ReadHash(r)
    PROVE  IInv'
  <1>1. PICK x : x = search[r]
    OBVIOUS
  <1>2. PICK s : s = [x EXCEPT !.pc = "meta", !.hash = data]
    OBVIOUS
  <1>3. x.pc = "hash" /\ UNCHANGED << data, meta, index, saver, cut >> /\ SearchTo(r, s)
    BY <1>1, <1>2 DEF ReadHash
  <1>4. Searches(x) /\ SearchShape(x)
    BY <1>1 DEF IInv, Searching, Searches
  <1>5. s = [pc |-> "meta", query |-> x.query, hash |-> data, head |-> x.head, got |-> x.got,
             at |-> x.at, found |-> x.found, exposed |-> x.exposed]
    BY <1>2, <1>4 DEF SearchShape
  <1>6. Searches(s)
    BY <1>3, <1>4, <1>5 DEF Searches, SearchShape, Sees
  <1>7. QED
    BY <1>3, <1>6, OnlySearchMoves

(* The meta file names the data, and the index belongs to the meta file.     *)
LEMMA CheckMetaStep ==
    ASSUME IInv, NEW r \in Searchers, CheckMeta(r)
    PROVE  IInv'
  <1>1. PICK x : x = search[r]
    OBVIOUS
  <1>2. x.pc = "meta" /\ UNCHANGED << data, meta, index, saver, cut >>
    BY <1>1 DEF CheckMeta
  <1>3. Searches(x) /\ SearchShape(x)
    BY <1>1 DEF IInv, Searching, Searches
  <1>4. CASE meta = x.hash
    <2>1. PICK e \in BOOLEAN : e = (x.exposed \/ AheadOfIndex)
      OBVIOUS
    <2>2. PICK s : s = [x EXCEPT !.pc = "head", !.hash = << >>, !.exposed = e]
      OBVIOUS
    <2>3. SearchTo(r, [x EXCEPT !.pc = "head", !.hash = << >>, !.exposed = @ \/ AheadOfIndex])
      BY <1>1, <1>4 DEF CheckMeta
    <2>4. [x EXCEPT !.pc = "head", !.hash = << >>, !.exposed = @ \/ AheadOfIndex] = s
      BY <2>1, <2>2
    <2>5. s = [pc |-> "head", query |-> x.query, hash |-> << >>, head |-> x.head, got |-> x.got,
               at |-> x.at, found |-> x.found, exposed |-> e]
      BY <1>3, <2>2 DEF SearchShape
    <2>6. ~e => Settled /\ data # << >>
      <3> SUFFICES ASSUME ~e PROVE Settled /\ data # << >>
        OBVIOUS
      <3>1. ~x.exposed /\ ~AheadOfIndex
        BY <2>1
      <3>2. x.hash = data /\ data # << >>
        BY <1>2, <1>3, <3>1 DEF Searches, Sees
      <3>3. data \in Versions /\ meta = data
        BY <1>4, <3>2 DEF IInv, Files
      <3>4. index = Empty \/ IndexOf(index, meta)
        BY <3>1 DEF IInv, Filed, AheadOfIndex
      <3>5. QED
        BY <3>2, <3>3, <3>4 DEF Settled
    <2>7. Searches(s)
      BY <1>2, <1>3, <2>5, <2>6 DEF Searches, SearchShape, Sees
    <2>8. QED
      BY <1>2, <2>3, <2>4, <2>7, OnlySearchMoves
  <1>5. CASE meta # x.hash
    BY <1>1, <1>2, <1>5, GiveUpStep DEF CheckMeta
  <1>6. QED
    BY <1>4, <1>5

LEMMA ReadHeadStep ==
    ASSUME IInv, NEW r \in Searchers, ReadHead(r)
    PROVE  IInv'
  <1>1. PICK x : x = search[r]
    OBVIOUS
  <1>2. x.pc = "head" /\ UNCHANGED << data, meta, index, saver, cut >>
    BY <1>1 DEF ReadHead
  <1>3. Searches(x) /\ SearchShape(x) /\ x.got = << >>
    BY <1>1, <1>2 DEF IInv, Searching, Searches
  <1>4. CASE index.head # None
    <2>1. PICK s : s = [x EXCEPT !.pc = "entries", !.head = index.head]
      OBVIOUS
    <2>2. SearchTo(r, s)
      BY <1>1, <1>4, <2>1 DEF ReadHead
    <2>3. s = [pc |-> "entries", query |-> x.query, hash |-> x.hash, head |-> index.head, got |-> x.got,
               at |-> x.at, found |-> x.found, exposed |-> x.exposed]
      BY <1>3, <2>1 DEF SearchShape
    <2>4. Settled => index.head = << Len(data), Len(data) >>
      <3>1. index # Empty
        BY <1>4 DEF Empty
      <3>2. QED
        BY <1>4, <3>1 DEF Settled, IndexOf
    <2>5. Reads(x.got, data)
      BY <1>3 DEF Reads
    <2>6. ~x.exposed => Sees(s)
      BY <1>2, <1>3, <2>3, <2>4, <2>5 DEF Searches, Sees
    <2>7. Searches(s)
      BY <1>2, <1>3, <2>3, <2>6 DEF Searches, SearchShape
    <2>8. QED
      BY <1>2, <2>2, <2>7, OnlySearchMoves
  <1>5. CASE index.head = None
    BY <1>1, <1>2, <1>5, GiveUpStep DEF ReadHead
  <1>6. QED
    BY <1>4, <1>5

(* One entry more, of whatever listing of the data is in the index by now.   *)
LEMMA ReadEntryStep ==
    ASSUME IInv, NEW r \in Searchers, ReadEntry(r)
    PROVE  IInv'
  <1>1. PICK x : x = search[r]
    OBVIOUS
  <1>2. PICK n : n = Len(x.got) + 1
    OBVIOUS
  <1>3. /\ x.pc = "entries" /\ UNCHANGED << data, meta, index, saver, cut >>
    BY <1>1 DEF ReadEntry
  <1>4. Searches(x) /\ SearchShape(x) /\ x.got \in Seq(Entry)
    BY <1>1 DEF IInv, Searching, Searches
  <1>5. CASE n \in DOMAIN index.body
    <2>1. PICK got : got = Append(x.got, index.body[n])
      OBVIOUS
    <2>2. PICK s : s = [x EXCEPT !.got = got]
      OBVIOUS
    <2>3. SearchTo(r, [x EXCEPT !.got = Append(@, index.body[n])])
      BY <1>1, <1>2, <1>5 DEF ReadEntry
    <2>4. s = [pc |-> x.pc, query |-> x.query, hash |-> x.hash, head |-> x.head, got |-> got,
               at |-> x.at, found |-> x.found, exposed |-> x.exposed]
      BY <1>4, <2>2 DEF SearchShape
    <2>5. [x EXCEPT !.got = Append(@, index.body[n])] = s
      BY <1>4, <2>1, <2>2 DEF SearchShape
    <2>6. /\ index.body \in Seq(Entry) /\ DOMAIN index.body = 1 .. Len(index.body)
          /\ Len(index.body) \in Nat /\ index.body[n] \in Entry
      <3>1. index.body \in Seq(Entry)
        BY DEF IInv, Files
      <3>2. QED
        BY <1>5, <3>1
    <2>7. /\ got \in Seq(Entry) /\ Len(got) = n /\ Len(x.got) \in Nat
          /\ \A i \in 1 .. Len(x.got) : got[i] = x.got[i]
          /\ got[n] = index.body[n]
      BY <1>2, <1>4, <2>1, <2>6, AppendProperties
    <2>8. Len(got) <= 2 * Longest
      <3>1. Len(index.body) <= 2 * Longest /\ Longest \in Nat
        BY IndexBounded, LongestFacts DEF IInv
      <3>2. QED
        BY <1>5, <2>6, <2>7, <3>1
    <2>9. Settled /\ Reads(x.got, data) => Reads(got, data)
      <3> SUFFICES ASSUME Settled, Reads(x.got, data) PROVE Reads(got, data)
        OBVIOUS
      <3>1. Reads(index.body, data)
        <4>1. index # Empty
          BY <1>5 DEF Empty
        <4>2. QED
          BY <2>6, <4>1, VersionsAreLines, IndexFacts DEF Settled
      <3>2. DOMAIN got = 1 .. n /\ DOMAIN x.got = 1 .. Len(x.got)
        BY <1>4, <2>7
      <3>3. \A i \in 1 .. n : i = n \/ i \in 1 .. Len(x.got)
        BY <1>2, <2>7
      <3>4. QED
        BY <1>5, <2>7, <3>1, <3>2, <3>3 DEF Reads
    <2>10. ~x.exposed => Sees(s)
      BY <1>3, <1>4, <2>4, <2>9 DEF Searches, Sees
    <2>11. Searches(s)
      BY <1>3, <1>4, <2>4, <2>7, <2>8, <2>10 DEF Searches, SearchShape
    <2>12. QED
      BY <1>3, <2>3, <2>5, <2>11, OnlySearchMoves
  <1>6. CASE n \notin DOMAIN index.body
    BY <1>1, <1>2, <1>3, <1>6, GiveUpStep DEF ReadEntry
  <1>7. QED
    BY <1>5, <1>6

LEMMA LookupStep ==
    ASSUME IInv, NEW r \in Searchers, Lookup(r)
    PROVE  IInv'
  <1>1. PICK x : x = search[r]
    OBVIOUS
  <1>2. /\ x.pc = "entries" /\ UNCHANGED << data, meta, index, saver, cut >>
        /\ Len(x.got) >= Needed(x.head)
    BY <1>1 DEF Lookup
  <1>3. Searches(x) /\ SearchShape(x) /\ x.got \in Seq(Entry) /\ x.query \in Queries
    BY <1>1, <1>2 DEF IInv, Searching, Searches
  <1>4. CASE FoundIn(x.head, x.got, x.query) # {}
    <2>1. PICK off \in FoundIn(x.head, x.got, x.query) :
            SearchTo(r, [x EXCEPT !.pc = "slice", !.at = off, !.head = None, !.got = << >>])
      BY <1>1, <1>4 DEF Lookup
    <2>2. PICK s : s = [x EXCEPT !.pc = "slice", !.at = off, !.head = None, !.got = << >>]
      OBVIOUS
    <2>3. s = [pc |-> "slice", query |-> x.query, hash |-> x.hash, head |-> None, got |-> << >>,
               at |-> off, found |-> x.found, exposed |-> x.exposed]
      BY <1>3, <2>2 DEF SearchShape
    <2>4. ASSUME ~x.exposed
          PROVE  Sees(s)
      <3>1. Settled /\ x.head = << Len(data), Len(data) >> /\ Reads(x.got, data) /\ data # << >>
        BY <1>2, <1>3, <2>4 DEF Searches, Sees
      <3>2. data \in Seq(Line)
        BY <3>1, VersionsAreLines DEF Settled
      <3>3. Len(x.got) >= 2 * Len(data)
        <4>1. Len(x.got) >= Len(data) + Len(data)
          BY <1>2, <3>1 DEF Needed
        <4>2. Len(data) \in Nat
          BY <3>2
        <4>3. QED
          BY <4>1, <4>2
      <3>4. \E j \in DOMAIN data : off = Offsets(data)[j] /\ data[j] \in Hits(data, x.query)
        BY <1>3, <2>1, <3>1, <3>2, <3>3, LookupLeads
      <3>5. QED
        BY <2>3, <3>1, <3>4 DEF Sees
    <2>5. << >> \in Seq(Entry) /\ Len(<< >>) <= 2 * Longest
      BY LongestFacts
    <2>6. Searches(s)
      BY <1>3, <2>3, <2>4, <2>5 DEF Searches, SearchShape
    <2>7. QED
      BY <1>2, <2>1, <2>2, <2>6, OnlySearchMoves
  <1>5. CASE FoundIn(x.head, x.got, x.query) = {}
    BY <1>1, <1>2, <1>5, GiveUpStep DEF Lookup
  <1>6. QED
    BY <1>4, <1>5

LEMMA SliceStep ==
    ASSUME IInv, NEW r \in Searchers, Slice(r)
    PROVE  IInv'
  <1>1. PICK x : x = search[r]
    OBVIOUS
  <1>2. x.pc = "slice" /\ UNCHANGED << data, meta, index, saver, cut >>
    BY <1>1 DEF Slice
  <1>3. Searches(x) /\ SearchShape(x) /\ x.query \in Queries
    BY <1>1, <1>2 DEF IInv, Searching, Searches
  <1>4. CASE LinesAt(data, x.at) # {}
    <2>1. PICK c \in LinesAt(data, x.at) :
            SearchTo(r, [x EXCEPT !.pc = "answer", !.at = None, !.found = c])
      BY <1>1, <1>4 DEF Slice
    <2>2. PICK s : s = [x EXCEPT !.pc = "answer", !.at = None, !.found = c]
      OBVIOUS
    <2>3. s = [pc |-> "answer", query |-> x.query, hash |-> x.hash, head |-> x.head, got |-> x.got,
               at |-> None, found |-> c, exposed |-> x.exposed]
      BY <1>3, <2>2 DEF SearchShape
    <2>4. ASSUME ~x.exposed
          PROVE  Sees(s)
      <3>1. Settled /\ data # << >>
        BY <1>2, <1>3, <2>4 DEF Searches, Sees
      <3>2. PICK j \in DOMAIN data : x.at = Offsets(data)[j] /\ data[j] \in Hits(data, x.query)
        BY <1>2, <1>3, <2>4 DEF Searches, Sees
      <3>3. LinesAt(data, x.at) = {data[j]}
        BY <3>1, <3>2, VersionsAreLines, LinesAtOffset DEF Settled
      <3>4. c \in Hits(data, x.query)
        BY <2>1, <3>2, <3>3
      <3>5. QED
        BY <2>3, <3>1, <3>4 DEF Sees
    <2>5. Searches(s)
      BY <1>2, <1>3, <2>3, <2>4 DEF Searches, SearchShape
    <2>6. QED
      BY <1>2, <2>1, <2>2, <2>5, OnlySearchMoves
  <1>5. CASE LinesAt(data, x.at) = {}
    BY <1>1, <1>2, <1>5, GiveUpStep DEF Slice
  <1>6. QED
    BY <1>4, <1>5

LEMMA SaveStep ==
    ASSUME OneSaver, IInv, NEW p \in Savers, Save(p)
    PROVE  IInv'
  BY WriteDataStep, HashDataStep, WriteMetaStep, OpenIndexStep, WriteHeadStep, WriteEntryStep, EndStep
     DEF Save

LEMMA SearchStep ==
    ASSUME IInv, NEW r \in Searchers, Search(r)
    PROVE  IInv'
  <1>1. CASE Answer(r)
    BY <1>1, OnlySearchMoves, GivenUp DEF Answer
  <1>2. CASE ~Answer(r)
    BY <1>2, BeginSearchStep, ReadHashStep, CheckMetaStep, ReadHeadStep, ReadEntryStep, LookupStep,
       SliceStep DEF Search
  <1>3. QED
    BY <1>1, <1>2

LEMMA StepHolds == OneSaver /\ IInv /\ [Next]_vars => IInv'
  <1> SUFFICES ASSUME OneSaver, IInv, [Next]_vars PROVE IInv'
    OBVIOUS
  <1>1. CASE Next
    BY <1>1, SaveStep, SearchStep DEF Next
  <1>2. CASE UNCHANGED vars
    <2>1. UNCHANGED << data, meta, index, saver, search, cut >>
      BY <1>2 DEF vars
    <2>2. Saving'
      <3>1. \A p \in Savers : Saves(saver[p])
        BY DEF IInv, Saving
      <3>2. \A p \in Savers : Saves(saver[p])'
        BY <2>1, <3>1 DEF Saves, SaverShape
      <3>3. QED
        BY <2>1, <3>2 DEF IInv, Saving
    <2>3. Searching'
      <3>1. Settled => Settled'
        BY <2>1 DEF Settled
      <3>2. QED
        BY <2>1, <3>1, SearchesGoOn DEF IInv
    <2>4. QED
      BY <2>1, <2>2, <2>3 DEF IInv, Files, Filed
  <1>3. QED
    BY <1>1, <1>2

-----------------------------------------------------------------------------
(* What every save and every search can rely on                              *)

LEMMA Invariant == ASSUME OneSaver PROVE Spec => []IInv
  BY InitHolds, StepHolds, PTL DEF Spec

(* The files, the saving process and the searches hold what the code can put *)
(* there: an index never outgrows the longest version of the book, though it *)
(* is rewritten in place, and no search reads more.                          *)
THEOREM SearchTypes == ASSUME OneSaver PROVE Spec => []TypeOK
  <1>1. IInv => TypeOK
    <2> SUFFICES ASSUME IInv PROVE TypeOK
      OBVIOUS
    <2>1. /\ data \in Versions \cup {<< >>} /\ meta \in Versions \cup {None} /\ cut \in BOOLEAN
      BY DEF IInv, Files
    <2>2. index.head \in {None} \cup ((0 .. Longest) \X (0 .. Longest))
      <3>1. CASE index = Empty
        BY <3>1 DEF Empty
      <3>2. CASE \E d \in Versions : IndexOf(index, d)
        <4>1. PICK d \in Versions : IndexOf(index, d)
          BY <3>2
        <4>2. Len(d) \in 0 .. Longest
          BY LongestFacts, VersionsAreLines
        <4>3. QED
          BY <4>1, <4>2 DEF IndexOf
      <3>3. QED
        BY <3>1, <3>2 DEF IInv, Files
    <2>3. Len(index.body) <= 2 * Longest
      BY IndexBounded DEF IInv
    <2>4. ASSUME NEW p \in Savers
          PROVE  /\ saver[p].pc \in {"idle", "hash", "meta", "open", "head", "entries"}
                 /\ saver[p].rows \in Versions \cup {<< >>} /\ saver[p].hash \in Versions \cup {<< >>}
      <3>1. Saves(saver[p])
        BY DEF IInv, Saving
      <3>2. CASE saver[p].pc = "idle"
        <4>1. saver[p].rows = << >> /\ saver[p].hash = << >>
          BY <3>1, <3>2 DEF Saves, NotSaving
        <4>2. QED
          BY <3>1, <4>1 DEF Saves
      <3>3. CASE saver[p].pc # "idle"
        BY <3>1, <3>3 DEF Saves
      <3>4. QED
        BY <3>2, <3>3
    <2>5. ASSUME NEW r \in Searchers
          PROVE  /\ search[r].pc \in {"idle", "hash", "meta", "head", "entries", "slice", "answer"}
                 /\ search[r].query \in Queries \cup {None} /\ Len(search[r].got) <= 2 * Longest
                 /\ search[r].exposed \in BOOLEAN
      <3>1. Searches(search[r])
        BY DEF IInv, Searching
      <3>2. search[r].pc = "idle" => search[r].query = None
        BY <3>1 DEF Searches, NotSearching
      <3>3. QED
        BY <3>1, <3>2 DEF Searches
    <2>6. QED
      BY <2>1, <2>2, <2>3, <2>4, <2>5 DEF TypeOK
  <1>2. QED
    BY Invariant, <1>1, PTL

(* An index that loads leads to the lines with the key looked up and nowhere *)
(* else, in the data its meta file names, whatever the book held and         *)
(* wherever saves were broken off, unless a save broke off between the two   *)
(* files (DiskIndex::build, valid_for_data_hash, load and bsearch_key).      *)
THEOREM HonestIndex == ASSUME OneSaver PROVE Spec => []IndexHonest
  <1>1. IInv => IndexHonest
    <2> SUFFICES ASSUME IInv, ~AheadOfIndex, Loads PROVE Describes(meta)
      BY DEF IndexHonest
    <2>1. index # Empty
      BY DEF Loads, Empty
    <2>2. meta \in Versions /\ IndexOf(index, meta) /\ index.body \in Seq(Entry)
      BY <2>1 DEF IInv, Files, Filed, AheadOfIndex
    <2>3. QED
      BY <2>2, VersionsAreLines, IndexDescribes
  <1>2. QED
    BY Invariant, <1>1, PTL

(* However many searches run beside a save, and wherever it is, each answers *)
(* with a contact that is in the data and has the key, unless the data were  *)
(* replaced beside it or the meta file ran ahead (fast_search_one).          *)
THEOREM RightAnswers == ASSUME OneSaver PROVE Spec => []AnswerRight
  <1>1. IInv => AnswerRight
    <2> SUFFICES ASSUME IInv, NEW r \in Searchers, search[r].pc = "answer", ~search[r].exposed
                 PROVE  search[r].found \in Hits(data, search[r].query)
      BY DEF AnswerRight
    <2>1. Searches(search[r])
      BY DEF IInv, Searching
    <2>2. QED
      BY <2>1 DEF Searches, Sees
  <1>2. QED
    BY Invariant, <1>1, PTL

=============================================================================
