-------------------------- MODULE GatheringProofs --------------------------
(***************************************************************************)
(* Proofs about the two programs that put together what comes in pieces:   *)
(* Collector, to which the pages of a changing list come one by one, and   *)
(* TestSummary, to which the events of several packages come mixed.        *)
(*                                                                         *)
(* Collector, for any services, page size and number of changes: the       *)
(* types, the bound on the requests of one collection, and that a list     *)
(* which only grows at its end is collected completely. TestSummary, for   *)
(* any packages and finitely many names of tests: that "passed" means that *)
(* everything ended well, and that the counts are those of the run.        *)
(***************************************************************************)
EXTENDS Collector, TestSummary, SequenceTheorems, FiniteSetTheorems, TLAPS

\* What has been collected is how the list still begins, unless it was shifted.
CollectedIsPrefix ==
  pc \in {"paging", "done"} /\ ~shifted =>
    /\ Len(all) <= Len(list)
    /\ \A i \in 1 .. Len(all) : all[i] = list[i]

\* What was there at the beginning is in the list, within the total that was reported.
PresentWithinTotal ==
  pc \in {"paging", "done"} /\ ~shifted =>
    \A s \in present :
      \E i \in 1 .. Len(list) : list[i] = s /\ (total > 0 => i <= total)

\* A collection ends when it has everything that was there at its beginning.
DoneIsComplete == pc = "done" /\ ~shifted => \A s \in present : s \in Range(all)

\* The inductive invariant of the collection.
IInv == TypeOK /\ PagesBounded /\ CollectedIsPrefix /\ PresentWithinTotal /\ DoneIsComplete

-----------------------------------------------------------------------------
\* What is in a sequence is at one of its positions.
LEMMA InRange ==
  ASSUME NEW S, NEW q \in Seq(S)
  PROVE  /\ Len(q) \in Nat /\ DOMAIN q = 1 .. Len(q)
         /\ \A i \in 1 .. Len(q) : q[i] \in S /\ q[i] \in Range(q)
         /\ \A s \in Range(q) : \E i \in 1 .. Len(q) : q[i] = s
BY LenProperties DEF Range

\* ECSM's answer for a page: at most a full page, cut out of the list.
LEMMA PageProperties ==
  ASSUME TypeOK, NEW n \in Nat \ {0}
  PROVE  /\ Page(n) \in Seq(Services)
         /\ Len(Page(n)) \in 0 .. PageSize
         /\ \A i \in 1 .. Len(Page(n)) :
              /\ (n - 1) * PageSize + i \in 1 .. Len(list)
              /\ Page(n)[i] = list[(n - 1) * PageSize + i]
         /\ Len(Page(n)) < PageSize => Len(list) <= (n - 1) * PageSize + Len(Page(n))
<1> DEFINE before == (n - 1) * PageSize
           last == IF n * PageSize < Len(list) THEN n * PageSize ELSE Len(list)
<1>1. /\ PageSize \in Nat \ {0} /\ before \in Nat /\ n * PageSize = before + PageSize
      /\ Len(list) \in Nat
  BY CollectorAssumption, LenProperties DEF TypeOK
<1>2. Page(n) = SubSeq(list, before + 1, last)
  BY DEF Page
<1>3. last = IF before + PageSize < Len(list) THEN before + PageSize ELSE Len(list)
  BY <1>1
<1> HIDE DEF before, last
<1>4. \A i \in before + 1 .. last : i \in 1 .. Len(list) /\ list[i] \in Services
  BY <1>1, <1>3, InRange DEF TypeOK
<1>5. /\ Page(n) \in Seq(Services)
      /\ Len(Page(n)) = IF before + 1 <= last THEN last - (before + 1) + 1 ELSE 0
      /\ \A i \in 1 .. last - (before + 1) + 1 : Page(n)[i] = list[before + 1 + i - 1]
  <2>1. before + 1 \in Int /\ last \in Int
    BY <1>1, <1>3
  <2> QED
    BY <1>2, <1>4, <2>1, SubSeqProperties
<1>6. /\ Len(Page(n)) \in 0 .. PageSize
      /\ Len(Page(n)) < PageSize => Len(list) <= before + Len(Page(n))
  BY <1>1, <1>3, <1>5
<1>7. ASSUME NEW i \in 1 .. Len(Page(n))
      PROVE  before + i \in 1 .. Len(list) /\ Page(n)[i] = list[before + i]
  <2>1. i \in 1 .. last - (before + 1) + 1 /\ before + 1 + i - 1 = before + i
    BY <1>1, <1>3, <1>5
  <2> QED
    BY <1>1, <1>3, <1>5, <2>1
<1> QED
  BY <1>5, <1>6, <1>7 DEF before

\* A list without one of its entries.
LEMMA Shortened ==
  ASSUME TypeOK, NEW i \in DOMAIN list
  PROVE  RemoveAt(list, i) \in Seq(Services) /\ IsInjective(RemoveAt(list, i))
<1> DEFINE q == RemoveAt(list, i)
           a == SubSeq(list, 1, i - 1)
           b == SubSeq(list, i + 1, Len(list))
<1>1. /\ Len(list) \in Nat /\ i \in 1 .. Len(list) /\ DOMAIN list = 1 .. Len(list)
      /\ \A j \in 1 .. Len(list) : list[j] \in Services
  BY InRange DEF TypeOK
<1>2. /\ a \in Seq(Services) /\ Len(a) = i - 1
      /\ \A j \in 1 .. i - 1 : a[j] = list[j]
  <2>1. i - 1 \in Int /\ \A j \in 1 .. i - 1 : list[j] \in Services
    BY <1>1
  <2>2. /\ a \in Seq(Services) /\ Len(a) = IF 1 <= i - 1 THEN i - 1 - 1 + 1 ELSE 0
        /\ \A j \in 1 .. i - 1 - 1 + 1 : a[j] = list[1 + j - 1]
    BY <2>1, SubSeqProperties
  <2> QED
    BY <1>1, <2>2
<1>3. /\ b \in Seq(Services) /\ Len(b) = Len(list) - i
      /\ \A j \in 1 .. Len(list) - i : b[j] = list[i + j]
  <2>1. i + 1 \in Int /\ \A j \in i + 1 .. Len(list) : list[j] \in Services
    BY <1>1
  <2>2. /\ b \in Seq(Services)
        /\ Len(b) = IF i + 1 <= Len(list) THEN Len(list) - (i + 1) + 1 ELSE 0
        /\ \A j \in 1 .. Len(list) - (i + 1) + 1 : b[j] = list[i + 1 + j - 1]
    BY <1>1, <2>1, SubSeqProperties
  <2> QED
    BY <1>1, <2>2
<1>4. q = a \o b
  BY DEF RemoveAt
<1> HIDE DEF q, a, b
<1>5. /\ q \in Seq(Services) /\ Len(q) = Len(list) - 1
      /\ \A j \in 1 .. Len(q) : q[j] = IF j < i THEN list[j] ELSE list[j + 1]
  <2>1. /\ q \in Seq(Services) /\ Len(q) = Len(a) + Len(b)
        /\ \A j \in 1 .. Len(a) + Len(b) : q[j] = IF j <= Len(a) THEN a[j] ELSE b[j - Len(a)]
    BY <1>2, <1>3, <1>4, ConcatProperties
  <2>2. Len(q) = Len(list) - 1
    BY <1>1, <1>2, <1>3, <2>1
  <2>3. ASSUME NEW j \in 1 .. Len(q)
        PROVE  q[j] = IF j < i THEN list[j] ELSE list[j + 1]
    <3>1. q[j] = IF j <= i - 1 THEN a[j] ELSE b[j - (i - 1)]
      BY <1>1, <1>2, <1>3, <2>1, <2>2
    <3>2. CASE j < i
      BY <1>1, <1>2, <3>1, <3>2
    <3>3. CASE ~(j < i)
      <4>1. j - (i - 1) \in 1 .. Len(list) - i /\ i + (j - (i - 1)) = j + 1
        BY <1>1, <2>2, <3>3
      <4> QED
        BY <1>1, <1>3, <3>1, <3>3, <4>1
    <3> QED
      BY <3>2, <3>3
  <2> QED
    BY <2>1, <2>2, <2>3
<1>6. IsInjective(q)
  <2>1. DOMAIN q = 1 .. Len(q)
    BY <1>5, LenProperties
  <2>2. \A j, k \in 1 .. Len(list) : list[j] = list[k] => j = k
    BY <1>1 DEF TypeOK, IsInjective
  <2>3. ASSUME NEW j \in 1 .. Len(q), NEW k \in 1 .. Len(q), q[j] = q[k]
        PROVE  j = k
    BY <1>1, <1>5, <2>2, <2>3
  <2> QED
    BY <2>1, <2>3 DEF IsInjective
<1> QED
  BY <1>5, <1>6 DEF q

\* A list with a new entry before all others.
LEMMA Prefixed ==
  ASSUME TypeOK, NEW s \in Services, s \notin Range(list)
  PROVE  <<s>> \o list \in Seq(Services) /\ IsInjective(<<s>> \o list)
<1> DEFINE q == <<s>> \o list
<1>1. /\ Len(list) \in Nat /\ DOMAIN list = 1 .. Len(list)
      /\ \A j \in 1 .. Len(list) : list[j] # s
      /\ \A j, k \in 1 .. Len(list) : list[j] = list[k] => j = k
  BY InRange DEF TypeOK, IsInjective
<1>2. <<s>> \in Seq(Services) /\ Len(<<s>>) = 1 /\ <<s>>[1] = s
  OBVIOUS
<1>3. /\ q \in Seq(Services) /\ Len(q) = 1 + Len(list)
      /\ \A j \in 1 .. 1 + Len(list) : q[j] = IF j <= 1 THEN <<s>>[j] ELSE list[j - 1]
  BY <1>2, ConcatProperties DEF TypeOK
<1> HIDE DEF q
<1>4. IsInjective(q)
  <2>1. DOMAIN q = 1 .. Len(q)
    BY <1>3, LenProperties
  <2>2. ASSUME NEW j \in 1 .. Len(q), NEW k \in 1 .. Len(q), q[j] = q[k]
        PROVE  j = k
    BY <1>1, <1>2, <1>3, <2>2
  <2> QED
    BY <2>1, <2>2 DEF IsInjective
<1> QED
  BY <1>3, <1>4 DEF q

-----------------------------------------------------------------------------
\* No collection has begun; ECSM may list anything, each service once.
LEMMA InitInv == Init => IInv
<1> SUFFICES ASSUME Init PROVE IInv
  OBVIOUS
<1>1. PICK n \in 0 .. Cardinality(Services) : list \in [1 .. n -> Services] /\ IsInjective(list)
  BY DEF Init, Lists
<1>2. n \in Nat
  BY CollectorAssumption, FS_CardinalityType
<1>3. list \in Seq(Services) /\ <<>> \in Seq(Services)
  BY <1>1, <1>2, EmptySeq
<1>4. TypeOK
  <2>1. list \in Seq(Services) /\ IsInjective(list)
    BY <1>1, <1>3
  <2>2. pageNum \in Nat \ {0} /\ total \in Nat /\ changes \in Nat
    BY CollectorAssumption DEF Init
  <2>3. all \in Seq(Services) /\ present \subseteq Services /\ shifted \in BOOLEAN
    BY <1>3 DEF Init
  <2> QED
    BY <2>1, <2>2, <2>3 DEF Init, TypeOK
<1>5. PagesBounded /\ CollectedIsPrefix /\ PresentWithinTotal /\ DoneIsComplete
  BY DEF Init, PagesBounded, CollectedIsPrefix, PresentWithinTotal, DoneIsComplete
<1> QED
  BY <1>4, <1>5 DEF IInv

\* A collection begins with nothing, and everything in the list is there.
LEMMA BeginInv ==
  ASSUME IInv, Begin
  PROVE  IInv'
<1> USE DEF IInv, Begin
<1>1. Range(list) \subseteq Services /\ <<>> \in Seq(Services) /\ Len(<<>>) = 0
  BY InRange, EmptySeq DEF TypeOK
<1>2. TypeOK'
  <2>1. list' \in Seq(Services) /\ IsInjective(list')
    BY DEF TypeOK
  <2>2. all' \in Seq(Services) /\ present' \subseteq Services /\ shifted' \in BOOLEAN
    BY <1>1
  <2>3. pageNum' \in Nat \ {0} /\ total' \in Nat /\ changes' \in Nat
    BY DEF TypeOK
  <2> QED
    BY <2>1, <2>2, <2>3 DEF TypeOK
<1>3. PagesBounded'
  BY <1>1, CollectorAssumption DEF PagesBounded
<1>4. CollectedIsPrefix' /\ PresentWithinTotal' /\ DoneIsComplete'
  <2>1. /\ Len(list) \in Nat
        /\ \A s \in Range(list) : \E i \in 1 .. Len(list) : list[i] = s
    BY InRange DEF TypeOK
  <2> QED
    BY <1>1, <2>1 DEF CollectedIsPrefix, PresentWithinTotal, DoneIsComplete
<1> QED
  BY <1>2, <1>3, <1>4

\* A page continues what was collected; the last one completes it.
LEMMA ReadPageInv ==
  ASSUME IInv, NEW t \in {0, Len(list)}, ReadPage(t)
  PROVE  IInv'
<1> USE DEF IInv
<1> DEFINE page == Page(pageNum)
<1>1. /\ pc = "paging" /\ UNCHANGED <<list, present, shifted, changes>>
      /\ all' = all \o page
      /\ total' = IF total = 0 /\ t > 0 THEN t ELSE total
      /\ pageNum \in Nat \ {0} /\ total \in Nat /\ t \in Nat
  BY InRange DEF ReadPage, TypeOK
<1>2. /\ page \in Seq(Services) /\ Len(page) \in 0 .. PageSize
      /\ \A i \in 1 .. Len(page) :
           /\ (pageNum - 1) * PageSize + i \in 1 .. Len(list)
           /\ page[i] = list[(pageNum - 1) * PageSize + i]
      /\ Len(page) < PageSize => Len(list) <= (pageNum - 1) * PageSize + Len(page)
  BY <1>1, PageProperties
<1>3. Len(all) = (pageNum - 1) * PageSize /\ Len(all) \in Nat /\ Len(list) \in Nat
  BY <1>1, InRange DEF PagesBounded, TypeOK
<1>4. /\ \/ /\ pc' = "done" /\ pageNum' = pageNum
            /\ Len(page) < PageSize \/ (total' > 0 /\ Len(all') >= total')
         \/ /\ pc' = "paging" /\ pageNum' = pageNum + 1
            /\ ~(Len(page) < PageSize) /\ ~(total' > 0 /\ Len(all') >= total')
  BY <1>1 DEF ReadPage, Enough
<1> HIDE DEF page
<1>5. /\ all' \in Seq(Services) /\ Len(all') = Len(all) + Len(page)
      /\ \A i \in 1 .. Len(all') :
           all'[i] = IF i <= Len(all) THEN all[i] ELSE list[i]
  <2>1. /\ all' \in Seq(Services) /\ Len(all') = Len(all) + Len(page)
        /\ \A i \in 1 .. Len(all) + Len(page) :
             all'[i] = IF i <= Len(all) THEN all[i] ELSE page[i - Len(all)]
    BY <1>1, <1>2, ConcatProperties DEF TypeOK
  <2>2. ASSUME NEW i \in 1 .. Len(all) + Len(page), ~(i <= Len(all))
        PROVE  page[i - Len(all)] = list[i]
    <3>1. i - Len(all) \in 1 .. Len(page) /\ (pageNum - 1) * PageSize + (i - Len(all)) = i
      BY <1>2, <1>3, <2>2
    <3> QED
      BY <1>2, <3>1
  <2> QED
    BY <2>1, <2>2
<1>6. Len(page) \in Nat /\ Len(all') \in Nat /\ total' \in Nat /\ PageSize \in Nat \ {0}
  BY <1>1, <1>2, <1>3, <1>5, CollectorAssumption
<1>7. TypeOK'
  BY <1>1, <1>4, <1>5, <1>6 DEF TypeOK
<1>8. PagesBounded'
  <2> SUFFICES ASSUME pc' = "paging"
               PROVE  Len(all') = (pageNum' - 1) * PageSize /\ (total' > 0 => Len(all') < total')
    BY DEF PagesBounded
  <2>1. Len(page) = PageSize /\ pageNum' = pageNum + 1
    BY <1>2, <1>4, <1>6
  <2>2. (pageNum' - 1) * PageSize = (pageNum - 1) * PageSize + PageSize
    BY <1>1, <1>6, <2>1
  <2> QED
    BY <1>3, <1>4, <1>5, <1>6, <2>1, <2>2
<1>9. CollectedIsPrefix'
  <2> SUFFICES ASSUME ~shifted
               PROVE  /\ Len(all') <= Len(list)
                      /\ \A i \in 1 .. Len(all') : all'[i] = list[i]
    BY <1>1 DEF CollectedIsPrefix
  <2>1. Len(all) <= Len(list) /\ \A i \in 1 .. Len(all) : all[i] = list[i]
    BY <1>1 DEF CollectedIsPrefix
  <2>2. Len(all') <= Len(list)
    <3>1. CASE Len(page) = 0
      BY <1>3, <1>5, <2>1, <3>1
    <3>2. CASE Len(page) # 0
      <4>1. Len(page) \in 1 .. Len(page)
        BY <1>6, <3>2
      <4> QED
        BY <1>2, <1>3, <1>5, <4>1
    <3> QED
      BY <3>1, <3>2
  <2> QED
    BY <1>3, <1>5, <1>6, <2>1, <2>2
<1>10. PresentWithinTotal'
  BY <1>1, <1>3 DEF PresentWithinTotal
<1>11. DoneIsComplete'
  <2> SUFFICES ASSUME pc' = "done", ~shifted, NEW s \in present
               PROVE  s \in Range(all')
    BY <1>1 DEF DoneIsComplete
  <2>1. PICK i \in 1 .. Len(list) : list[i] = s /\ (total' > 0 => i <= total')
    BY <1>1, <1>4, <1>10 DEF PresentWithinTotal
  <2>2. i <= Len(all')
    BY <1>2, <1>3, <1>4, <1>5, <1>6, <2>1
  <2>3. all'[i] = s
    BY <1>1, <1>3, <1>4, <1>6, <1>9, <2>1, <2>2 DEF CollectedIsPrefix
  <2> QED
    BY <1>3, <1>5, <1>6, <2>1, <2>2, <2>3, InRange
<1> QED
  BY <1>7, <1>8, <1>9, <1>10, <1>11

\* A collection that fails keeps nothing.
LEMMA PageFailsInv ==
  ASSUME IInv, PageFails
  PROVE  IInv'
<1> USE DEF IInv, PageFails
<1>1. <<>> \in Seq(Services)
  BY EmptySeq
<1>2. TypeOK'
  BY <1>1 DEF TypeOK
<1>3. PagesBounded' /\ CollectedIsPrefix' /\ PresentWithinTotal' /\ DoneIsComplete'
  BY DEF PagesBounded, CollectedIsPrefix, PresentWithinTotal, DoneIsComplete
<1> QED
  BY <1>2, <1>3

\* A list that grows at its end goes on beginning with what was collected.
LEMMA ListedLastInv ==
  ASSUME IInv, NEW s \in Services, ListedLast(s)
  PROVE  IInv'
<1> USE DEF IInv, ListedLast, Change, collectVars
<1>1. /\ list' \in Seq(Services) /\ IsInjective(list')
      /\ Len(list') = Len(list) + 1 /\ Len(list) \in Nat
      /\ \A i \in 1 .. Len(list) : list'[i] = list[i]
  <2>1. list \in Seq(Services) /\ IsInjective(list) /\ s \notin Range(list)
    BY DEF TypeOK
  <2>2. /\ list' \in Seq(Services) /\ Len(list') = Len(list) + 1 /\ Len(list) \in Nat
        /\ DOMAIN list = 1 .. Len(list) /\ DOMAIN list' = 1 .. Len(list) + 1
        /\ \A i \in 1 .. Len(list) : list'[i] = list[i]
        /\ list'[Len(list) + 1] = s
    BY <2>1, AppendProperties, LenProperties
  <2>3. IsInjective(list')
    BY <2>1, <2>2 DEF IsInjective, Range
  <2> QED
    BY <2>2, <2>3
<1>2. TypeOK'
  <2>1. changes' \in Nat
    BY DEF TypeOK
  <2> QED
    BY <1>1, <2>1 DEF TypeOK
<1>3. PagesBounded' /\ DoneIsComplete'
  BY DEF PagesBounded, DoneIsComplete
<1>4. Len(all) \in Nat
  BY LenProperties DEF TypeOK
<1>5. CollectedIsPrefix'
  BY <1>1, <1>4 DEF CollectedIsPrefix
<1>6. PresentWithinTotal'
  BY <1>1 DEF PresentWithinTotal
<1> QED
  BY <1>2, <1>3, <1>5, <1>6

\* Any other change shifts the list: what is promised then is the bound on the requests.
LEMMA ShiftInv ==
  ASSUME IInv, NEW s \in Services, ListedFirst(s) \/ Removed(s)
  PROVE  IInv'
<1> USE DEF IInv
<1>1. list' \in Seq(Services) /\ IsInjective(list')
  <2>1. CASE ListedFirst(s)
    BY <2>1, Prefixed DEF ListedFirst
  <2>2. CASE Removed(s)
    BY <2>2, Shortened DEF Removed
  <2> QED
    BY <2>1, <2>2
<1>2. /\ UNCHANGED collectVars /\ shifted' = TRUE
      /\ present' \subseteq Services /\ changes' \in Nat
  BY DEF ListedFirst, Removed, Change, TypeOK
<1>3. TypeOK'
  <2>1. shifted' \in BOOLEAN
    BY <1>2
  <2> QED
    BY <1>1, <1>2, <2>1 DEF TypeOK, collectVars
<1>4. PagesBounded' /\ CollectedIsPrefix' /\ PresentWithinTotal' /\ DoneIsComplete'
  BY <1>2 DEF PagesBounded, CollectedIsPrefix, PresentWithinTotal, DoneIsComplete, collectVars
<1> QED
  BY <1>3, <1>4

\* Every step preserves the invariant.
LEMMA NextInv == IInv /\ [Next]_vars => IInv'
<1> SUFFICES ASSUME IInv, [Next]_vars PROVE IInv'
  OBVIOUS
<1>1. CASE Begin
  BY <1>1, BeginInv
<1>2. CASE Collect
  BY <1>2, ReadPageInv, PageFailsInv DEF Collect
<1>3. CASE \E s \in Services : ListedLast(s) \/ ListedFirst(s) \/ Removed(s)
  BY <1>3, ListedLastInv, ShiftInv
<1>4. CASE UNCHANGED vars
  <2>1. TypeOK'
    BY <1>4 DEF IInv, TypeOK, vars
  <2>2. PagesBounded' /\ CollectedIsPrefix' /\ PresentWithinTotal' /\ DoneIsComplete'
    BY <1>4 DEF IInv, PagesBounded, CollectedIsPrefix, PresentWithinTotal, DoneIsComplete, vars
  <2> QED
    BY <2>1, <2>2 DEF IInv
<1> QED
  BY <1>1, <1>2, <1>3, <1>4 DEF Next

\* The invariant holds in every reachable state.
THEOREM Invariant == Spec => []IInv
  BY InitInv, NextInv, PTL DEF Spec

\* The collection's variables keep their types; ECSM lists each service once.
THEOREM TypeCorrect == Spec => []TypeOK
  BY Invariant, PTL DEF IInv

\* While pages are read, all of them were full and the total is not reached.
THEOREM RequestsBounded == Spec => []PagesBounded
  BY Invariant, PTL DEF IInv

(***************************************************************************)
(* A collection from a list that only grew at its end has every service    *)
(* that was there from the beginning, and none twice.                      *)
(***************************************************************************)
THEOREM CollectionComplete == Spec => []CompleteUnlessShifted
<1>1. IInv => CompleteUnlessShifted
  <2> SUFFICES ASSUME IInv, pc = "done", ~shifted
               PROVE  (\A s \in present : FindActualService(all, s)) /\ IsInjective(all)
    BY DEF CompleteUnlessShifted
  <2>1. \A s \in present : FindActualService(all, s)
    BY DEF IInv, DoneIsComplete, FindActualService
  <2>2. /\ DOMAIN all = 1 .. Len(all) /\ Len(all) \in Nat
        /\ DOMAIN list = 1 .. Len(list) /\ Len(list) \in Nat
    BY InRange DEF IInv, TypeOK
  <2>3. \A i \in 1 .. Len(all) : i \in 1 .. Len(list) /\ all[i] = list[i]
    BY <2>2 DEF IInv, CollectedIsPrefix
  <2>4. IsInjective(all)
    BY <2>2, <2>3 DEF IInv, TypeOK, IsInjective
  <2> QED
    BY <2>1, <2>4
<1> QED
  BY <1>1, Invariant, PTL

-----------------------------------------------------------------------------
(* The test summary. *)

\* What is known of the packages, the tests and the lines read.
SummaryTypes ==
  /\ package \in [Packages -> {"waiting", "started", "ok", "fail"}]
  /\ test \in [Tests -> {"waiting", "running"} \union Ends]
  /\ packages \subseteq Packages
  /\ results \in [Tests -> {"unread", ""} \union Ends]
  /\ readable \in BOOLEAN

\* What was read of a test is how far it got.
ResultIsState ==
  \A t \in Tests :
    /\ results[t] = "unread" <=> test[t] = "waiting"
    /\ results[t] = "" <=> test[t] = "running"
    /\ \A how \in Ends : results[t] = how <=> test[t] = how

\* A package that was tested was read of, and leaves no test running unless it fails.
PackageIsState ==
  \A p \in Packages :
    /\ package[p] \in {"started", "ok"} => p \in packages
    /\ package[p] = "ok" => \A n \in Names : test[<<p, n>>] # "running"

\* The inductive invariant of the summary.
SummaryInv == SummaryTypes /\ ResultIsState /\ PackageIsState

\* An event about a package itself changes no result; one about a test changes that test's.
LEMMA ReadEvent ==
  ASSUME NEW p \in Packages, NEW n, NEW action, Read(p, n, action),
         results \in [Tests -> {"unread", ""} \union Ends],
         n \in Names \/ (n = NoTest)
  PROVE  /\ packages' = packages \union {p}
         /\ n = NoTest => results' = results
         /\ n \in Names =>
              /\ results' \in [Tests -> {"unread", ""} \union Ends \union {action}]
              /\ \A t \in Tests : t # <<p, n>> => results'[t] = results[t]
              /\ action \in Ends => results'[<<p, n>>] = action
              /\ action \notin Ends =>
                   results'[<<p, n>>] = IF results[<<p, n>>] = "unread" THEN "" ELSE results[<<p, n>>]
<1>1. packages' = packages \union {p} /\ (n = NoTest => results' = results)
  BY DEF Read
<1>2. ASSUME n \in Names
      PROVE  results' = [results EXCEPT ![<<p, n>>] =
               IF action \in Ends THEN action
               ELSE IF results[<<p, n>>] = "unread" THEN "" ELSE results[<<p, n>>]]
  <2>1. n # NoTest
    BY <1>2, SummaryAssumption
  <2> QED
    BY <2>1 DEF Read, Key
<1>3. n \in Names => <<p, n>> \in Tests
  BY DEF Tests
<1> QED
  BY <1>1, <1>2, <1>3

LEMMA SummaryInit == RunInit => SummaryInv
<1> SUFFICES ASSUME RunInit PROVE SummaryInv
  OBVIOUS
<1>1. SummaryTypes
  BY DEF RunInit, SummaryTypes
<1>2. ResultIsState
  BY DEF RunInit, ResultIsState, Ends
<1>3. PackageIsState
  BY DEF RunInit, PackageIsState
<1> QED
  BY <1>1, <1>2, <1>3 DEF SummaryInv

\* An event of one test: it started, or it ended.
LEMMA TestStepInv ==
  ASSUME SummaryInv, NEW p \in Packages, NEW n \in Names, NEW action,
         \/ TestStarts(p, n) /\ action = "run"
         \/ action \in Ends /\ TestEnds(p, n, action)
  PROVE  SummaryInv'
<1> USE DEF SummaryInv
<1>1. /\ package[p] = "started" /\ Read(p, n, action) /\ UNCHANGED <<package, readable>>
      /\ <<p, n>> \in Tests
      /\ test' = [test EXCEPT ![<<p, n>>] = IF action \in Ends THEN action ELSE "running"]
  BY DEF TestStarts, TestEnds, Tests, Ends
<1>2. /\ packages' = packages \union {p}
      /\ results' \in [Tests -> {"unread", ""} \union Ends \union {action}]
      /\ \A t \in Tests : t # <<p, n>> => results'[t] = results[t]
      /\ results'[<<p, n>>] = IF action \in Ends THEN action ELSE ""
  <2>1. results \in [Tests -> {"unread", ""} \union Ends]
    BY DEF SummaryTypes
  <2>2. CASE action \in Ends
    BY <1>1, <2>1, <2>2, ReadEvent
  <2>3. CASE action \notin Ends
    <3>1. test[<<p, n>>] = "waiting"
      BY <2>3 DEF TestStarts
    <3>2. results[<<p, n>>] = "unread"
      BY <1>1, <3>1 DEF ResultIsState
    <3> QED
      BY <1>1, <2>1, <2>3, <3>2, ReadEvent
  <2> QED
    BY <2>2, <2>3
<1>3. /\ \A t \in Tests : t # <<p, n>> => test'[t] = test[t]
      /\ test'[<<p, n>>] = IF action \in Ends THEN action ELSE "running"
      /\ test' \in [Tests -> {"waiting", "running"} \union Ends]
  BY <1>1 DEF SummaryTypes
<1>4. results' \in [Tests -> {"unread", ""} \union Ends]
  <2>1. \A t \in Tests : results'[t] \in {"unread", ""} \union Ends
    BY <1>1, <1>2 DEF SummaryTypes
  <2> QED
    BY <1>2, <2>1
<1>5. SummaryTypes'
  BY <1>1, <1>2, <1>3, <1>4 DEF SummaryTypes
<1>6. ResultIsState'
  <2>1. ASSUME NEW t \in Tests, t # <<p, n>>
        PROVE  results'[t] = results[t] /\ test'[t] = test[t]
    BY <1>2, <1>3, <2>1
  <2>2. /\ results'[<<p, n>>] # "unread" /\ test'[<<p, n>>] # "waiting"
        /\ results'[<<p, n>>] = "" <=> test'[<<p, n>>] = "running"
        /\ \A how \in Ends : results'[<<p, n>>] = how <=> test'[<<p, n>>] = how
    BY <1>2, <1>3 DEF Ends
  <2> QED
    BY <2>1, <2>2 DEF ResultIsState
<1>7. PackageIsState'
  <2>1. ASSUME NEW q \in Packages, package[q] = "ok", NEW m \in Names
        PROVE  test'[<<q, m>>] # "running"
    <3>1. <<q, m>> \in Tests /\ <<q, m>> # <<p, n>>
      BY <1>1, <2>1 DEF Tests
    <3> QED
      BY <1>3, <2>1, <3>1 DEF PackageIsState
  <2> QED
    BY <1>1, <1>2, <2>1 DEF PackageIsState
<1> QED
  BY <1>5, <1>6, <1>7

\* A package starts, ends, breaks or is not built: no test changes.
LEMMA PackageStepInv ==
  ASSUME SummaryInv, NEW p \in Packages,
         \/ PackageStarts(p) \/ PackageEnds(p) \/ PackageBreaks(p)
         \/ BuildFails(p) \/ OversizedLine(p)
  PROVE  SummaryInv'
<1> USE DEF SummaryInv
<1>1. /\ UNCHANGED <<test, results>>
      /\ packages' \in {packages, packages \union {p}}
      /\ PackageStarts(p) \/ PackageEnds(p) => packages' = packages \union {p}
  <2>1. results \in [Tests -> {"unread", ""} \union Ends]
    BY DEF SummaryTypes
  <2> QED
    BY <2>1, ReadEvent
    DEF PackageStarts, PackageEnds, PackageBreaks, BuildFails, OversizedLine
<1>2. \/ PackageStarts(p) /\ package' = [package EXCEPT ![p] = "started"]
      \/ PackageEnds(p) /\ package' \in {[package EXCEPT ![p] = "fail"], [package EXCEPT ![p] = "ok"]}
      \/ package' = [package EXCEPT ![p] = "fail"]
      \/ package' = package
  BY DEF PackageStarts, PackageEnds, PackageBreaks, BuildFails, OversizedLine
<1>3. readable' \in BOOLEAN
  BY DEF SummaryTypes, PackageStarts, PackageEnds, PackageBreaks, BuildFails, OversizedLine
<1>4. SummaryTypes'
  <2>1. package' \in [Packages -> {"waiting", "started", "ok", "fail"}]
    BY <1>2 DEF SummaryTypes
  <2> QED
    BY <1>1, <1>3, <2>1 DEF SummaryTypes
<1>5. ResultIsState'
  BY <1>1 DEF ResultIsState
<1>6. PackageIsState'
  <2>1. \A q \in Packages : q # p => package'[q] = package[q]
    BY <1>2 DEF SummaryTypes
  <2>2. package'[p] \in {"started", "ok"} => p \in packages'
    BY <1>1, <1>2 DEF SummaryTypes, PackageIsState
  <2>3. package'[p] = "ok" => \A n \in Names : test[<<p, n>>] # "running"
    BY <1>2 DEF SummaryTypes, PackageIsState, PackageEnds
  <2> QED
    BY <1>1, <2>1, <2>2, <2>3 DEF PackageIsState
<1> QED
  BY <1>4, <1>5, <1>6

LEMMA SummaryNext == SummaryInv /\ [RunNext]_runVars => SummaryInv'
<1> SUFFICES ASSUME SummaryInv, [RunNext]_runVars PROVE SummaryInv'
  OBVIOUS
<1>1. CASE RunNext
  BY <1>1, PackageStepInv, TestStepInv DEF RunNext
<1>2. CASE UNCHANGED runVars
  BY <1>2 DEF runVars, SummaryInv, SummaryTypes, ResultIsState, PackageIsState
<1> QED
  BY <1>1, <1>2

\* The summary's invariant holds however the events are mixed.
THEOREM SummaryInvariant == TestRun => []SummaryInv
  BY SummaryInit, SummaryNext, PTL DEF TestRun

(***************************************************************************)
(* A run is reported as passed only if every test that began ended, and    *)
(* none failed, for any packages and tests.                                *)
(***************************************************************************)
THEOREM PassedIsComplete == TestRun => []PassedMeansAllEnded
<1>1. SummaryInv => PassedMeansAllEnded
  <2> SUFFICES ASSUME SummaryInv, Reported, Status = "passed"
               PROVE  /\ \A p \in Packages : package[p] = "ok"
                      /\ \A t \in Tests : test[t] \notin {"running", "fail"}
    BY DEF PassedMeansAllEnded
  <2>1. ByAction("fail") = {} /\ ExitCode = 0
    BY DEF Status
  <2>2. \A p \in Packages : package[p] # "fail"
    BY <2>1 DEF ExitCode
  <2>3. \A p \in Packages : package[p] = "ok"
    BY <2>2 DEF Reported
  <2>4. ASSUME NEW p \in Packages, NEW n \in Names
        PROVE  test[<<p, n>>] \notin {"running", "fail"}
    <3>1. <<p, n>> \in Tests
      BY DEF Tests
    <3>2. results[<<p, n>>] # "fail"
      BY <2>1, <3>1 DEF ByAction
    <3>3. test[<<p, n>>] # "fail"
      BY <3>1, <3>2 DEF SummaryInv, ResultIsState, Ends
    <3> QED
      BY <2>3, <3>3 DEF SummaryInv, PackageIsState
  <2> QED
    BY <2>3, <2>4 DEF Tests
<1> QED
  BY <1>1, SummaryInvariant, PTL

-----------------------------------------------------------------------------
\* The tests of a package with a certain end are as many as their names.
LEMMA CountedByName ==
  ASSUME SummaryInv, NEW p \in Packages, NEW action \in Ends
  PROVE  /\ {n \in Names : test[<<p, n>>] = action} \in SUBSET Names
         /\ Cardinality({t \in ByAction(action) : t[1] = p})
              = Cardinality({n \in Names : test[<<p, n>>] = action})
<1> DEFINE N == {n \in Names : test[<<p, n>>] = action}
           T == {t \in ByAction(action) : t[1] = p}
           named == [n \in N |-> <<p, n>>]
<1>1. IsFiniteSet(N)
  BY SummaryAssumption, FS_Subset
<1>2. \A n \in N : <<p, n>> \in T
  BY DEF SummaryInv, ResultIsState, ByAction, Tests
<1>3. ASSUME NEW t \in T
      PROVE  \E n \in N : t = <<p, n>>
  <2>1. PICK q \in Packages, n \in Names : t = <<q, n>>
    BY DEF ByAction, Tests
  <2>2. q = p /\ results[<<p, n>>] = action /\ <<p, n>> \in Tests
    BY <2>1 DEF ByAction
  <2>3. n \in N
    BY <2>2 DEF SummaryInv, ResultIsState
  <2> QED
    BY <2>1, <2>2, <2>3
<1>4. named \in Bijection(N, T)
  <2>1. named \in [N -> T] /\ \A m, n \in N : named[m] = named[n] => m = n
    BY <1>2
  <2>2. \A t \in T : \E n \in N : named[n] = t
    BY <1>3
  <2> HIDE DEF N, T, named
  <2> QED
    BY <2>1, <2>2 DEF Bijection, Injection, Surjection, IsInjective
<1>5. ExistsBijection(N, T)
  BY <1>4 DEF ExistsBijection
<1> HIDE DEF T
<1>6. Cardinality(T) = Cardinality(N)
  BY <1>1, <1>5, FS_Bijection
<1> QED
  BY <1>6 DEF T

(***************************************************************************)
(* Each row of the summary counts that package's tests; a tested package   *)
(* is in the report, and without tests only if none of it ended.           *)
(***************************************************************************)
THEOREM RowsExact == TestRun => []StatsExact
<1>1. SummaryInv => StatsExact
  <2> SUFFICES ASSUME SummaryInv, NEW p \in Packages
               PROVE  /\ \A action \in Ends :
                           Stats(p)[action] = Cardinality({n \in Names : test[<<p, n>>] = action})
                      /\ package[p] = "ok" => p \in Summary \union PackagesWithoutTests
                      /\ p \in PackagesWithoutTests => \A n \in Names : test[<<p, n>>] \notin Ends
    BY DEF StatsExact
  <2>1. ASSUME NEW action \in Ends
        PROVE  Stats(p)[action] = Cardinality({n \in Names : test[<<p, n>>] = action})
    BY CountedByName DEF Stats
  <2>2. package[p] = "ok" => p \in Summary \union PackagesWithoutTests
    BY DEF SummaryInv, PackageIsState, PackagesWithoutTests
  <2>3. ASSUME p \in PackagesWithoutTests, NEW n \in Names, test[<<p, n>>] \in Ends
        PROVE  FALSE
    <3>1. <<p, n>> \in Tests /\ <<p, n>>[1] = p
      BY DEF Tests
    <3>2. <<p, n>> \in ByAction(test[<<p, n>>])
      BY <2>3, <3>1 DEF SummaryInv, ResultIsState, ByAction
    <3>3. p \in Summary
      BY <2>3, <3>1, <3>2 DEF Summary
    <3> QED
      BY <2>3, <3>3 DEF PackagesWithoutTests
  <2> QED
    BY <2>1, <2>2, <2>3
<1> QED
  BY <1>1, SummaryInvariant, PTL
=============================================================================
