--------------------------- MODULE RegistryProofs ---------------------------
(***************************************************************************)
(* Proofs about Registry for any keys, any sizes of the ring and of the    *)
(* channel and any number of writes: what the lists hold, and that the     *)
(* watch passes on every event of a desired state in order until the ring  *)
(* has dropped one.                                                        *)
(***************************************************************************)
EXTENDS Registry, SequenceTheorems, TLAPS

-----------------------------------------------------------------------------
(* The events that are chosen *)

\* The definition, for places from M and N.
Places(events, chosen, M, N, at) ==
  /\ \A i, j \in N : i < j => at[i] < at[j]
  /\ \A i \in N : chosen[i] = events[at[i]]
  /\ \A l \in M : Concerns(events[l]) <=> \E i \in N : at[i] = l

LEMMA ChosenMeans ==
  ASSUME NEW events, NEW chosen, NEW M, NEW N, DOMAIN events = M, DOMAIN chosen = N
  PROVE  Chosen(events, chosen) <=> \E at \in [N -> M] : Places(events, chosen, M, N, at)
BY DEF Chosen, Places

\* Of no events none is chosen.
LEMMA ChosenOfNone == Chosen(<<>>, <<>>)
<1> DEFINE at == [i \in {} |-> 0]
<1>1. DOMAIN <<>> = {}
  OBVIOUS
<1>2. at \in [DOMAIN <<>> -> DOMAIN <<>>]
  BY <1>1
<1> QED
  BY <1>1, <1>2 DEF Chosen

\* An event of a desired state is chosen when it is added.
LEMMA ChosenConcern ==
  ASSUME NEW r \in Seq(Event), NEW c \in Seq(Event), Chosen(r, c),
         NEW e \in Event, Concerns(e)
  PROVE  Chosen(Append(r, e), Append(c, e))
<1> DEFINE m == Len(r)
           n == Len(c)
<1>1. DOMAIN r = 1 .. m /\ DOMAIN c = 1 .. n
  BY LenProperties
<1>2. /\ m \in Nat /\ n \in Nat
      /\ DOMAIN r = 1 .. m /\ DOMAIN c = 1 .. n
      /\ DOMAIN Append(r, e) = 1 .. m + 1 /\ DOMAIN Append(c, e) = 1 .. n + 1
      /\ \A i \in 1 .. m : Append(r, e)[i] = r[i]
      /\ \A i \in 1 .. n : Append(c, e)[i] = c[i]
      /\ Append(r, e)[m + 1] = e /\ Append(c, e)[n + 1] = e
  BY LenProperties, AppendProperties
<1>3. PICK at \in [1 .. n -> 1 .. m] : Places(r, c, 1 .. m, 1 .. n, at)
  BY <1>1, ChosenMeans
<1>4. /\ \A i, j \in 1 .. n : i < j => at[i] < at[j]
      /\ \A i \in 1 .. n : c[i] = r[at[i]]
      /\ \A l \in 1 .. m : Concerns(r[l]) <=> \E i \in 1 .. n : at[i] = l
  BY <1>3 DEF Places
<1> HIDE DEF m, n
<1> DEFINE to == [i \in 1 .. n + 1 |-> IF i = n + 1 THEN m + 1 ELSE at[i]]
<1>5. /\ to[n + 1] = m + 1 /\ n + 1 \in 1 .. n + 1 /\ m + 1 \in 1 .. m + 1
      /\ \A i \in 1 .. n : to[i] = at[i] /\ at[i] \in 1 .. m
  BY <1>2
<1>6. /\ \A i \in 1 .. n + 1 : i \in 1 .. n \/ i = n + 1
      /\ \A i \in 1 .. m + 1 : i \in 1 .. m \/ i = m + 1
      /\ \A i \in 1 .. m : i \in 1 .. m + 1 /\ i < m + 1
      /\ \A i \in 1 .. n : i \in 1 .. n + 1 /\ i < n + 1
      /\ \A i \in 1 .. n + 1 : ~(n + 1 < i)
  BY <1>2
<1>7. to \in [1 .. n + 1 -> 1 .. m + 1]
  <2>1. \A i \in 1 .. n + 1 : to[i] \in 1 .. m + 1
    BY <1>5, <1>6
  <2> QED
    BY <2>1
<1> HIDE DEF to
<1>8. \A i, j \in 1 .. n + 1 : i < j => to[i] < to[j]
  BY <1>4, <1>5, <1>6
<1>9. \A i \in 1 .. n + 1 : Append(c, e)[i] = Append(r, e)[to[i]]
  BY <1>2, <1>4, <1>5, <1>6
<1>10. ASSUME NEW l \in 1 .. m + 1
      PROVE  Concerns(Append(r, e)[l]) <=> \E i \in 1 .. n + 1 : to[i] = l
  <2>1. CASE l = m + 1
    BY <1>2, <1>5, <2>1
  <2>2. CASE l \in 1 .. m
    <3>1. Append(r, e)[l] = r[l] /\ l # m + 1
      BY <1>2, <1>6, <2>2
    <3>2. Concerns(r[l]) <=> \E i \in 1 .. n : at[i] = l
      BY <1>4, <2>2
    <3>3. (\E i \in 1 .. n : at[i] = l) <=> \E i \in 1 .. n + 1 : to[i] = l
      BY <1>5, <1>6, <3>1
    <3> QED
      BY <3>1, <3>2, <3>3
  <2> QED
    BY <1>6, <2>1, <2>2
<1>11. Places(Append(r, e), Append(c, e), 1 .. m + 1, 1 .. n + 1, to)
  BY <1>8, <1>9, <1>10 DEF Places
<1> QED
  BY <1>2, <1>7, <1>11, ChosenMeans

\* Another event changes nothing.
LEMMA ChosenOther ==
  ASSUME NEW r \in Seq(Event), NEW c \in Seq(Event), Chosen(r, c),
         NEW e \in Event, ~Concerns(e)
  PROVE  Chosen(Append(r, e), c)
<1> DEFINE m == Len(r)
<1>1. DOMAIN r = 1 .. m
  BY LenProperties
<1>2. /\ m \in Nat /\ DOMAIN r = 1 .. m /\ DOMAIN Append(r, e) = 1 .. m + 1
      /\ \A i \in 1 .. m : Append(r, e)[i] = r[i]
      /\ Append(r, e)[m + 1] = e
  BY LenProperties, AppendProperties
<1>3. PICK at \in [DOMAIN c -> 1 .. m] : Places(r, c, 1 .. m, DOMAIN c, at)
  BY <1>1, ChosenMeans
<1>4. /\ \A i, j \in DOMAIN c : i < j => at[i] < at[j]
      /\ \A i \in DOMAIN c : c[i] = r[at[i]]
      /\ \A l \in 1 .. m : Concerns(r[l]) <=> \E i \in DOMAIN c : at[i] = l
  BY <1>3 DEF Places
<1> HIDE DEF m
<1>5. /\ \A i \in 1 .. m + 1 : i \in 1 .. m \/ i = m + 1
      /\ \A i \in 1 .. m : i \in 1 .. m + 1 /\ i # m + 1
  BY <1>2
<1>6. at \in [DOMAIN c -> 1 .. m + 1]
  BY <1>5
<1>7. \A i \in DOMAIN c : c[i] = Append(r, e)[at[i]]
  BY <1>2, <1>4
<1>8. \A l \in 1 .. m + 1 : Concerns(Append(r, e)[l]) <=> \E i \in DOMAIN c : at[i] = l
  BY <1>2, <1>4, <1>5
<1>9. Places(Append(r, e), c, 1 .. m + 1, DOMAIN c, at)
  BY <1>4, <1>7, <1>8 DEF Places
<1> QED
  BY <1>2, <1>6, <1>9, ChosenMeans

\* Nor does taking one away.
LEMMA ChosenPassOver ==
  ASSUME NEW r \in Seq(Event), NEW c \in Seq(Event), Chosen(r, c),
         r # <<>>, ~Concerns(Head(r))
  PROVE  Chosen(Tail(r), c)
<1> DEFINE m == Len(r)
<1>1. DOMAIN r = 1 .. m
  BY LenProperties
<1>2. /\ m \in Nat \ {0} /\ DOMAIN r = 1 .. m /\ DOMAIN Tail(r) = 1 .. m - 1
      /\ \A i \in 1 .. m - 1 : Tail(r)[i] = r[i + 1]
      /\ Head(r) = r[1]
  BY LenProperties, EmptySeq, HeadTailProperties
<1>3. PICK at \in [DOMAIN c -> 1 .. m] : Places(r, c, 1 .. m, DOMAIN c, at)
  BY <1>1, ChosenMeans
<1>4. /\ \A i, j \in DOMAIN c : i < j => at[i] < at[j]
      /\ \A i \in DOMAIN c : c[i] = r[at[i]]
      /\ \A l \in 1 .. m : Concerns(r[l]) <=> \E i \in DOMAIN c : at[i] = l
  BY <1>3 DEF Places
<1>5. \A i \in DOMAIN c : at[i] # 1
  BY <1>2, <1>4
<1> HIDE DEF m
<1> DEFINE to == [i \in DOMAIN c |-> at[i] - 1]
<1>6. \A i \in DOMAIN c : at[i] \in 1 .. m /\ to[i] \in 1 .. m - 1 /\ at[i] = to[i] + 1
  BY <1>2, <1>5
<1>7. to \in [DOMAIN c -> 1 .. m - 1]
  BY <1>6
<1>8. \A i, j \in DOMAIN c : i < j => to[i] < to[j]
  BY <1>4, <1>6
<1> HIDE DEF to
<1>9. \A i \in DOMAIN c : c[i] = Tail(r)[to[i]]
  BY <1>2, <1>4, <1>6
<1>10. ASSUME NEW l \in 1 .. m - 1
      PROVE  Concerns(Tail(r)[l]) <=> \E i \in DOMAIN c : to[i] = l
  <2>1. l + 1 \in 1 .. m /\ Tail(r)[l] = r[l + 1]
    BY <1>2
  <2>2. \A i \in DOMAIN c : at[i] = l + 1 <=> to[i] = l
    BY <1>6
  <2> QED
    BY <1>4, <2>1, <2>2
<1>11. Places(Tail(r), c, 1 .. m - 1, DOMAIN c, to)
  BY <1>8, <1>9, <1>10 DEF Places
<1> QED
  BY <1>2, <1>7, <1>11, ChosenMeans

\* The first event, if it is of a desired state, is the first one chosen.
LEMMA ChosenFirst ==
  ASSUME NEW r \in Seq(Event), NEW c \in Seq(Event), Chosen(r, c),
         r # <<>>, Concerns(Head(r))
  PROVE  c # <<>> /\ Head(c) = Head(r) /\ Chosen(Tail(r), Tail(c))
<1> DEFINE m == Len(r)
           n == Len(c)
<1>1. DOMAIN r = 1 .. m /\ DOMAIN c = 1 .. n
  BY LenProperties
<1>2. /\ m \in Nat \ {0} /\ DOMAIN r = 1 .. m /\ DOMAIN Tail(r) = 1 .. m - 1
      /\ \A i \in 1 .. m - 1 : Tail(r)[i] = r[i + 1]
      /\ Head(r) = r[1]
  BY LenProperties, EmptySeq, HeadTailProperties
<1>3. n \in Nat /\ DOMAIN c = 1 .. n
  BY LenProperties
<1>4. PICK at \in [1 .. n -> 1 .. m] : Places(r, c, 1 .. m, 1 .. n, at)
  BY <1>1, ChosenMeans
<1>5. /\ \A i, j \in 1 .. n : i < j => at[i] < at[j]
      /\ \A i \in 1 .. n : c[i] = r[at[i]]
      /\ \A l \in 1 .. m : Concerns(r[l]) <=> \E i \in 1 .. n : at[i] = l
  BY <1>4 DEF Places
<1>6. 1 \in 1 .. n /\ at[1] = 1
  <2>1. 1 \in 1 .. m
    BY <1>2
  <2>2. PICK k \in 1 .. n : at[k] = 1
    BY <1>2, <1>5, <2>1
  <2>3. 1 \in 1 .. n /\ (k # 1 => 1 < k)
    BY <1>3
  <2>4. at[1] \in 1 .. m
    BY <1>5, <2>3
  <2>5. ~(at[1] < 1)
    BY <2>4
  <2> QED
    BY <1>5, <2>2, <2>3, <2>5
<1>7. c # <<>> /\ n \in Nat \ {0}
  BY <1>3, <1>6, EmptySeq
<1>8. /\ DOMAIN Tail(c) = 1 .. n - 1 /\ Head(c) = c[1]
      /\ \A i \in 1 .. n - 1 : Tail(c)[i] = c[i + 1]
  BY <1>7, LenProperties, HeadTailProperties
<1>9. Head(c) = Head(r)
  BY <1>2, <1>5, <1>6, <1>8
<1> HIDE DEF m, n
<1> DEFINE to == [i \in 1 .. n - 1 |-> at[i + 1] - 1]
<1>10. \A i \in 1 .. n - 1 : 1 < i + 1 /\ i + 1 \in 1 .. n
  BY <1>7
<1>11. \A i \in 1 .. n - 1 : at[i + 1] \in 1 .. m /\ 1 < at[i + 1]
  BY <1>5, <1>6, <1>10
<1>12. \A i \in 1 .. n - 1 : to[i] \in 1 .. m - 1 /\ at[i + 1] = to[i] + 1
  BY <1>2, <1>11
<1>13. to \in [1 .. n - 1 -> 1 .. m - 1]
  BY <1>12
<1> HIDE DEF to
<1>14. \A i, j \in 1 .. n - 1 : i < j => to[i] < to[j]
  <2> SUFFICES ASSUME NEW i \in 1 .. n - 1, NEW j \in 1 .. n - 1, i < j
               PROVE  to[i] < to[j]
    OBVIOUS
  <2>1. i + 1 < j + 1
    OBVIOUS
  <2>2. at[i + 1] < at[j + 1]
    BY <1>5, <1>10, <2>1
  <2> QED
    BY <1>12, <2>2
<1>15. \A i \in 1 .. n - 1 : Tail(c)[i] = Tail(r)[to[i]]
  <2> SUFFICES ASSUME NEW i \in 1 .. n - 1
               PROVE  Tail(c)[i] = Tail(r)[to[i]]
    OBVIOUS
  <2>1. Tail(c)[i] = c[i + 1] /\ c[i + 1] = r[at[i + 1]]
    BY <1>5, <1>8, <1>10
  <2>2. Tail(r)[to[i]] = r[to[i] + 1] /\ at[i + 1] = to[i] + 1
    BY <1>2, <1>12
  <2> QED
    BY <2>1, <2>2
<1>16. ASSUME NEW l \in 1 .. m - 1
       PROVE  Concerns(Tail(r)[l]) <=> \E i \in 1 .. n - 1 : to[i] = l
  <2>1. l + 1 \in 1 .. m /\ l + 1 # 1 /\ Tail(r)[l] = r[l + 1]
    BY <1>2
  <2>2. \A i \in 1 .. n - 1 : at[i + 1] = l + 1 <=> to[i] = l
    BY <1>12
  <2>3. \A k \in 1 .. n : k # 1 => k - 1 \in 1 .. n - 1 /\ (k - 1) + 1 = k
    BY <1>7
  <2>4. Concerns(r[l + 1]) <=> \E k \in 1 .. n : at[k] = l + 1
    BY <1>5, <2>1
  <2>5. (\E k \in 1 .. n : at[k] = l + 1) <=> \E i \in 1 .. n - 1 : at[i + 1] = l + 1
    BY <1>6, <1>10, <2>1, <2>3
  <2> QED
    BY <2>1, <2>2, <2>4, <2>5
<1>17. Places(Tail(r), Tail(c), 1 .. m - 1, 1 .. n - 1, to)
  BY <1>14, <1>15, <1>16 DEF Places
<1>18. Chosen(Tail(r), Tail(c))
  BY <1>2, <1>8, <1>13, <1>17, ChosenMeans
<1> QED
  BY <1>7, <1>9, <1>18

-----------------------------------------------------------------------------
(* What was passed on, and what is still to be *)

\* A sequence is its prefix and what comes after that.
LEMMA PrefixAndRest ==
  ASSUME NEW S, NEW p \in Seq(S), NEW l \in Seq(S), IsPrefix(p, l)
  PROVE  /\ SubSeq(l, Len(p) + 1, Len(l)) \in Seq(S)
         /\ l = p \o SubSeq(l, Len(p) + 1, Len(l))
<1> DEFINE k == Len(p)
           n == Len(l)
<1>1. k \in Nat /\ n \in Nat /\ k <= n /\ SubSeq(p, 1, k) = SubSeq(l, 1, k)
  BY LenProperties DEF IsPrefix
<1>2. SubSeq(p, 1, k) = p /\ SubSeq(l, 1, n) = l
  BY SubSeqFull
<1>3. \A i \in k + 1 .. n : l[i] \in S
  BY <1>1, LenProperties
<1>4. k + 1 \in Int /\ n \in Int
  BY <1>1
<1>5. SubSeq(l, k + 1, n) \in Seq(S)
  BY <1>3, <1>4, SubSeqProperties
<1>6. 1 \in 1 .. n + 1 /\ k \in 1 - 1 .. n /\ n \in k .. n
  BY <1>1
<1>7. SubSeq(l, 1, k) \o SubSeq(l, k + 1, n) = SubSeq(l, 1, n)
  BY <1>6, ConcatAdjacentSubSeq
<1> QED
  BY <1>1, <1>2, <1>5, <1>7

\* And the other way round.
LEMMA Joined ==
  ASSUME NEW S, NEW p \in Seq(S), NEW t \in Seq(S)
  PROVE  /\ IsPrefix(p, p \o t)
         /\ SubSeq(p \o t, Len(p) + 1, Len(p \o t)) = t
<1> DEFINE k == Len(p)
           n == Len(t)
           l == p \o t
           u == SubSeq(l, k + 1, Len(l))
           v == SubSeq(l, 1, k)
<1>1. k \in Nat /\ n \in Nat
  BY LenProperties
<1>2. /\ l \in Seq(S) /\ Len(l) = k + n
      /\ \A i \in 1 .. k + n : l[i] = IF i <= k THEN p[i] ELSE t[i - k]
  BY ConcatProperties
<1>3. \A i \in 1 .. k + n : l[i] \in S
  BY <1>2, LenProperties
<1> HIDE DEF k, n, l
<1>4. u \in Seq(S) /\ Len(u) = n /\ \A i \in 1 .. n : u[i] = l[k + i]
  <2>1. k + 1 \in Int /\ k + n \in Int /\ \A i \in k + 1 .. k + n : l[i] \in S
    BY <1>1, <1>3
  <2>2. /\ u \in Seq(S) /\ Len(u) = IF k + 1 <= k + n THEN (k + n) - (k + 1) + 1 ELSE 0
        /\ \A i \in 1 .. (k + n) - (k + 1) + 1 : u[i] = l[(k + 1) + i - 1]
    BY <1>2, <2>1, SubSeqProperties
  <2>3. (k + n) - (k + 1) + 1 = n /\ (~(k + 1 <= k + n) => n = 0)
    BY <1>1
  <2>4. \A i \in 1 .. n : (k + 1) + i - 1 = k + i
    BY <1>1
  <2> HIDE DEF u
  <2> QED
    BY <2>2, <2>3, <2>4
<1>5. v \in Seq(S) /\ Len(v) = k /\ \A i \in 1 .. k : v[i] = l[i]
  <2>1. 1 \in Int /\ k \in Int /\ \A i \in 1 .. k : l[i] \in S
    BY <1>1, <1>3
  <2>2. /\ v \in Seq(S) /\ Len(v) = IF 1 <= k THEN k - 1 + 1 ELSE 0
        /\ \A i \in 1 .. k - 1 + 1 : v[i] = l[1 + i - 1]
    BY <2>1, SubSeqProperties
  <2>3. k - 1 + 1 = k /\ (~(1 <= k) => k = 0) /\ \A i \in 1 .. k : 1 + i - 1 = i
    BY <1>1
  <2> HIDE DEF v
  <2> QED
    BY <2>2, <2>3
<1> HIDE DEF u, v
<1>6. \A i \in 1 .. n : u[i] = t[i]
  <2>1. \A i \in 1 .. n : k + i \in 1 .. k + n /\ ~(k + i <= k) /\ (k + i) - k = i
    BY <1>1
  <2> QED
    BY <1>2, <1>4, <2>1
<1>7. \A i \in 1 .. k : v[i] = p[i]
  <2>1. \A i \in 1 .. k : i \in 1 .. k + n /\ i <= k
    BY <1>1
  <2> QED
    BY <1>2, <1>5, <2>1
<1>8. u = t
  BY <1>4, <1>6, SeqEqual DEF n
<1>9. v = p
  BY <1>5, <1>7, SeqEqual DEF k
<1>10. IsPrefix(p, l)
  <2>1. Len(p) <= Len(l)
    BY <1>1, <1>2 DEF k
  <2>2. SubSeq(p, 1, Len(p)) = p
    BY SubSeqFull
  <2> QED
    BY <1>9, <2>1, <2>2 DEF IsPrefix, v, k
<1> QED
  BY <1>8, <1>10 DEF u, l, k

\* A sequence is its head and then its tail.
LEMMA HeadTailJoined ==
  ASSUME NEW S, NEW s \in Seq(S), s # <<>>
  PROVE  /\ Tail(s) \in Seq(S) /\ Head(s) \in S /\ <<Head(s)>> \in Seq(S)
         /\ s = <<Head(s)>> \o Tail(s)
<1>1. /\ Tail(s) \in Seq(S) /\ Head(s) \in S /\ Len(Tail(s)) = Len(s) - 1
      /\ \A i \in 1 .. Len(Tail(s)) : Tail(s)[i] = s[i + 1]
  BY HeadTailProperties
<1>2. Head(s) = s[1] /\ Len(s) \in Nat \ {0}
  BY EmptySeq
<1> DEFINE u == <<Head(s)>>
           n == Len(s)
<1>3. u \in Seq(S) /\ Len(u) = 1 /\ u[1] = s[1]
  BY <1>1, <1>2
<1> HIDE DEF u
<1>4. /\ u \o Tail(s) \in Seq(S)
      /\ Len(u \o Tail(s)) = 1 + (n - 1)
      /\ \A i \in 1 .. 1 + (n - 1) :
           (u \o Tail(s))[i] = IF i <= 1 THEN u[i] ELSE Tail(s)[i - 1]
  <2>1. /\ u \o Tail(s) \in Seq(S)
        /\ Len(u \o Tail(s)) = Len(u) + Len(Tail(s))
        /\ \A i \in 1 .. Len(u) + Len(Tail(s)) :
             (u \o Tail(s))[i] = IF i <= Len(u) THEN u[i] ELSE Tail(s)[i - Len(u)]
    <3>1. u \in Seq(S) /\ Tail(s) \in Seq(S)
      BY <1>1, <1>3
    <3> QED
      BY <3>1, ConcatProperties
  <2>2. Len(u) = 1 /\ Len(Tail(s)) = n - 1
    BY <1>1, <1>3
  <2> HIDE DEF n
  <2> QED
    BY <2>1, <2>2
<1> HIDE DEF n
<1>5. 1 + (n - 1) = n
  BY <1>2 DEF n
<1>6. \A i \in 1 .. n : (u \o Tail(s))[i] = s[i]
  <2> SUFFICES ASSUME NEW i \in 1 .. n PROVE (u \o Tail(s))[i] = s[i]
    OBVIOUS
  <2>1. CASE i = 1
    BY <1>3, <1>4, <1>5, <2>1
  <2>2. CASE i # 1
    <3>1. i - 1 \in 1 .. n - 1 /\ (i - 1) + 1 = i /\ ~(i <= 1)
      BY <1>2, <2>2 DEF n
    <3>2. Tail(s)[i - 1] = s[(i - 1) + 1]
      BY <1>1, <3>1 DEF n
    <3> QED
      BY <1>4, <1>5, <3>1, <3>2
  <2> QED
    BY <2>1, <2>2
<1>7. u \o Tail(s) = s
  BY <1>4, <1>5, <1>6, SeqEqual DEF n
<1> QED
  BY <1>1, <1>3, <1>7 DEF u

-----------------------------------------------------------------------------
(* The watch *)

\* What has left the ring and was not passed over.
Passed == received \o out \o hand

\* What was logged is what was passed on and then what is chosen of the ring.
Faithful(passed, logged, events) ==
  \E rest \in Seq(Event) : logged = passed \o rest /\ Chosen(events, rest)

LEMMA FaithfulMeans ==
  ASSUME NEW p \in Seq(Event), NEW l \in Seq(Event), NEW r
  PROVE  Faithful(p, l, r) <=> IsPrefix(p, l) /\ Chosen(r, SubSeq(l, Len(p) + 1, Len(l)))
<1>1. ASSUME IsPrefix(p, l), Chosen(r, SubSeq(l, Len(p) + 1, Len(l)))
      PROVE  Faithful(p, l, r)
  BY <1>1, PrefixAndRest DEF Faithful
<1>2. ASSUME Faithful(p, l, r)
      PROVE  IsPrefix(p, l) /\ Chosen(r, SubSeq(l, Len(p) + 1, Len(l)))
  <2>1. PICK rest \in Seq(Event) : l = p \o rest /\ Chosen(r, rest)
    BY <1>2 DEF Faithful
  <2> QED
    BY <2>1, Joined
<1> QED
  BY <1>1, <1>2

LEMMA PassedType ==
  ASSUME TypeOK
  PROVE  Passed \in Seq(Event)
<1>1. received \in Seq(Event) /\ out \in Seq(Event) /\ hand \in Seq(Event)
  BY DEF TypeOK
<1>2. received \o out \in Seq(Event)
  BY <1>1, ConcatProperties
<1> QED
  BY <1>1, <1>2, ConcatProperties DEF Passed

\* The invariant says that the watch is faithful, before and after a step.
LEMMA NowFaithful ==
  ASSUME TypeOK
  PROVE  WatchFaithful <=> (~dropped => Faithful(Passed, log, ring))
<1>1. Passed \in Seq(Event) /\ log \in Seq(Event)
  BY PassedType DEF TypeOK
<1>2. Faithful(Passed, log, ring) <=>
        IsPrefix(Passed, log) /\ Chosen(ring, SubSeq(log, Len(Passed) + 1, Len(log)))
  BY <1>1, FaithfulMeans
<1> QED
  BY <1>2 DEF WatchFaithful, Passed

LEMMA ThenFaithful ==
  ASSUME TypeOK', Passed' \in Seq(Event), ~dropped' => Faithful(Passed', log', ring')
  PROVE  WatchFaithful'
<1>1. log' \in Seq(Event)
  BY DEF TypeOK
<1>2. Faithful(Passed', log', ring') <=>
        /\ IsPrefix(Passed', log')
        /\ Chosen(ring', SubSeq(log', Len(Passed') + 1, Len(log')))
  BY <1>1, FaithfulMeans
<1> QED
  BY <1>2 DEF WatchFaithful, Passed

\* An event of a desired state comes to the ring.
LEMMA FaithfulConcern ==
  ASSUME NEW p \in Seq(Event), NEW l \in Seq(Event), NEW r \in Seq(Event),
         Faithful(p, l, r), NEW e \in Event, Concerns(e)
  PROVE  Faithful(p, Append(l, e), Append(r, e))
<1>1. PICK rest \in Seq(Event) : l = p \o rest /\ Chosen(r, rest)
  BY DEF Faithful
<1>2. <<e>> \in Seq(Event) /\ Append(rest, e) \in Seq(Event)
  BY AppendProperties
<1>3. Append(l, e) = p \o Append(rest, e)
  <2>1. Append(l, e) = l \o <<e>> /\ Append(rest, e) = rest \o <<e>>
    BY AppendIsConcat
  <2>2. (p \o rest) \o <<e>> = p \o (rest \o <<e>>)
    BY <1>2, ConcatAssociative
  <2> QED
    BY <1>1, <2>1, <2>2
<1>4. Chosen(Append(r, e), Append(rest, e))
  BY <1>1, ChosenConcern
<1> QED
  BY <1>2, <1>3, <1>4 DEF Faithful

\* Another event comes to the ring.
LEMMA FaithfulOther ==
  ASSUME NEW p, NEW l, NEW r \in Seq(Event),
         Faithful(p, l, r), NEW e \in Event, ~Concerns(e)
  PROVE  Faithful(p, l, Append(r, e))
<1>1. PICK rest \in Seq(Event) : l = p \o rest /\ Chosen(r, rest)
  BY DEF Faithful
<1>2. Chosen(Append(r, e), rest)
  BY <1>1, ChosenOther
<1> QED
  BY <1>1, <1>2 DEF Faithful

\* An event that is about something else leaves the ring.
LEMMA FaithfulPassOver ==
  ASSUME NEW p, NEW l, NEW r \in Seq(Event),
         Faithful(p, l, r), r # <<>>, ~Concerns(Head(r))
  PROVE  Faithful(p, l, Tail(r))
<1>1. PICK rest \in Seq(Event) : l = p \o rest /\ Chosen(r, rest)
  BY DEF Faithful
<1>2. Chosen(Tail(r), rest)
  BY <1>1, ChosenPassOver
<1> QED
  BY <1>1, <1>2 DEF Faithful

\* An event of a desired state leaves the ring to be passed on.
LEMMA FaithfulTaken ==
  ASSUME NEW p \in Seq(Event), NEW l, NEW r \in Seq(Event),
         Faithful(p, l, r), r # <<>>, Concerns(Head(r))
  PROVE  Faithful(p \o <<Head(r)>>, l, Tail(r))
<1>1. PICK rest \in Seq(Event) : l = p \o rest /\ Chosen(r, rest)
  BY DEF Faithful
<1>2. rest # <<>> /\ Head(rest) = Head(r) /\ Chosen(Tail(r), Tail(rest))
  BY <1>1, ChosenFirst
<1>3. /\ Tail(rest) \in Seq(Event) /\ Head(rest) \in Event
      /\ <<Head(rest)>> \in Seq(Event)
      /\ rest = <<Head(rest)>> \o Tail(rest)
  BY <1>2, HeadTailJoined
<1>4. (p \o <<Head(rest)>>) \o Tail(rest) = p \o (<<Head(rest)>> \o Tail(rest))
  BY <1>3, ConcatAssociative
<1>5. l = (p \o <<Head(r)>>) \o Tail(rest)
  BY <1>1, <1>2, <1>3, <1>4
<1> QED
  BY <1>2, <1>3, <1>5 DEF Faithful

-----------------------------------------------------------------------------
(* The invariant *)

\* WatchFaithful is inductive as it stands, once the variables have their types.
IInv == TypeOK /\ WatchFaithful

\* The constants, in the forms the proofs use.
LEMMA Keys ==
  /\ ServiceKey \subseteq Key
  /\ \A k \in Key, a \in {"put", "delete"} : [key |-> k, action |-> a] \in Event
BY DEF ServiceKey, Event

LEMMA InitInv == Init => IInv
<1> SUFFICES ASSUME Init PROVE IInv
  OBVIOUS
<1>1. <<>> \in Seq(Event) /\ Len(<<>>) = 0
  BY EmptySeq
<1>2. TypeOK
  <2>1. writes \in 0 .. MaxWrites /\ Len(ring) <= RingSize /\ Len(hand) <= 1 /\ Len(out) <= OutSize
    BY <1>1, RegistryAssumption DEF Init
  <2>2. db \in [Key -> Value]
    BY DEF Init, Value
  <2> QED
    BY <1>1, <2>1, <2>2 DEF Init, TypeOK
<1>3. Passed = <<>>
  BY <1>1, ConcatEmptySeq DEF Init, Passed
<1>4. Faithful(Passed, log, ring)
  BY <1>1, <1>3, ConcatEmptySeq, ChosenOfNone DEF Init, Faithful
<1> QED
  BY <1>2, <1>4, NowFaithful DEF IInv

\* A step that leaves the watch alone keeps its part of the invariant.
LEMMA Apart ==
  ASSUME IInv, TypeOK', UNCHANGED <<ring, hand, out, history>>
  PROVE  IInv'
BY DEF IInv, WatchFaithful, history

\* A write adds an event behind the others, and may drop the first.
LEMMA WriteInv ==
  ASSUME IInv, NEW k \in ServiceKey, NEW a \in {"put", "delete"}, Write(k, a)
  PROVE  IInv'
<1> DEFINE e == [key |-> k, action |-> a]
<1>1. /\ open' = open /\ cancelled' = cancelled /\ forwarder' = forwarder
      /\ hand' = hand /\ out' = out /\ received' = received
      /\ writes < MaxWrites /\ writes' = writes + 1
      /\ db' = [db EXCEPT ![k] = IF a = "put" THEN "record" ELSE "none"]
      /\ Emit(e)
  BY DEF Write
<1>2. /\ db \in [Key -> Value] /\ writes \in 0 .. MaxWrites
      /\ {open, cancelled, dropped} \subseteq BOOLEAN
      /\ forwarder \in {"off", "on", "ended"}
      /\ ring \in Seq(Event) /\ hand \in Seq(Event) /\ out \in Seq(Event)
      /\ received \in Seq(Event) /\ log \in Seq(Event)
      /\ Len(ring) <= RingSize /\ Len(hand) <= 1 /\ Len(out) <= OutSize
  BY DEF IInv, TypeOK
<1>3. e \in Event
  BY Keys
<1>4. db' \in [Key -> Value]
  BY <1>1, <1>2, Keys DEF Value
<1>5. writes' \in 0 .. MaxWrites
  BY <1>1, <1>2, RegistryAssumption
<1>6. Passed' = Passed /\ Passed \in Seq(Event)
  <2>1. Passed' = Passed
    BY <1>1 DEF Passed
  <2>2. received \o out \in Seq(Event)
    BY <1>2, ConcatProperties
  <2> QED
    BY <1>2, <2>1, <2>2, ConcatProperties DEF Passed
<1> HIDE DEF e
<1>7. CASE forwarder # "on"
  <2>1. UNCHANGED <<ring, log, dropped>>
    BY <1>1, <1>7 DEF Emit
  <2>2. TypeOK'
    BY <1>1, <1>2, <1>4, <1>5, <2>1 DEF TypeOK
  <2> QED
    BY <1>1, <2>1, <2>2, Apart DEF history
<1>8. CASE forwarder = "on"
  <2> DEFINE kept == IF Len(ring) = RingSize THEN Tail(ring) ELSE ring
  <2>1. /\ ring' = Append(kept, e)
        /\ dropped' = (dropped \/ (Len(ring) = RingSize /\ Concerns(Head(ring))))
        /\ log' = IF Concerns(e) THEN Append(log, e) ELSE log
    BY <1>1, <1>8 DEF Emit
  <2>2. Len(ring) = RingSize => ring # <<>>
    BY <1>2, EmptySeq, RegistryAssumption
  <2>3. kept \in Seq(Event) /\ Len(kept) + 1 <= RingSize
    <3>1. CASE Len(ring) = RingSize
      <4>1. Tail(ring) \in Seq(Event) /\ Len(Tail(ring)) = Len(ring) - 1
        BY <1>2, <2>2, <3>1, HeadTailProperties
      <4> QED
        BY <3>1, <4>1, RegistryAssumption
    <3>2. CASE Len(ring) # RingSize
      <4>1. Len(ring) \in Nat
        BY <1>2, LenProperties
      <4> QED
        BY <1>2, <3>2, <4>1, RegistryAssumption
    <3> QED
      BY <3>1, <3>2
  <2>4. ~dropped' => Faithful(Passed, log, kept)
    <3> SUFFICES ASSUME ~dropped' PROVE Faithful(Passed, log, kept)
      OBVIOUS
    <3>1. ~dropped /\ (Len(ring) = RingSize => ~Concerns(Head(ring)))
      BY <2>1
    <3>2. Faithful(Passed, log, ring)
      BY <3>1, NowFaithful DEF IInv
    <3>3. CASE Len(ring) = RingSize
      BY <1>2, <2>2, <3>1, <3>2, <3>3, FaithfulPassOver
    <3>4. CASE Len(ring) # RingSize
      BY <3>2, <3>4
    <3> QED
      BY <3>3, <3>4
  <2> HIDE DEF kept
  <2>5. ring' \in Seq(Event) /\ Len(ring') <= RingSize
    <3>1. Append(kept, e) \in Seq(Event) /\ Len(Append(kept, e)) = Len(kept) + 1
      BY <1>3, <2>3, AppendProperties
    <3> QED
      BY <2>1, <2>3, <3>1
  <2>6. log' \in Seq(Event)
    BY <1>2, <1>3, <2>1, AppendProperties
  <2>7. dropped' \in BOOLEAN
    BY <2>1
  <2>8. TypeOK'
    BY <1>1, <1>2, <1>4, <1>5, <2>5, <2>6, <2>7 DEF TypeOK
  <2>9. ~dropped' => Faithful(Passed', log', ring')
    <3>1. CASE Concerns(e)
      BY <1>2, <1>3, <1>6, <2>1, <2>3, <2>4, <3>1, FaithfulConcern
    <3>2. CASE ~Concerns(e)
      BY <1>3, <1>6, <2>1, <2>3, <2>4, <3>2, FaithfulOther
    <3> QED
      BY <3>1, <3>2
  <2>10. WatchFaithful'
    BY <1>6, <2>8, <2>9, ThenFaithful
  <2> QED
    BY <2>8, <2>10 DEF IInv
<1> QED
  BY <1>7, <1>8

\* The event taken from the ring is passed on or passed over.
LEMMA ForwardInv ==
  ASSUME IInv, Forward
  PROVE  IInv'
<1>1. /\ UNCHANGED <<dbVars, cancelled, forwarder, out, history>>
      /\ hand = <<>> /\ ring # <<>>
      /\ hand' = IF Concerns(Head(ring)) THEN <<Head(ring)>> ELSE <<>>
      /\ ring' = Tail(ring)
  BY DEF Forward
<1>2. TypeOK
  BY DEF IInv
<1>3. /\ ring \in Seq(Event) /\ received \in Seq(Event) /\ out \in Seq(Event)
      /\ Len(ring) <= RingSize /\ <<>> \in Seq(Event) /\ Len(<<>>) = 0
  BY <1>2, EmptySeq DEF TypeOK
<1>4. Head(ring) \in Event /\ Tail(ring) \in Seq(Event) /\ Len(Tail(ring)) = Len(ring) - 1
  BY <1>1, <1>3, HeadTailProperties
<1>5. <<Head(ring)>> \in Seq(Event) /\ Len(<<Head(ring)>>) = 1
  BY <1>4
<1>6. Len(Tail(ring)) <= RingSize
  <2>1. Len(ring) \in Nat
    BY <1>3, LenProperties
  <2> QED
    BY <1>3, <1>4, <2>1, RegistryAssumption
<1>7. hand' \in Seq(Event) /\ Len(hand') <= 1
  BY <1>1, <1>3, <1>5
<1>8. TypeOK'
  BY <1>1, <1>2, <1>4, <1>6, <1>7 DEF TypeOK, dbVars, history
<1>9. /\ received \o out \in Seq(Event) /\ Passed = received \o out
      /\ Passed' = (received \o out) \o hand'
  <2>1. received \o out \in Seq(Event)
    BY <1>3, ConcatProperties
  <2> QED
    BY <1>1, <2>1, ConcatEmptySeq DEF Passed, history
<1>10. Passed' \in Seq(Event)
  BY <1>7, <1>9, ConcatProperties
<1>11. ASSUME ~dropped'
       PROVE  Faithful(Passed', log', ring')
  <2>1. Faithful(Passed, log, ring) /\ log' = log
    BY <1>1, <1>2, <1>11, NowFaithful DEF IInv, history
  <2>2. CASE Concerns(Head(ring))
    BY <1>1, <1>3, <1>9, <2>1, <2>2, FaithfulTaken
  <2>3. CASE ~Concerns(Head(ring))
    <3>1. Passed' = Passed
      BY <1>1, <1>9, <2>3, ConcatEmptySeq
    <3> QED
      BY <1>1, <1>3, <2>1, <2>3, <3>1, FaithfulPassOver
  <2> QED
    BY <2>2, <2>3
<1> QED
  BY <1>8, <1>10, <1>11, ThenFaithful DEF IInv

\* What is passed on is the same wherever on the way it is.
LEMMA OnTheWay ==
  ASSUME IInv, TypeOK', Passed' = Passed, UNCHANGED <<ring, log, dropped>>
  PROVE  IInv'
<1>1. Passed' \in Seq(Event)
  BY PassedType DEF IInv
<1>2. ~dropped' => Faithful(Passed', log', ring')
  BY NowFaithful DEF IInv
<1> QED
  BY <1>1, <1>2, ThenFaithful DEF IInv

LEMMA SendInv ==
  ASSUME IInv, Send
  PROVE  IInv'
<1>1. /\ UNCHANGED <<dbVars, cancelled, forwarder, ring, history>>
      /\ Len(out) < OutSize /\ out' = out \o hand /\ hand' = <<>>
  BY DEF Send
<1>2. TypeOK
  BY DEF IInv
<1>3. /\ received \in Seq(Event) /\ out \in Seq(Event) /\ hand \in Seq(Event)
      /\ Len(hand) <= 1 /\ <<>> \in Seq(Event) /\ Len(<<>>) = 0
  BY <1>2, EmptySeq DEF TypeOK
<1>4. out' \in Seq(Event) /\ Len(out') = Len(out) + Len(hand)
  BY <1>1, <1>3, ConcatProperties
<1>5. Len(out') <= OutSize
  <2>1. Len(out) \in Nat /\ Len(hand) \in Nat
    BY <1>3, LenProperties
  <2> QED
    BY <1>1, <1>3, <1>4, <2>1, RegistryAssumption
<1>6. TypeOK'
  BY <1>1, <1>2, <1>3, <1>4, <1>5 DEF TypeOK, dbVars, history
<1>7. Passed' = Passed
  <2>1. received \o (out \o hand) \in Seq(Event)
    BY <1>1, <1>3, <1>4, ConcatProperties
  <2>2. Passed' = (received \o (out \o hand)) \o <<>>
    BY <1>1 DEF Passed, history
  <2>3. Passed' = received \o (out \o hand)
    BY <2>1, <2>2, ConcatEmptySeq
  <2> QED
    BY <1>3, <2>3, ConcatAssociative DEF Passed
<1> QED
  BY <1>1, <1>6, <1>7, OnTheWay DEF history

LEMMA ReceiveInv ==
  ASSUME IInv, Receive
  PROVE  IInv'
<1>1. /\ UNCHANGED <<dbVars, cancelled, forwarder, ring, hand, log, dropped>>
      /\ out # <<>> /\ received' = Append(received, Head(out)) /\ out' = Tail(out)
  BY DEF Receive
<1>2. TypeOK
  BY DEF IInv
<1>3. received \in Seq(Event) /\ out \in Seq(Event) /\ Len(out) <= OutSize
  BY <1>2 DEF TypeOK
<1>4. /\ Head(out) \in Event /\ Tail(out) \in Seq(Event) /\ Len(Tail(out)) = Len(out) - 1
      /\ <<Head(out)>> \in Seq(Event) /\ out = <<Head(out)>> \o Tail(out)
  BY <1>1, <1>3, HeadTailProperties, HeadTailJoined
<1>5. Len(out') <= OutSize
  <2>1. Len(out) \in Nat
    BY <1>3, LenProperties
  <2> QED
    BY <1>1, <1>3, <1>4, <2>1, RegistryAssumption
<1>6. received' \in Seq(Event) /\ received' = received \o <<Head(out)>>
  BY <1>1, <1>3, <1>4, AppendProperties, AppendIsConcat
<1>7. TypeOK'
  BY <1>1, <1>2, <1>4, <1>5, <1>6 DEF TypeOK, dbVars
<1>8. received' \o out' = received \o out
  <2>1. (received \o <<Head(out)>>) \o Tail(out) = received \o (<<Head(out)>> \o Tail(out))
    BY <1>3, <1>4, ConcatAssociative
  <2> QED
    BY <1>1, <1>4, <1>6, <2>1
<1>9. Passed' = Passed
  BY <1>1, <1>8 DEF Passed
<1> QED
  BY <1>1, <1>7, <1>9, OnTheWay

\* After a restart nothing is left of the watch.
LEMMA OpenInv ==
  ASSUME IInv, OpenRoseDB
  PROVE  IInv'
<1>1. <<>> \in Seq(Event) /\ Len(<<>>) = 0
  BY EmptySeq
<1>2. 0 <= RingSize /\ 0 <= OutSize /\ 0 <= 1
  BY RegistryAssumption
<1>3. TypeOK'
  BY <1>1, <1>2 DEF IInv, TypeOK, OpenRoseDB
<1>4. Passed' = <<>>
  BY <1>1, ConcatEmptySeq DEF OpenRoseDB, Passed
<1>5. Faithful(Passed', log', ring')
  BY <1>1, <1>4, ConcatEmptySeq, ChosenOfNone DEF OpenRoseDB, Faithful
<1> QED
  BY <1>1, <1>3, <1>4, <1>5, ThenFaithful DEF IInv

\* Steps of the database and of the goroutine that move no event.
LEMMA AsideInv ==
  ASSUME IInv,
         \/ WatchDesired \/ ForwarderEnds \/ Cancel \/ Close
         \/ \E k \in Key, v \in Value : Dump(k, v)
  PROVE  IInv'
<1>1. CASE WatchDesired \/ ForwarderEnds \/ Cancel \/ Close
  <2>1. UNCHANGED <<db, writes, ring, hand, out, history>>
    BY <1>1 DEF WatchDesired, ForwarderEnds, Cancel, Close, dbVars
  <2>2. /\ open' \in BOOLEAN /\ cancelled' \in BOOLEAN
        /\ forwarder' \in {"off", "on", "ended"}
    BY <1>1 DEF IInv, TypeOK, WatchDesired, ForwarderEnds, Cancel, Close, dbVars
  <2>3. TypeOK'
    BY <2>1, <2>2 DEF IInv, TypeOK, history
  <2> QED
    BY <2>1, <2>3, Apart
<1>2. ASSUME NEW k \in Key, NEW v \in Value, Dump(k, v)
      PROVE  IInv'
  <2>1. /\ UNCHANGED <<open, cancelled, forwarder, ring, hand, out, history>>
        /\ writes < MaxWrites /\ writes' = writes + 1 /\ db' = [db EXCEPT ![k] = v]
    BY <1>2 DEF Dump
  <2>2. writes' \in 0 .. MaxWrites
    BY <2>1, RegistryAssumption DEF IInv, TypeOK
  <2>3. db' \in [Key -> Value]
    BY <2>1 DEF IInv, TypeOK
  <2>4. TypeOK'
    BY <2>1, <2>2, <2>3 DEF IInv, TypeOK, history
  <2> QED
    BY <2>1, <2>4, Apart
<1> QED
  BY <1>1, <1>2

LEMMA NextInv ==
  ASSUME IInv, [Next]_vars
  PROVE  IInv'
<1>1. CASE UNCHANGED vars
  BY <1>1, Apart DEF IInv, TypeOK, vars, dbVars, history
<1>2. CASE Next
  BY <1>2, WriteInv, ForwardInv, SendInv, ReceiveInv, OpenInv, AsideInv DEF Next
<1> QED
  BY <1>1, <1>2

\* The inductive invariant holds in every reachable state.
THEOREM Invariant == Spec => []IInv
<1>1. IInv /\ [Next]_vars => IInv'
  BY NextInv
<1> QED
  BY InitInv, <1>1, PTL DEF Spec

\* The variables keep their types: neither ring nor channel holds more than its size.
THEOREM TypeCorrect == Spec => []TypeOK
<1>1. IInv => TypeOK
  BY DEF IInv
<1> QED
  BY <1>1, Invariant, PTL

(***************************************************************************)
(* For any sizes of the ring and of the channel, the receiver gets the     *)
(* events of desired states in order and completely, until one is dropped. *)
(***************************************************************************)
THEOREM WatchIsFaithful == Spec => []WatchFaithful
<1>1. IInv => WatchFaithful
  BY DEF IInv
<1> QED
  BY <1>1, Invariant, PTL

-----------------------------------------------------------------------------
(* Lists *)

\* The scan from the prefix on meets the keys that have it, and stops behind them.
LEMMA ScanFindsKind ==
  ASSUME TypeOK, NEW kind \in {"desired", "status"}
  PROVE  AscendPrefix(kind) = {k \in Key : k.kind = kind /\ db[k] # "none"}
<1> DEFINE places == GreaterOrEqual(kind)
<1>1. /\ DOMAIN KeyOrder = 1 .. Len(KeyOrder) /\ Len(KeyOrder) \in Nat
      /\ \A i \in DOMAIN KeyOrder : KeyOrder[i] \in Key
      /\ \A k \in Key : \E i \in DOMAIN KeyOrder : KeyOrder[i] = k
  BY RegistryAssumption, LenProperties DEF Key, ToSet
<1>2. \A i \in DOMAIN KeyOrder : 1 .. i \subseteq DOMAIN KeyOrder /\ i \in 1 .. i /\ i <= i
  BY <1>1
<1>3. \A i : i \in places <=> /\ i \in DOMAIN KeyOrder /\ db[KeyOrder[i]] # "none"
                              /\ \E j \in 1 .. i : KeyOrder[j].kind = kind
  BY DEF GreaterOrEqual
<1>4. \A k : k \in AscendPrefix(kind) <=>
               \E i \in places : /\ KeyOrder[i] = k
                                 /\ \A j \in places : j <= i => KeyOrder[j].kind = kind
  BY DEF AscendPrefix
<1> HIDE DEF places
<1>5. ASSUME NEW k \in AscendPrefix(kind)
      PROVE  k \in Key /\ k.kind = kind /\ db[k] # "none"
  <2>1. PICK i \in places : /\ KeyOrder[i] = k
                            /\ \A j \in places : j <= i => KeyOrder[j].kind = kind
    BY <1>4, <1>5
  <2> QED
    BY <1>1, <1>2, <1>3, <2>1
<1>6. ASSUME NEW k \in Key, k.kind = kind, db[k] # "none"
      PROVE  k \in AscendPrefix(kind)
  <2>1. PICK i \in DOMAIN KeyOrder : KeyOrder[i] = k
    BY <1>1
  <2>2. i \in places
    BY <1>2, <1>3, <1>6, <2>1
  <2>3. ASSUME NEW j \in places, j <= i
        PROVE  KeyOrder[j].kind = kind
    <3>1. j \in DOMAIN KeyOrder
      BY <1>3
    <3>2. PICK f \in 1 .. j : KeyOrder[f].kind = kind
      BY <1>3
    <3>3. f \in DOMAIN KeyOrder /\ f <= j
      BY <1>1, <1>2, <3>1
    <3> QED
      BY <1>6, <2>1, <2>3, <3>1, <3>2, <3>3, RegistryAssumption
  <2> QED
    BY <1>4, <2>1, <2>2, <2>3
<1> QED
  BY <1>5, <1>6

(***************************************************************************)
(* Whatever keys there are, as long as those with a common prefix follow   *)
(* one another, each list has the records of its kind, or fails for one.   *)
(***************************************************************************)
THEOREM ListsAreSeparate == Spec => []ListsSeparate
<1>1. TypeOK => ListsSeparate
  <2> SUFFICES ASSUME TypeOK, NEW kind \in {"desired", "status"}
               PROVE  LET mine == {k \in Key : k.kind = kind /\ db[k] # "none"}
                      IN  /\ List(kind).ok <=> \A k \in mine : db[k] = "record"
                          /\ List(kind).ok => List(kind).keys = mine
    BY DEF ListsSeparate
  <2> DEFINE mine == {k \in Key : k.kind = kind /\ db[k] # "none"}
  <2>1. AscendPrefix(kind) = mine
    BY ScanFindsKind
  <2>2. \A k \in mine : db[k] \in {"record", "garbage"}
    BY DEF TypeOK, Value
  <2> HIDE DEF mine
  <2>3. List(kind) = IF \E k \in mine : db[k] = "garbage" THEN [ok |-> FALSE, keys |-> {}]
                                                         ELSE [ok |-> TRUE, keys |-> mine]
    BY <2>1 DEF List
  <2>4. /\ List(kind).ok <=> \A k \in mine : db[k] = "record"
        /\ List(kind).ok => List(kind).keys = mine
    BY <2>2, <2>3
  <2> QED
    BY <2>4 DEF mine
<1> QED
  BY <1>1, TypeCorrect, PTL
=============================================================================
