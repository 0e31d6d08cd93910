------------------------ MODULE ServiceUpdateProofs -------------------------
(***************************************************************************)
(* Proofs about ServiceUpdate for any names, values, number of updates and *)
(* of edits by others: what a change of the factor may undo, what becomes  *)
(* of the image's configuration, and which valid names can be created.     *)
(***************************************************************************)
EXTENDS ServiceUpdate, SequenceTheorems, WellFoundedInduction, TLAPS

\* The update is between its reading and its end.
UnderWay(t) == phase[t] \in {"read", "sent"}

\* What an update that can still arrive would change has raced with it, or was empty.
ChangesOnlyRacing ==
  \A t \in Tries : UnderWay(t) /\ readId[t] = id =>
    \A x \in DOMAIN Absent :
      copy[t][x] = content[x] \/ x \in raced[t] \/ content[x] = Blank

\* A configuration as the service got it from its image.
FromImage(c) == c # Blank /\ c.other = IF image.other = Blank THEN Default ELSE image.other

\* While nobody has edited it, the service and all copies of it have that.
CopiesFromImage ==
  edits = 0 =>
    /\ id # 0 => FromImage(content.config)
    /\ \A t \in Tries : UnderWay(t) => FromImage(copy[t].config)

\* Only a service that exists is read.
ReadExists == \A t \in Tries : UnderWay(t) => id # 0

\* The inductive invariant.
IInv == TypeOK /\ ChangesOnlyRacing /\ CopiesFromImage /\ ReadExists

-----------------------------------------------------------------------------
(* What is known of a service *)

\* The parts of a service, one by one.
LEMMA ContentParts ==
  /\ DOMAIN Absent = {"policy", "action", "config", "rest"}
  /\ DOMAIN MayBe = DOMAIN Absent
  /\ \A p \in Content : DOMAIN p = DOMAIN Absent /\ \A x \in DOMAIN Absent : p[x] \in MayBe[x]
  /\ \A p \in Content, x \in DOMAIN Absent : \A v \in MayBe[x] : [p EXCEPT ![x] = v] \in Content
  /\ Absent \in Content
<1>1. /\ DOMAIN Absent = {"policy", "action", "config", "rest"}
      /\ DOMAIN MayBe = {"policy", "action", "config", "rest"}
  BY DEF Absent, MayBe
<1>2. ASSUME NEW p \in Content
      PROVE  /\ DOMAIN p = DOMAIN Absent
             /\ \A x \in DOMAIN Absent : p[x] \in MayBe[x]
  <2>1. /\ DOMAIN p = {"policy", "action", "config", "rest"}
        /\ p.policy \in MayBe.policy /\ p.action \in MayBe.action
        /\ p.config \in MayBe.config /\ p.rest \in MayBe.rest
    BY DEF Content
  <2> QED
    BY <1>1, <2>1
<1>3. ASSUME NEW p \in Content, NEW x \in DOMAIN Absent, NEW v \in MayBe[x]
      PROVE  [p EXCEPT ![x] = v] \in Content
  <2>1. CASE x = "policy"
    BY <2>1 DEF Content
  <2>2. CASE x = "action"
    BY <2>2 DEF Content
  <2>3. CASE x = "config"
    BY <2>3 DEF Content
  <2>4. CASE x = "rest"
    BY <2>4 DEF Content
  <2> QED
    BY <1>1, <2>1, <2>2, <2>3, <2>4
<1>4. Absent \in Content
  BY DEF Absent, Content, MayBe, Part
<1> QED
  BY <1>1, <1>2, <1>3, <1>4

\* What the client fills in makes a configuration.
LEMMA EnsuredConfig ==
  ASSUME NEW c \in Config \union {Blank}
  PROVE  /\ EnsureDefaultImageConfig(c) \in Config
         /\ EnsureDefaultImageConfig(c) # Blank
         /\ EnsureDefaultImageConfig(c).other =
              IF c = Blank \/ c.other = Blank THEN Default ELSE c.other
<1>1. EnsureDefaultImageConfig(c).other = IF c = Blank \/ c.other = Blank THEN Default ELSE c.other
  BY DEF EnsureDefaultImageConfig
<1>2. c # Blank => c.other \in Part
  BY DEF Config
<1>3. EnsureDefaultImageConfig(c) \in Config
  BY <1>2 DEF EnsureDefaultImageConfig, Config, Part
<1> QED
  BY <1>1, <1>3, UpdateAssumption

\* The request made of a detail differs from it only where that was empty.
LEMMA Completed ==
  ASSUME NEW p \in Content
  PROVE  /\ WithDefaults(p) \in Content
         /\ \A x \in DOMAIN Absent : WithDefaults(p)[x] = p[x] \/ p[x] = Blank
         /\ p.config # Blank => WithDefaults(p).config = p.config
<1> DEFINE q == WithDefaults(p)
<1>1. /\ p.policy \in Part /\ p.action \in Part /\ p.config \in Config \union {Blank}
      /\ p.rest \in MayBe.rest
      /\ DOMAIN p = {"policy", "action", "config", "rest"}
  BY DEF Content, MayBe
<1>2. /\ q.policy = IF p.policy = Blank THEN Default ELSE p.policy
      /\ q.action = IF p.action = Blank THEN Default ELSE p.action
      /\ q.config = IF p.config = Blank THEN EnsureDefaultImageConfig(Blank) ELSE p.config
      /\ q.rest = p.rest
      /\ q = [policy |-> q.policy, action |-> q.action, config |-> q.config, rest |-> q.rest]
  <2>1. PICK a, b, c, d : p = [policy |-> a, action |-> b, config |-> c, rest |-> d]
    BY DEF Content
  <2> DEFINE p1 == [p EXCEPT !.policy = IF p.policy = Blank THEN Default ELSE p.policy]
             p2 == [p1 EXCEPT !.action = IF p.action = Blank THEN Default ELSE p.action]
             p3 == [p2 EXCEPT !.config = IF p.config = Blank
                                           THEN EnsureDefaultImageConfig(Blank) ELSE p.config]
  <2>2. q = p3
    BY Zenon DEF WithDefaults
  <2>3. p1 = [policy |-> IF a = Blank THEN Default ELSE a,
              action |-> b, config |-> c, rest |-> d]
    BY <2>1
  <2> HIDE DEF p1
  <2>4. p2 = [policy |-> IF a = Blank THEN Default ELSE a,
              action |-> IF b = Blank THEN Default ELSE b, config |-> c, rest |-> d]
    BY <2>1, <2>3
  <2> HIDE DEF p2
  <2>5. p3 = [policy |-> IF a = Blank THEN Default ELSE a,
              action |-> IF b = Blank THEN Default ELSE b,
              config |-> IF c = Blank THEN EnsureDefaultImageConfig(Blank) ELSE c,
              rest |-> d]
    BY <2>1, <2>4
  <2> QED
    BY <2>1, <2>2, <2>5
<1>3. q.policy \in Part /\ q.action \in Part /\ q.config \in Config \union {Blank}
  BY <1>1, <1>2, EnsuredConfig DEF Part
<1> HIDE DEF q
<1>4. q \in Content
  BY <1>1, <1>2, <1>3 DEF Content, MayBe
<1>5. \A x \in DOMAIN Absent : q[x] = p[x] \/ p[x] = Blank
  BY <1>2, ContentParts
<1> QED
  BY <1>2, <1>4, <1>5 DEF q

-----------------------------------------------------------------------------
(* The steps *)

\* What ECSM stores under the same id races with every detail read under it.
LEMMA StoreRaces ==
  ASSUME TypeOK, NEW p \in Content, Store(p)
  PROVE  /\ id' \in Nat \ {0} /\ content' = p
         /\ readId \in [Tries -> 0 .. id']
         /\ raced' \in [Tries -> SUBSET DOMAIN Absent]
         /\ \A t \in Tries :
              /\ raced[t] \subseteq raced'[t]
              /\ readId[t] = id' =>
                   /\ readId[t] = id
                   /\ \A x \in DOMAIN Absent : p[x] = content[x] \/ x \in raced'[t]
<1>1. DOMAIN p = DOMAIN Absent
  BY ContentParts
<1>2. Changed(p) = {x \in DOMAIN Absent : p[x] # content[x]}
  BY <1>1 DEF Changed
<1>3. CASE id' = id + 1 /\ raced' = raced
  <2>1. \A t \in Tries : readId[t] \in 0 .. id /\ id \in Nat
    BY DEF TypeOK
  <2> QED
    BY <1>3, <2>1 DEF Store, TypeOK
<1>4. CASE id' = id /\ id # 0 /\ raced' = [t \in Tries |-> raced[t] \union Changed(p)]
  <2>1. raced' \in [Tries -> SUBSET DOMAIN Absent]
    BY <1>2, <1>4 DEF TypeOK
  <2> QED
    BY <1>2, <1>4, <2>1 DEF Store, TypeOK
<1> QED
  BY <1>3, <1>4 DEF Store

\* So no stored change is one that an update under way would undo unnoticed.
LEMMA StoreKeepsRacing ==
  ASSUME TypeOK, ChangesOnlyRacing, NEW p \in Content, Store(p), UNCHANGED <<readId, copy>>,
         \A t \in Tries : UnderWay(t)' => UnderWay(t)
  PROVE  ChangesOnlyRacing'
<1> SUFFICES ASSUME NEW t \in Tries, UnderWay(t)', readId[t] = id', NEW x \in DOMAIN Absent
             PROVE  copy[t][x] = content'[x] \/ x \in raced'[t] \/ content'[x] = Blank
  BY DEF ChangesOnlyRacing
<1>1. /\ content' = p /\ readId[t] = id /\ raced[t] \subseteq raced'[t]
      /\ p[x] = content[x] \/ x \in raced'[t]
  BY StoreRaces
<1>2. copy[t][x] = content[x] \/ x \in raced[t] \/ content[x] = Blank
  BY <1>1 DEF ChangesOnlyRacing
<1> QED
  BY <1>1, <1>2

\* At first there is no service, and no update under way.
LEMMA InitInv == Init => IInv
<1> SUFFICES ASSUME Init PROVE IInv
  OBVIOUS
<1>1. image \in Config \union {Blank}
  BY DEF Init, Config, Part
<1>2. TypeOK
  <2>1. /\ id \in Nat /\ content \in Content /\ edits \in 0 .. MaxEdits
        /\ phase \in [Tries -> {"none", "read", "sent", "over"}]
        /\ readId \in [Tries -> 0 .. id] /\ copy \in [Tries -> Content]
        /\ raced \in [Tries -> SUBSET DOMAIN Absent]
    BY ContentParts, UpdateAssumption DEF Init
  <2> QED
    BY <1>1, <2>1 DEF TypeOK
<1>3. ChangesOnlyRacing /\ CopiesFromImage /\ ReadExists
  BY DEF Init, ChangesOnlyRacing, CopiesFromImage, ReadExists, UnderWay
<1> QED
  BY <1>2, <1>3 DEF IInv

\* A new service has what its image configures.
LEMMA CreateInv ==
  ASSUME IInv, CreateService
  PROVE  IInv'
<1> USE DEF IInv
<1> DEFINE p == [policy |-> Default, action |-> Default,
                 config |-> EnsureDefaultImageConfig(image), rest |-> Default]
<1>1. /\ id = 0 /\ image # Blank /\ Store(p)
      /\ UNCHANGED <<image, phase, readId, copy, edits>>
  BY DEF CreateService, GetImageConfig, updateVars
<1>2. /\ EnsureDefaultImageConfig(image) \in Config
      /\ FromImage(p.config)
  BY <1>1, EnsuredConfig DEF TypeOK, FromImage
<1>3. p \in Content
  BY <1>2 DEF Content, MayBe, Part
<1> HIDE DEF p
<1>4. TypeOK'
  BY <1>1, <1>3, StoreRaces DEF TypeOK
<1>5. \A t \in Tries : ~UnderWay(t) /\ ~UnderWay(t)'
  BY <1>1 DEF ReadExists, UnderWay
<1>6. ChangesOnlyRacing' /\ ReadExists'
  BY <1>5 DEF ChangesOnlyRacing, ReadExists
<1>7. CopiesFromImage'
  BY <1>1, <1>2, <1>3, <1>5, StoreRaces DEF CopiesFromImage, FromImage
<1> QED
  BY <1>4, <1>6, <1>7

\* A detail that has just been read differs from nothing.
LEMMA GetDetailInv ==
  ASSUME IInv, NEW t \in Tries, GetDetail(t)
  PROVE  IInv'
<1> USE DEF IInv
<1>1. /\ id # 0 /\ UNCHANGED <<id, content, image, edits>>
      /\ phase'[t] = "read" /\ readId'[t] = id /\ copy'[t] = content
      /\ \A u \in Tries \ {t} : /\ phase'[u] = phase[u] /\ readId'[u] = readId[u]
                                /\ copy'[u] = copy[u] /\ raced'[u] = raced[u]
  BY DEF GetDetail, TypeOK
<1>2. TypeOK'
  <2>1. /\ phase' \in [Tries -> {"none", "read", "sent", "over"}]
        /\ readId' \in [Tries -> 0 .. id']
        /\ copy' \in [Tries -> Content]
        /\ raced' \in [Tries -> SUBSET DOMAIN Absent]
    BY DEF GetDetail, TypeOK
  <2> QED
    BY <1>1, <2>1 DEF TypeOK
<1>3. ChangesOnlyRacing'
  BY <1>1 DEF ChangesOnlyRacing, UnderWay
<1>4. CopiesFromImage'
  BY <1>1 DEF CopiesFromImage, FromImage, UnderWay
<1>5. ReadExists'
  BY <1>1 DEF ReadExists, UnderWay
<1> QED
  BY <1>2, <1>3, <1>4, <1>5

\* What is filled in was empty.
LEMMA SendUpdateInv ==
  ASSUME IInv, NEW t \in Tries, SendUpdate(t)
  PROVE  IInv'
<1> USE DEF IInv
<1>1. /\ UNCHANGED <<id, content, image, readId, raced, edits>>
      /\ phase[t] = "read" /\ copy'[t] = WithDefaults(copy[t])
      /\ \A u \in Tries \ {t} : phase'[u] = phase[u] /\ copy'[u] = copy[u]
  BY DEF SendUpdate, TypeOK
<1>2. /\ copy[t] \in Content /\ WithDefaults(copy[t]) \in Content
      /\ \A x \in DOMAIN Absent : WithDefaults(copy[t])[x] = copy[t][x] \/ copy[t][x] = Blank
      /\ copy[t].config # Blank => WithDefaults(copy[t]).config = copy[t].config
  BY Completed DEF TypeOK
<1>3. TypeOK'
  <2>1. /\ phase' \in [Tries -> {"none", "read", "sent", "over"}]
        /\ copy' \in [Tries -> Content]
    BY <1>2 DEF SendUpdate, TypeOK
  <2> QED
    BY <1>1, <2>1 DEF TypeOK
<1>4. ChangesOnlyRacing'
  <2> SUFFICES ASSUME NEW u \in Tries, UnderWay(u)', readId[u] = id, NEW x \in DOMAIN Absent
               PROVE  copy'[u][x] = content[x] \/ x \in raced[u] \/ content[x] = Blank
    BY <1>1 DEF ChangesOnlyRacing
  <2>1. UnderWay(u)
    BY <1>1 DEF UnderWay
  <2>2. copy[u][x] = content[x] \/ x \in raced[u] \/ content[x] = Blank
    BY <2>1 DEF ChangesOnlyRacing
  <2>3. copy'[u][x] = copy[u][x] \/ copy[u][x] = Blank
    BY <1>1, <1>2
  <2> QED
    BY <2>2, <2>3
<1>5. CopiesFromImage'
  BY <1>1, <1>2 DEF CopiesFromImage, FromImage, UnderWay
<1>6. ReadExists'
  BY <1>1 DEF ReadExists, UnderWay
<1> QED
  BY <1>3, <1>4, <1>5, <1>6

\* The request is stored as it was made, under the id it names.
LEMMA UpdateArrivesInv ==
  ASSUME IInv, NEW t \in Tries, UpdateArrives(t)
  PROVE  IInv'
<1> USE DEF IInv
<1>1. /\ phase[t] = "sent" /\ Store(copy[t]) /\ copy[t] \in Content
      /\ phase' = [phase EXCEPT ![t] = "over"] /\ UNCHANGED <<image, readId, copy, edits>>
  BY DEF UpdateArrives, TypeOK
<1>2. \A u \in Tries : UnderWay(u)' => UnderWay(u)
  BY <1>1 DEF UnderWay, TypeOK
<1>3. TypeOK'
  <2>1. phase' \in [Tries -> {"none", "read", "sent", "over"}]
    BY <1>1 DEF TypeOK
  <2> QED
    BY <1>1, <2>1, StoreRaces DEF TypeOK
<1>4. ChangesOnlyRacing'
  BY <1>1, <1>2, StoreKeepsRacing
<1>5. CopiesFromImage'
  <2>1. content' = copy[t] /\ UnderWay(t)
    BY <1>1, StoreRaces DEF UnderWay
  <2> QED
    BY <1>1, <1>2, <2>1 DEF CopiesFromImage, FromImage
<1>6. ReadExists'
  BY <1>1, StoreRaces DEF ReadExists
<1> QED
  BY <1>3, <1>4, <1>5, <1>6

\* An update that ends otherwise leaves nothing behind.
LEMMA UpdateFailsInv ==
  ASSUME IInv, (\E t \in Tries : UpdateFails(t)) \/ UNCHANGED vars
  PROVE  IInv' /\ UNCHANGED <<id, content>>
<1> USE DEF IInv
<1>1. /\ phase' \in [Tries -> {"none", "read", "sent", "over"}]
      /\ \A u \in Tries : UnderWay(u)' => UnderWay(u)
      /\ UNCHANGED <<id, content, image, readId, copy, raced, edits>>
  BY DEF UpdateFails, UnderWay, TypeOK, vars
<1>2. TypeOK'
  BY <1>1 DEF TypeOK
<1>3. ChangesOnlyRacing' /\ CopiesFromImage' /\ ReadExists'
  BY <1>1 DEF ChangesOnlyRacing, CopiesFromImage, FromImage, ReadExists
<1> QED
  BY <1>1, <1>2, <1>3

\* An edit by somebody else.
LEMMA EditedInv ==
  ASSUME IInv, NEW x \in DOMAIN MayBe, NEW v \in MayBe[x], Edited(x, v)
  PROVE  IInv'
<1> USE DEF IInv
<1> DEFINE p == [content EXCEPT ![x] = v]
<1>1. /\ Store(p) /\ UNCHANGED <<image, phase, readId, copy>>
      /\ edits \in Nat /\ edits < MaxEdits /\ edits' = edits + 1
  BY DEF Edited, updateVars, TypeOK
<1>2. p \in Content
  BY ContentParts DEF TypeOK
<1> HIDE DEF p
<1>3. TypeOK'
  <2>1. edits' \in 0 .. MaxEdits
    BY <1>1, UpdateAssumption
  <2> QED
    BY <1>1, <1>2, <2>1, StoreRaces DEF TypeOK
<1>4. \A u \in Tries : UnderWay(u)' => UnderWay(u)
  BY <1>1 DEF UnderWay
<1>5. ChangesOnlyRacing'
  BY <1>1, <1>2, <1>4, StoreKeepsRacing
<1>6. CopiesFromImage' /\ ReadExists'
  BY <1>1, <1>2, <1>4, StoreRaces DEF CopiesFromImage, ReadExists
<1> QED
  BY <1>3, <1>5, <1>6

\* Every step preserves the invariant.
LEMMA NextInv == IInv /\ [Next]_vars => IInv'
<1> SUFFICES ASSUME IInv, [Next]_vars PROVE IInv'
  OBVIOUS
<1>1. CASE CreateService
  BY <1>1, CreateInv
<1>2. CASE \E t \in Tries : GetDetail(t) \/ SendUpdate(t) \/ UpdateArrives(t)
  BY <1>2, GetDetailInv, SendUpdateInv, UpdateArrivesInv
<1>3. CASE (\E t \in Tries : UpdateFails(t)) \/ UNCHANGED vars
  BY <1>3, UpdateFailsInv
<1>4. CASE \E x \in DOMAIN MayBe : \E v \in MayBe[x] : Edited(x, v)
  BY <1>4, EditedInv
<1> QED
  BY <1>1, <1>2, <1>3, <1>4 DEF Next

\* The invariant holds in every reachable state.
THEOREM Invariant == Spec => []IInv
  BY InitInv, NextInv, PTL DEF Spec

\* A detail is of an id that ECSM has given, and every request is a whole service.
THEOREM TypeCorrect == Spec => []TypeOK
  BY Invariant, PTL DEF IInv

\* Until somebody edits it, a service has the settings of its image, however often it is scaled.
THEOREM ImageConfigStays == Spec => []ImageConfigKept
<1>1. IInv => ImageConfigKept
  BY DEF IInv, CopiesFromImage, FromImage, ImageConfigKept
<1> QED
  BY <1>1, Invariant, PTL

(***************************************************************************)
(* A change of the factor changes a part of the service back only if that  *)
(* was changed under the same id since the detail was read.                *)
(***************************************************************************)
THEOREM OnlyRacingUndone == Spec => UndoesOnlyRacing
<1> DEFINE Allowed ==
      \A t \in Tries : Arrives(t) => \A x \in Changed(content') : x \in raced[t] \/ content[x] = Blank
<1>1. ASSUME IInv, [Next]_vars
      PROVE  [Allowed]_vars
  <2> SUFFICES ASSUME NEW t \in Tries, Arrives(t), NEW x \in Changed(content')
               PROVE  x \in raced[t] \/ content[x] = Blank
    OBVIOUS
  <2>1. phase[t] = "sent" /\ phase'[t] = "over" /\ <<id, content>>' # <<id, content>>
    BY DEF Arrives
  <2>2. UpdateArrives(t)
    <3>1. CASE \E u \in Tries : UpdateArrives(u)
      BY <1>1, <2>1, <3>1 DEF UpdateArrives, IInv, TypeOK
    <3>2. CASE \E u \in Tries : GetDetail(u) \/ SendUpdate(u)
      BY <1>1, <2>1, <3>2 DEF GetDetail, SendUpdate
    <3>3. CASE (\E u \in Tries : UpdateFails(u)) \/ UNCHANGED vars
      BY <1>1, <2>1, <3>3, UpdateFailsInv
    <3>4. CASE CreateService \/ \E y \in DOMAIN MayBe : \E v \in MayBe[y] : Edited(y, v)
      BY <2>1, <3>4 DEF CreateService, Edited, updateVars
    <3> QED
      BY <1>1, <3>1, <3>2, <3>3, <3>4 DEF Next
  <2>3. content' = copy[t] /\ readId[t] = id /\ UnderWay(t) /\ copy[t] \in Content
    BY <1>1, <2>2 DEF UpdateArrives, Store, UnderWay, IInv, TypeOK
  <2>4. x \in DOMAIN Absent /\ copy[t][x] # content[x]
    BY <2>3, ContentParts DEF Changed
  <2> QED
    BY <1>1, <2>3, <2>4 DEF IInv, ChangesOnlyRacing
<1> QED
  BY <1>1, Invariant, PTL DEF Spec, UndoesOnlyRacing

-----------------------------------------------------------------------------
(* Names and images *)

\* A set of numbers that is not empty has a least one.
LEMMA LeastNumber ==
  ASSUME NEW S, S \subseteq Nat, S # {}
  PROVE  Min(S) \in S /\ \A y \in S : Min(S) <= y
<1>1. \E x \in S : \A y \in S : <<y, x>> \notin OpToRel(<, Nat)
  BY NatLessThanWellFounded, WFMin
<1>2. PICK x \in S : \A y \in S : <<y, x>> \notin OpToRel(<, Nat)
  BY <1>1
<1>3. \A y \in S : y \in Nat /\ x \in Nat
  OBVIOUS
<1>4. \A y \in S : ~(y < x)
  BY <1>2, <1>3 DEF OpToRel
<1>5. \A y \in S : x <= y
  BY <1>3, <1>4
<1> QED
  BY <1>2, <1>5 DEF Min

\* And if it has a bound, a greatest one.
LEMMA GreatestNumber ==
  ASSUME NEW n \in Nat, NEW S, S \subseteq 0 .. n, S # {}
  PROVE  Max(S) \in S /\ \A y \in S : y <= Max(S)
<1> DEFINE T == {n - y : y \in S}
<1>1. \A y \in S : y \in 0 .. n /\ n - y \in Nat
  OBVIOUS
<1>2. T \subseteq Nat /\ T # {}
  BY <1>1
<1>3. PICK z \in T : \A y \in T : z <= y
  BY <1>2, LeastNumber
<1>4. PICK x \in S : z = n - x
  BY <1>3
<1>5. \A y \in S : x >= y
  <2> SUFFICES ASSUME NEW y \in S PROVE x >= y
    OBVIOUS
  <2>1. n - x <= n - y
    BY <1>3, <1>4
  <2>2. n \in Nat /\ x \in 0 .. n /\ y \in 0 .. n
    BY <1>1
  <2> HIDE DEF T
  <2> QED
    BY <2>1, <2>2
<1>6. Max(S) \in S /\ \A y \in S : Max(S) >= y
  BY <1>5 DEF Max
<1> QED
  BY <1>1, <1>6

\* Trimming keeps what is between the first and the last mark that is not white space.
LEMMA TrimEnds ==
  ASSUME NEW s \in Seq(Marks)
  PROVE  \/ TrimText(s) = <<>> /\ \A i \in 1 .. Len(s) : s[i] = " "
         \/ \E a, b \in 1 .. Len(s) :
              /\ a <= b /\ s[a] # " " /\ s[b] # " "
              /\ \A i \in 1 .. Len(s) : s[i] # " " => a <= i /\ i <= b
              /\ TrimText(s) = SubSeq(s, a, b)
<1> DEFINE I == {i \in 1 .. Len(s) : s[i] # " "}
<1>1. Len(s) \in Nat
  BY LenProperties
<1>2. I \subseteq 1 .. Len(s)
  OBVIOUS
<1>3. /\ SelectInSeq(s, LAMBDA x : x # " ") = IF I # {} THEN Min(I) ELSE 0
      /\ SelectLastInSeq(s, LAMBDA x : x # " ") = IF I # {} THEN Max(I) ELSE 0
  BY DEF SelectInSeq, SelectLastInSeq
<1>4. \A i \in 1 .. Len(s) : i \in I <=> s[i] # " "
  OBVIOUS
<1> HIDE DEF I
<1>5. I \subseteq Nat /\ I \subseteq 0 .. Len(s) /\ 0 \notin I
  BY <1>1, <1>2
<1>6. CASE I = {}
  <2>1. TrimText(s) = <<>>
    BY <1>3, <1>6 DEF TrimText
  <2> QED
    BY <1>4, <1>6, <2>1
<1>7. CASE I # {}
  <2>1. Min(I) \in I /\ \A y \in I : Min(I) <= y
    BY <1>5, <1>7, LeastNumber
  <2>2. Max(I) \in I /\ \A y \in I : y <= Max(I)
    BY <1>1, <1>5, <1>7, GreatestNumber
  <2>3. TrimText(s) = SubSeq(s, Min(I), Max(I))
    BY <1>3, <1>5, <1>7, <2>1 DEF TrimText
  <2>4. /\ Min(I) \in 1 .. Len(s) /\ Max(I) \in 1 .. Len(s)
        /\ s[Min(I)] # " " /\ s[Max(I)] # " " /\ Min(I) <= Max(I)
    BY <1>2, <1>4, <2>1, <2>2
  <2>5. \A i \in 1 .. Len(s) : s[i] # " " => Min(I) <= i /\ i <= Max(I)
    BY <1>4, <2>1, <2>2
  <2> QED
    BY <2>3, <2>4, <2>5
<1> QED
  BY <1>6, <1>7

\* The positions of a part of a text, counted from its beginning.
LEMMA Positions ==
  ASSUME NEW n \in Nat, NEW a \in 1 .. n, NEW b \in 1 .. n, a <= b
  PROVE  /\ b - a + 1 \in Nat \ {0}
         /\ a + 1 - 1 = a /\ a + (b - a + 1) - 1 = b
         /\ \A i \in 1 .. b - a + 1 : a + i - 1 \in 1 .. n
OBVIOUS

\* The bounds of a part of a text that is not empty.
LEMMA Bounds ==
  ASSUME NEW n \in Nat, NEW a \in 1 .. n, NEW b \in 1 .. n, a <= b
  PROVE  /\ a \in 1 .. n + 1 /\ b \in 0 .. n /\ a <= b + 1
         /\ \A i \in 1 .. n : a <= i /\ i <= b => i \in a .. b
OBVIOUS

\* The part that reaches from the first to the last is the whole.
LEMMA WholeText ==
  ASSUME NEW n \in Nat \ {0}
  PROVE  /\ 1 \in 1 .. n /\ n \in 1 .. n
         /\ \A a, b \in 1 .. n : a <= 1 /\ n <= b => a = 1 /\ b = n
OBVIOUS

\* What trimming leaves has no white space at its ends, and nothing new in it.
LEMMA Trimmed ==
  ASSUME NEW s \in Seq(Marks)
  PROVE  /\ TrimText(s) \in Seq(Marks)
         /\ \A i \in 1 .. Len(TrimText(s)) : \E j \in 1 .. Len(s) : TrimText(s)[i] = s[j]
         /\ TrimText(s) # <<>> =>
              TrimText(s)[1] # " " /\ TrimText(s)[Len(TrimText(s))] # " "
<1>1. Len(s) \in Nat /\ \A i \in 1 .. Len(s) : s[i] \in Marks
  BY LenProperties
<1>2. CASE TrimText(s) = <<>>
  BY <1>2, EmptySeq
<1>3. ASSUME NEW a \in 1 .. Len(s), NEW b \in 1 .. Len(s),
             a <= b, s[a] # " ", s[b] # " ", TrimText(s) = SubSeq(s, a, b)
      PROVE  /\ TrimText(s) \in Seq(Marks)
             /\ \A i \in 1 .. Len(TrimText(s)) : \E j \in 1 .. Len(s) : TrimText(s)[i] = s[j]
             /\ TrimText(s)[1] # " " /\ TrimText(s)[Len(TrimText(s))] # " "
  <2> DEFINE t == TrimText(s)
             n == b - a + 1
  <2>1. /\ n \in Nat \ {0} /\ a + 1 - 1 = a /\ a + n - 1 = b
        /\ \A i \in 1 .. n : a + i - 1 \in 1 .. Len(s)
    <3>1. a <= b
      BY <1>3
    <3> QED
      BY <1>1, <3>1, Positions
  <2>2. t \in Seq(Marks) /\ Len(t) = n /\ \A i \in 1 .. n : t[i] = s[a + i - 1]
    <3>1. a \in Int /\ b \in Int /\ \A i \in a .. b : s[i] \in Marks
      BY <1>1
    <3>2. /\ SubSeq(s, a, b) \in Seq(Marks)
          /\ Len(SubSeq(s, a, b)) = IF a <= b THEN n ELSE 0
          /\ \A i \in 1 .. n : SubSeq(s, a, b)[i] = s[a + i - 1]
      BY <3>1, SubSeqProperties
    <3> HIDE DEF n
    <3> QED
      BY <1>3, <3>2
  <2> HIDE DEF t, n
  <2>3. t[1] = s[a] /\ t[Len(t)] = s[b]
    <3>1. 1 \in 1 .. n /\ n \in 1 .. n
      BY <2>1, WholeText
    <3>2. t[1] = s[a + 1 - 1] /\ t[n] = s[a + n - 1]
      BY <2>2, <3>1
    <3> QED
      BY <2>1, <2>2, <3>2
  <2>4. \A i \in 1 .. Len(t) : \E j \in 1 .. Len(s) : t[i] = s[j]
    BY <2>1, <2>2
  <2> QED
    BY <1>3, <2>2, <2>3, <2>4 DEF t
<1> QED
  BY <1>2, <1>3, TrimEnds

\* A text that begins and ends otherwise stays as it is.
LEMMA TrimmedAlready ==
  ASSUME NEW s \in Seq(Marks), s # <<>> => s[1] # " " /\ s[Len(s)] # " "
  PROVE  TrimText(s) = s
<1>1. Len(s) \in Nat
  BY LenProperties
<1>2. CASE s = <<>>
  <2>1. Len(s) = 0
    BY <1>2, EmptySeq
  <2>2. ~ \E a \in 1 .. Len(s) : TRUE
    BY <2>1
  <2>3. TrimText(s) = <<>>
    BY <2>2, TrimEnds
  <2> QED
    BY <1>2, <2>3
<1>3. CASE s # <<>>
  <2> DEFINE n == Len(s)
  <2>1. n \in Nat \ {0}
    BY <1>3, EmptySeq
  <2> HIDE DEF n
  <2>2. 1 \in 1 .. n /\ n \in 1 .. n
    BY <2>1, WholeText
  <2>3. s[1] # " " /\ s[n] # " "
    BY <1>3 DEF n
  <2>4. PICK a \in 1 .. n, b \in 1 .. n :
          /\ \A i \in 1 .. n : s[i] # " " => a <= i /\ i <= b
          /\ TrimText(s) = SubSeq(s, a, b)
    <3>1. ~ \A i \in 1 .. n : s[i] = " "
      BY <2>2, <2>3
    <3> QED
      BY <3>1, TrimEnds DEF n
  <2>5. a <= 1 /\ n <= b
    BY <2>2, <2>3, <2>4
  <2>6. a = 1 /\ b = n
    BY <2>1, <2>5, WholeText
  <2> QED
    BY <2>4, <2>6, SubSeqFull DEF n
<1> QED
  BY <1>2, <1>3

\* Two texts joined by a mark are not the empty text.
LEMMA JoinedText ==
  ASSUME NEW s \in Seq(Marks), NEW t \in Seq(Marks), NEW m \in Marks
  PROVE  s \o <<m>> \o t # <<>> /\ s \o <<m>> \o t \in Seq(Marks)
<1>1. <<m>> \in Seq(Marks) /\ Len(<<m>>) = 1
  OBVIOUS
<1>2. s \o <<m>> \in Seq(Marks) /\ Len(s \o <<m>>) = Len(s) + 1
  BY <1>1, ConcatProperties
<1>3. s \o <<m>> \o t \in Seq(Marks) /\ Len(s \o <<m>> \o t) = Len(s) + 1 + Len(t)
  BY <1>2, ConcatProperties
<1>4. Len(s) \in Nat /\ Len(t) \in Nat
  BY LenProperties
<1>5. Len(s \o <<m>> \o t) # 0
  BY <1>3, <1>4
<1> QED
  BY <1>3, <1>5, EmptySeq

\* The part of a text from a to b, by positions.
LEMMA PartOf ==
  ASSUME NEW s \in Seq(Marks), NEW a \in 1 .. Len(s) + 1, NEW b \in 0 .. Len(s), a <= b + 1
  PROVE  /\ SubSeq(s, a, b) \in Seq(Marks) /\ Len(SubSeq(s, a, b)) = b - a + 1
         /\ \A i \in 1 .. Len(SubSeq(s, a, b)) :
              a + i - 1 \in a .. b /\ SubSeq(s, a, b)[i] = s[a + i - 1]
         /\ \A k \in a .. b :
              /\ k \in 1 .. Len(s) /\ k - a + 1 \in 1 .. Len(SubSeq(s, a, b))
              /\ SubSeq(s, a, b)[k - a + 1] = s[k]
<1> DEFINE t == SubSeq(s, a, b)
<1>1. Len(s) \in Nat /\ a \in Int /\ b \in Int /\ \A i \in a .. b : s[i] \in Marks
  BY LenProperties
<1>2. /\ t \in Seq(Marks) /\ Len(t) = IF a <= b THEN b - a + 1 ELSE 0
      /\ \A i \in 1 .. b - a + 1 : t[i] = s[a + i - 1]
  BY <1>1, SubSeqProperties
<1> HIDE DEF t
<1>3. Len(t) = b - a + 1
  BY <1>1, <1>2
<1>4. \A i \in 1 .. Len(t) : a + i - 1 \in a .. b
  BY <1>1, <1>3
<1>5. \A k \in a .. b : k \in 1 .. Len(s) /\ k - a + 1 \in 1 .. Len(t) /\ a + (k - a + 1) - 1 = k
  BY <1>1, <1>3
<1> QED
  BY <1>2, <1>3, <1>4, <1>5 DEF t

\* Nothing but white space is trimmed away, so a mark that is found before is found after.
LEMMA TrimmedHas ==
  ASSUME NEW s \in Seq(Marks), NEW m \in Marks, m # " "
  PROVE  Has(TrimText(s), m) <=> Has(s, m)
<1>1. Len(s) \in Nat /\ Len(TrimText(s)) \in Nat
  BY Trimmed, LenProperties
<1>2. ASSUME Has(TrimText(s), m)
      PROVE  Has(s, m)
  <2>1. PICK i \in 1 .. Len(TrimText(s)) : TrimText(s)[i] = m
    BY <1>2 DEF Has, Contains
  <2>2. PICK j \in 1 .. Len(s) : TrimText(s)[i] = s[j]
    BY Trimmed
  <2> QED
    BY <2>1, <2>2 DEF Has, Contains
<1>3. ASSUME Has(s, m)
      PROVE  Has(TrimText(s), m)
  <2>1. PICK k \in 1 .. Len(s) : s[k] = m
    BY <1>3 DEF Has, Contains
  <2>2. PICK a \in 1 .. Len(s), b \in 1 .. Len(s) :
          a <= b /\ a <= k /\ k <= b /\ TrimText(s) = SubSeq(s, a, b)
    BY <2>1, TrimEnds
  <2>3. a \in 1 .. Len(s) + 1 /\ b \in 0 .. Len(s) /\ a <= b + 1 /\ k \in a .. b
    <3>1. a <= b /\ a <= k /\ k <= b
      BY <2>2
    <3> QED
      BY <1>1, <3>1, Bounds
  <2>4. /\ k - a + 1 \in 1 .. Len(SubSeq(s, a, b))
        /\ SubSeq(s, a, b)[k - a + 1] = s[k]
    BY <2>3, PartOf
  <2> QED
    BY <2>1, <2>2, <2>4 DEF Has, Contains
<1> QED
  BY <1>2, <1>3

\* Only white space becomes the empty text.
LEMMA TrimmedEmpty ==
  ASSUME NEW s \in Seq(Marks)
  PROVE  TrimText(s) = <<>> <=> \A i \in 1 .. Len(s) : s[i] = " "
<1>1. ASSUME NEW a \in 1 .. Len(s), NEW b \in 1 .. Len(s), a <= b, TrimText(s) = SubSeq(s, a, b)
      PROVE  TrimText(s) # <<>>
  <2>1. Len(s) \in Nat
    BY LenProperties
  <2>2. Len(SubSeq(s, a, b)) = b - a + 1
    BY <1>1, <2>1, PartOf
  <2>3. Len(TrimText(s)) # 0
    BY <1>1, <2>1, <2>2
  <2> QED
    BY <2>3, EmptySeq
<1> QED
  BY <1>1, TrimEnds

\* Where a text has a mark for the last time.
LEMMA LatestMark ==
  ASSUME NEW s \in Seq(Marks), NEW m \in Marks
  PROVE  /\ ~Has(s, m) => Latest(s, m) = 0
         /\ Has(s, m) => /\ Latest(s, m) \in 1 .. Len(s) /\ s[Latest(s, m)] = m
                         /\ \A k \in 1 .. Len(s) : Latest(s, m) < k => s[k] # m
<1> DEFINE I == {i \in 1 .. Len(s) : s[i] = m}
<1>1. Len(s) \in Nat
  BY LenProperties
<1>2. Latest(s, m) = IF I # {} THEN Max(I) ELSE 0
  BY DEF Latest, SelectLastInSeq
<1>3. Has(s, m) <=> I # {}
  BY DEF Has, Contains
<1>4. I \subseteq 0 .. Len(s)
  OBVIOUS
<1>5. \A i \in 1 .. Len(s) : i \in I <=> s[i] = m
  OBVIOUS
<1>6. I \subseteq 1 .. Len(s)
  OBVIOUS
<1> HIDE DEF I
<1>7. CASE I = {}
  BY <1>2, <1>3, <1>7
<1>8. CASE I # {}
  <2>1. Max(I) \in I /\ \A y \in I : y <= Max(I)
    BY <1>1, <1>4, <1>8, GreatestNumber
  <2> DEFINE x == Max(I)
  <2>2. x \in 1 .. Len(s) /\ s[x] = m /\ Latest(s, m) = x
    BY <1>2, <1>5, <1>6, <1>8, <2>1
  <2>3. \A k \in 1 .. Len(s) : s[k] = m => k <= x
    BY <1>5, <2>1
  <2> HIDE DEF x
  <2>4. \A k \in 1 .. Len(s) : x < k => s[k] # m
    BY <1>1, <2>2, <2>3
  <2> QED
    BY <1>3, <1>8, <2>2, <2>4
<1> QED
  BY <1>7, <1>8

\* What is before and after a mark are parts of the text.
LEMMA CutAtMark ==
  ASSUME NEW s \in Seq(Marks), NEW m \in Marks
  PROVE  /\ CutBefore(s, m) \in Seq(Marks) /\ CutAfter(s, m) \in Seq(Marks)
         /\ \A o \in Marks : Has(CutBefore(s, m), o) => Has(s, o)
<1> DEFINE I == {i \in 1 .. Len(s) : s[i] = m}
<1>1. Len(s) \in Nat
  BY LenProperties
<1>2. CASE ~Has(s, m)
  BY <1>2, EmptySeq DEF CutBefore, CutAfter
<1>3. CASE Has(s, m)
  <2>1. First(s, m) = IF I # {} THEN Min(I) ELSE 0
    BY DEF First, SelectInSeq
  <2>2. I \subseteq Nat /\ I \subseteq 1 .. Len(s) /\ I # {}
    BY <1>1, <1>3 DEF Has, Contains
  <2> HIDE DEF I
  <2>3. First(s, m) \in 1 .. Len(s)
    BY <2>1, <2>2, LeastNumber
  <2> DEFINE b == First(s, m) - 1
             t == SubSeq(s, 1, b)
  <2>4. /\ 1 \in 1 .. Len(s) + 1 /\ b \in 0 .. Len(s) /\ 1 <= b + 1
        /\ First(s, m) + 1 \in 1 .. Len(s) + 1 /\ Len(s) \in 0 .. Len(s)
        /\ First(s, m) + 1 <= Len(s) + 1
    BY <1>1, <2>3
  <2>5. CutBefore(s, m) = t
    BY <1>3 DEF CutBefore
  <2> HIDE DEF b
  <2>6. /\ t \in Seq(Marks)
        /\ \A i \in 1 .. Len(t) : 1 + i - 1 \in 1 .. b /\ t[i] = s[1 + i - 1]
        /\ \A k \in 1 .. b : k \in 1 .. Len(s)
    BY <2>4, PartOf
  <2> HIDE DEF t
  <2>7. \A o \in Marks : Has(t, o) => Has(s, o)
    BY <2>6 DEF Has, Contains
  <2>8. CutAfter(s, m) \in Seq(Marks)
    BY <1>3, <2>4, PartOf DEF CutAfter
  <2> QED
    BY <2>5, <2>6, <2>7, <2>8
<1> QED
  BY <1>2, <1>3

\* White space around it does not matter to a name with a version.
LEMMA TrimmedColon ==
  ASSUME NEW s \in Seq(Marks)
  PROVE  ColonVersion(TrimText(s)) <=> ColonVersion(s)
<1> DEFINE t == TrimText(s)
<1>1. CASE \A i \in 1 .. Len(s) : s[i] = " "
  <2>1. t = <<>> /\ Len(<<>>) = 0
    BY <1>1, TrimmedEmpty, EmptySeq
  <2>2. ~ \E i \in 1 .. Len(t) : TRUE
    BY <2>1
  <2> QED
    BY <1>1, <2>2 DEF ColonVersion
<1>2. ASSUME NEW a \in 1 .. Len(s), NEW b \in 1 .. Len(s),
             a <= b, t = SubSeq(s, a, b),
             \A i \in 1 .. Len(s) : s[i] # " " => a <= i /\ i <= b
      PROVE  ColonVersion(t) <=> ColonVersion(s)
  <2>1. Len(s) \in Nat
    BY LenProperties
  <2>2. /\ t \in Seq(Marks) /\ Len(t) = b - a + 1
        /\ \A i \in 1 .. Len(t) : a + i - 1 \in a .. b /\ t[i] = s[a + i - 1]
        /\ \A k \in a .. b : k \in 1 .. Len(s) /\ k - a + 1 \in 1 .. Len(t) /\ t[k - a + 1] = s[k]
    <3>1. a \in 1 .. Len(s) + 1 /\ b \in 0 .. Len(s) /\ a <= b + 1
      <4>1. a <= b
        BY <1>2
      <4> QED
        BY <2>1, <4>1, Bounds
    <3>2. t = SubSeq(s, a, b)
      BY <1>2
    <3> QED
      BY <3>1, <3>2, PartOf
  <2> HIDE DEF t
  <2>3. \A i, k \in Int : i < k <=> a + i - 1 < a + k - 1
    BY <2>1
  <2>4. \A i, k \in Int : i < k <=> i - a + 1 < k - a + 1
    BY <2>1
  <2>5. \A i \in 1 .. Len(s) : s[i] # " " => i \in a .. b
    <3> SUFFICES ASSUME NEW i \in 1 .. Len(s), s[i] # " " PROVE i \in a .. b
      OBVIOUS
    <3>1. a <= b /\ a <= i /\ i <= b
      BY <1>2
    <3> QED
      BY <2>1, <3>1, Bounds
  <2>6. \A k \in 1 .. Len(s) : k \in Int
    OBVIOUS
  <2>7. \A k \in 1 .. Len(t) : k \in Int
    OBVIOUS
  <2>8. ASSUME ColonVersion(s)
        PROVE  ColonVersion(t)
    <3>1. PICK i \in 1 .. Len(s) :
            /\ s[i] = ":" /\ \A j \in 1 .. Len(s) : i < j => s[j] # ":"
            /\ \E j \in 1 .. Len(s) : j < i /\ s[j] # " "
            /\ \E j \in 1 .. Len(s) : i < j /\ s[j] # " "
      BY <2>8 DEF ColonVersion
    <3>2. PICK j \in 1 .. Len(s) : j < i /\ s[j] # " "
      BY <3>1
    <3>3. PICK k \in 1 .. Len(s) : i < k /\ s[k] # " "
      BY <3>1
    <3>4. i \in a .. b /\ j \in a .. b /\ k \in a .. b
      BY <2>5, <3>1, <3>2, <3>3
    <3>5. /\ i - a + 1 \in 1 .. Len(t) /\ t[i - a + 1] = ":"
          /\ j - a + 1 \in 1 .. Len(t) /\ t[j - a + 1] # " " /\ j - a + 1 < i - a + 1
          /\ k - a + 1 \in 1 .. Len(t) /\ t[k - a + 1] # " " /\ i - a + 1 < k - a + 1
      BY <2>2, <2>4, <2>6, <3>1, <3>2, <3>3, <3>4
    <3>6. ASSUME NEW x \in 1 .. Len(t), i - a + 1 < x
          PROVE  t[x] # ":"
      <4>1. a + x - 1 \in 1 .. Len(s) /\ t[x] = s[a + x - 1]
        BY <2>2
      <4>2. i < a + x - 1
        BY <2>1, <3>6
      <4> QED
        BY <3>1, <4>1, <4>2
    <3> QED
      BY <3>5, <3>6 DEF ColonVersion
  <2>9. ASSUME ColonVersion(t)
        PROVE  ColonVersion(s)
    <3>1. PICK i \in 1 .. Len(t) :
            /\ t[i] = ":" /\ \A j \in 1 .. Len(t) : i < j => t[j] # ":"
            /\ \E j \in 1 .. Len(t) : j < i /\ t[j] # " "
            /\ \E j \in 1 .. Len(t) : i < j /\ t[j] # " "
      BY <2>9 DEF ColonVersion
    <3>2. PICK j \in 1 .. Len(t) : j < i /\ t[j] # " "
      BY <3>1
    <3>3. PICK k \in 1 .. Len(t) : i < k /\ t[k] # " "
      BY <3>1
    <3>4. /\ a + i - 1 \in 1 .. Len(s) /\ s[a + i - 1] = ":"
          /\ a + j - 1 \in 1 .. Len(s) /\ s[a + j - 1] # " " /\ a + j - 1 < a + i - 1
          /\ a + k - 1 \in 1 .. Len(s) /\ s[a + k - 1] # " " /\ a + i - 1 < a + k - 1
      BY <2>2, <2>3, <2>7, <3>1, <3>2, <3>3
    <3>5. ASSUME NEW x \in 1 .. Len(s), a + i - 1 < x, s[x] = ":"
          PROVE  FALSE
      <4>1. x - a + 1 \in 1 .. Len(t) /\ t[x - a + 1] = ":"
        BY <2>2, <2>5, <3>5
      <4>2. i < x - a + 1
        BY <2>1, <3>5
      <4> QED
        BY <3>1, <4>1, <4>2
    <3> QED
      BY <3>4, <3>5 DEF ColonVersion
  <2> QED
    BY <2>8, <2>9
<1> QED
  BY <1>1, <1>2, TrimEnds

\* Docker's form, for a text without a slash.
LEMMA DockerForm ==
  ASSUME NEW t \in Seq(Marks), ~Has(t, "/")
  PROVE  /\ DockerStyle(t) # NoText <=> ColonVersion(t)
         /\ DockerStyle(t) \in Seq(Marks)
<1> DEFINE at == Latest(t, ":")
           left == SubSeq(t, 1, at - 1)
           right == SubSeq(t, at + 1, Len(t))
<1>1. Len(t) \in Nat /\ Latest(t, "/") = 0
  BY LatestMark, LenProperties DEF Marks
<1>2. CASE ~Has(t, ":")
  <2>1. at = 0
    BY <1>2, LatestMark DEF Marks
  <2>2. DockerStyle(t) = NoText
    BY <1>1, <2>1 DEF DockerStyle
  <2>3. ~ColonVersion(t)
    BY <1>2 DEF ColonVersion, Has, Contains
  <2> QED
    BY <2>2, <2>3, EmptySeq DEF NoText
<1>3. CASE Has(t, ":")
  <2>1. /\ at \in 1 .. Len(t) /\ t[at] = ":"
        /\ \A k \in 1 .. Len(t) : at < k => t[k] # ":"
    BY <1>3, LatestMark DEF Marks
  <2> HIDE DEF at
  <2>2. /\ 1 \in 1 .. Len(t) + 1 /\ at - 1 \in 0 .. Len(t) /\ 1 <= (at - 1) + 1
        /\ at + 1 \in 1 .. Len(t) + 1 /\ Len(t) \in 0 .. Len(t) /\ at + 1 <= Len(t) + 1
    BY <1>1, <2>1
  <2>3. /\ left \in Seq(Marks)
        /\ \A i \in 1 .. Len(left) : 1 + i - 1 \in 1 .. at - 1 /\ left[i] = t[1 + i - 1]
        /\ \A k \in 1 .. at - 1 : k - 1 + 1 \in 1 .. Len(left) /\ left[k - 1 + 1] = t[k]
    BY <2>2, PartOf
  <2>4. /\ right \in Seq(Marks)
        /\ \A i \in 1 .. Len(right) :
             at + 1 + i - 1 \in at + 1 .. Len(t) /\ right[i] = t[at + 1 + i - 1]
        /\ \A k \in at + 1 .. Len(t) :
             k - (at + 1) + 1 \in 1 .. Len(right) /\ right[k - (at + 1) + 1] = t[k]
    BY <2>2, PartOf
  <2>5. ~(at <= Latest(t, "/"))
    BY <1>1, <2>1
  <2> HIDE DEF left, right
  <2>6. TrimText(left) # <<>> <=> \E j \in 1 .. Len(t) : j < at /\ t[j] # " "
    <3>1. \A j \in 1 .. Len(t) : j < at <=> j \in 1 .. at - 1
      BY <1>1, <2>1
    <3>2. 1 .. at - 1 \subseteq 1 .. Len(t)
      BY <1>1, <2>1
    <3> QED
      BY <2>3, <3>1, <3>2, TrimmedEmpty
  <2>7. TrimText(right) # <<>> <=> \E j \in 1 .. Len(t) : at < j /\ t[j] # " "
    <3>1. \A j \in 1 .. Len(t) : at < j <=> j \in at + 1 .. Len(t)
      BY <1>1, <2>1
    <3>2. at + 1 .. Len(t) \subseteq 1 .. Len(t)
      BY <1>1, <2>1
    <3> QED
      BY <2>4, <3>1, <3>2, TrimmedEmpty
  <2>8. /\ TrimText(left) \o <<"@">> \o TrimText(right) # <<>>
        /\ TrimText(left) \o <<"@">> \o TrimText(right) \in Seq(Marks)
    <3>1. TrimText(left) \in Seq(Marks) /\ TrimText(right) \in Seq(Marks)
      BY <2>3, <2>4, Trimmed
    <3> QED
      BY <3>1, JoinedText DEF Marks
  <2>9. DockerStyle(t) = IF TrimText(left) = <<>> \/ TrimText(right) = <<>>
                           THEN NoText ELSE TrimText(left) \o <<"@">> \o TrimText(right)
    BY <2>5 DEF DockerStyle, left, right, at
  <2>10. ColonVersion(t) <=> /\ \E j \in 1 .. Len(t) : j < at /\ t[j] # " "
                             /\ \E j \in 1 .. Len(t) : at < j /\ t[j] # " "
    <3>1. \A i \in 1 .. Len(t) :
            t[i] = ":" /\ (\A j \in 1 .. Len(t) : i < j => t[j] # ":") => i = at
      BY <1>1, <2>1
    <3> QED
      BY <2>1, <3>1 DEF ColonVersion
  <2> QED
    BY <2>6, <2>7, <2>8, <2>9, <2>10, EmptySeq DEF NoText
<1> QED
  BY <1>2, <1>3

(***************************************************************************)
(* The valid names that can be created, of any length: those with "@"      *)
(* before any "#", and those with a name and a version in Docker's form    *)
(* there.  The others never can, and a name without "#" is its own image.  *)
(***************************************************************************)
THEOREM NamesCreatable == Spec => []CreatableNames
<1>1. ASSUME NEW n \in Names, ValidServiceName(n)
      PROVE  /\ NormalizeCreateImageRef(n) # NoText <=>
                  Has(ImagePart(n), "@") \/ ColonVersion(ImagePart(n))
             /\ ~Has(n, "#") => NormalizeCreateImageRef(n) = TrimText(n) \o <<"#">> \o Sylixos
  <2> DEFINE s == TrimText(n)
             p == CutBefore(s, "#")
             part == TrimText(p)
             system == TrimText(CutAfter(s, "#"))
             os == IF system = <<>> THEN Sylixos ELSE system
  <2>1. n \in Seq(Marks) /\ "#" \in Marks /\ "@" \in Marks /\ "/" \in Marks
    BY UpdateAssumption DEF Marks
  <2>2. s \in Seq(Marks) /\ TrimText(s) = s /\ Has(s, "@") /\ ~Has(s, "/")
    BY <1>1, <2>1, Trimmed, TrimmedAlready DEF ValidServiceName
  <2>3. NormalizeCreateImageRef(n) =
          CASE Has(part, "@") -> part \o <<"#">> \o os
            [] ~Has(part, "@") /\ DockerStyle(part) = NoText -> NoText
            [] ~Has(part, "@") /\ DockerStyle(part) # NoText -> DockerStyle(part) \o <<"#">> \o os
    BY DEF NormalizeCreateImageRef
  <2>4. ~Has(n, "#") => NormalizeCreateImageRef(n) = s \o <<"#">> \o Sylixos
    <3>1. ~Has(n, "#") => ~Has(s, "#")
      BY <2>1, TrimmedHas
    <3>2. ~Has(s, "#") => p = s /\ CutAfter(s, "#") = <<>>
      BY DEF CutBefore, CutAfter
    <3>3. TrimText(<<>>) = <<>>
      BY TrimmedAlready, EmptySeq
    <3> HIDE DEF s
    <3>4. ~Has(s, "#") => part = s /\ os = Sylixos
      BY <2>2, <3>2, <3>3
    <3> QED
      BY <2>2, <2>3, <3>1, <3>4
  <2> HIDE DEF s
  <2>5. p \in Seq(Marks) /\ ~Has(p, "/")
    BY <2>1, <2>2, CutAtMark
  <2>6. system \in Seq(Marks)
    <3>1. CutAfter(s, "#") \in Seq(Marks)
      BY <2>1, <2>2, CutAtMark
    <3> QED
      BY <3>1, Trimmed
  <2> HIDE DEF p, system
  <2>7. os \in Seq(Marks)
    <3>1. "x" \in Marks
      BY DEF Marks
    <3>2. Sylixos \in Seq(Marks)
      BY <3>1 DEF Sylixos
    <3> QED
      BY <2>6, <3>2
  <2> HIDE DEF os
  <2>8. /\ part \in Seq(Marks) /\ ~Has(part, "/")
        /\ Has(part, "@") <=> Has(p, "@")
        /\ ColonVersion(part) <=> ColonVersion(p)
    BY <2>1, <2>5, Trimmed, TrimmedHas, TrimmedColon
  <2> HIDE DEF part
  <2>9. DockerStyle(part) # NoText <=> ColonVersion(part)
    BY <2>8, DockerForm
  <2>10. /\ part \o <<"#">> \o os # <<>>
         /\ DockerStyle(part) # NoText => DockerStyle(part) \o <<"#">> \o os # <<>>
    <3>1. DockerStyle(part) \in Seq(Marks)
      BY <2>8, DockerForm
    <3> QED
      BY <2>1, <2>7, <2>8, <3>1, JoinedText
  <2>11. NormalizeCreateImageRef(n) # NoText <=> Has(p, "@") \/ ColonVersion(p)
    BY <2>3, <2>8, <2>9, <2>10 DEF NoText
  <2> QED
    BY <2>4, <2>11 DEF ImagePart, p, s
<1>2. CreatableNames
  BY <1>1 DEF CreatableNames
<1> QED
  BY <1>2, PTL
=============================================================================
