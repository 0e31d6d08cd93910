--------------------------- MODULE ServiceUpdate ---------------------------
(***************************************************************************)
(* What the ECSM client sends besides the factor (client.go: createService,*)
(* updateReplicasByID, ensureDefaultImageConfig).  A new service is made   *)
(* from the configuration of its image.  A change of the factor reads the  *)
(* service's detail, fills in what is missing and sends all of it back.    *)
(* Between the two requests, and while the second is on its way, others    *)
(* may edit the service; and it may arrive after the client has given up.  *)
(***************************************************************************)
EXTENDS ImageRef

CONSTANTS
  Names,        \* what the desired states may call the service
  Values,       \* what an image, or somebody's edit, may say of a part
  Blank,        \* what is not said
  Default,      \* what the client fills in for it
  Tries,        \* identifies the updates the client makes
  MaxEdits      \* bound: edits by others

Part == Values \union {Blank, Default}

\* The memory limit is treated in its own way; "other" is any other setting.
Config == [memory : Part, other : Part]

ASSUME UpdateAssumption ==
  /\ Names \subseteq Seq(Marks)
  /\ MaxEdits \in Nat
  /\ Blank \notin Values /\ Default \notin Values /\ Blank # Default
  /\ Blank \notin Config

\* Mutant: only a missing configuration is completed.
EnsureDefaultImageConfigNil(c) == IF c = Blank THEN [memory |-> Default, other |-> Default] ELSE c

\* The settings the image leaves open are filled in; the memory limit is fixed.
EnsureDefaultImageConfig(c) ==
  [memory |-> Default,
   other  |-> IF c = Blank \/ c.other = Blank THEN Default ELSE c.other]

\* "rest": name, nodes and what else describes the image, sent back as it was.
MayBe ==
  [policy |-> Part, action |-> Part, config |-> Config \union {Blank},
   rest |-> Values \union {Default}]

Content ==
  [policy : MayBe.policy, action : MayBe.action, config : MayBe.config, rest : MayBe.rest]

VARIABLES
  id,        \* the service's id in ECSM, 0 if there is none; each new one is greater
  content,   \* everything about the service but its id and factor
  image,     \* the configuration of its image, Blank if ECSM knows none
  phase,     \* of each update: "none", "read", "sent", "over"
  readId,    \* the id in the detail it read
  copy,      \* the detail, and then the request made of it
  raced,     \* history: parts changed since then without a new id
  edits      \* edits so far

vars == <<id, content, image, phase, readId, copy, raced, edits>>
updateVars == <<phase, readId, copy>>

Absent == [policy |-> Blank, action |-> Blank, config |-> Blank, rest |-> Default]

TypeOK ==
  /\ id \in Nat
  /\ content \in Content
  /\ image \in Config \union {Blank}
  /\ phase \in [Tries -> {"none", "read", "sent", "over"}]
  /\ readId \in [Tries -> 0 .. id]
  /\ copy \in [Tries -> Content]
  /\ raced \in [Tries -> SUBSET DOMAIN Absent]
  /\ edits \in 0 .. MaxEdits

Init ==
  /\ id = 0
  /\ content = Absent
  /\ image \in [memory : Values \union {Blank}, other : Values \union {Blank}] \union {Blank}
  /\ phase = [t \in Tries |-> "none"]
  /\ readId = [t \in Tries |-> 0]
  /\ copy = [t \in Tries |-> Absent]
  /\ raced = [t \in Tries |-> {}]
  /\ edits = 0

Changed(p) == {x \in DOMAIN p : p[x] # content[x]}

\* ECSM now has p; it may give the service a new id with it.
Store(p) ==
  /\ content' = p
  /\ \/ id' = id + 1 /\ UNCHANGED raced
     \/ id' = id /\ id # 0 /\ raced' = [t \in Tries |-> raced[t] \union Changed(p)]

\* An image without a configuration keeps the service from being created.
GetImageConfig == image # Blank

CreateService ==
  /\ id = 0
  /\ \E n \in Names : ValidServiceName(n) /\ NormalizeCreateImageRef(n) # NoText
  /\ GetImageConfig
  /\ Store([policy |-> Default, action |-> Default,
            config |-> EnsureDefaultImageConfig(image), rest |-> Default])
  /\ UNCHANGED <<image, updateVars, edits>>

GetDetail(t) ==
  /\ id # 0 /\ phase[t] = "none"
  /\ phase' = [phase EXCEPT ![t] = "read"]
  /\ readId' = [readId EXCEPT ![t] = id]
  /\ copy' = [copy EXCEPT ![t] = content]
  /\ raced' = [raced EXCEPT ![t] = {}]
  /\ UNCHANGED <<id, content, image, edits>>

\* Mutant: the request is made like one for a new service.
WithDefaultsAlways(p) ==
  [p EXCEPT !.policy = Default, !.action = Default, !.config = EnsureDefaultImageConfig(@)]

\* A configuration that is there is sent back, also one with gaps in it.
WithDefaults(p) ==
  [p EXCEPT !.policy = IF @ = Blank THEN Default ELSE @,
            !.action = IF @ = Blank THEN Default ELSE @,
            !.config = IF @ = Blank THEN EnsureDefaultImageConfig(Blank) ELSE @]

SendUpdate(t) ==
  /\ phase[t] = "read"
  /\ phase' = [phase EXCEPT ![t] = "sent"]
  /\ copy' = [copy EXCEPT ![t] = WithDefaults(@)]
  /\ UNCHANGED <<id, content, image, readId, raced, edits>>

\* Before the client's timeout or after it, which nothing here depends on.
UpdateArrives(t) ==
  /\ phase[t] = "sent"
  /\ readId[t] = id
  /\ phase' = [phase EXCEPT ![t] = "over"]
  /\ Store(copy[t])
  /\ UNCHANGED <<image, readId, copy, edits>>

\* A request fails, is refused for its old id, or does not arrive.
UpdateFails(t) ==
  /\ phase[t] \in {"read", "sent"}
  /\ phase' = [phase EXCEPT ![t] = "over"]
  /\ UNCHANGED <<id, content, image, readId, copy, raced, edits>>

\* Somebody else changes a part x of the service, or has created it.
Edited(x, v) ==
  /\ edits < MaxEdits
  /\ edits' = edits + 1
  /\ Store([content EXCEPT ![x] = v])
  /\ UNCHANGED <<image, updateVars>>

Next ==
  \/ CreateService
  \/ \E t \in Tries : GetDetail(t) \/ SendUpdate(t) \/ UpdateArrives(t) \/ UpdateFails(t)
  \/ \E x \in DOMAIN MayBe : \E v \in MayBe[x] : Edited(x, v)

Spec == Init /\ [][Next]_vars

-----------------------------------------------------------------------------
Arrives(t) == phase[t] = "sent" /\ phase'[t] = "over" /\ <<id, content>>' # <<id, content>>

(***************************************************************************)
(* A change of the factor undoes somebody else's change of the service     *)
(* only if that one came after the detail was read and ECSM kept the id    *)
(* with it; a new id protects it.  Otherwise it fills in what was empty    *)
(* and leaves the rest, however late the request arrives.                  *)
(***************************************************************************)
UndoesOnlyRacing ==
  [][\A t \in Tries : Arrives(t) =>
       \A x \in Changed(content') : x \in raced[t] \/ content[x] = Blank]_vars

(***************************************************************************)
(* What an image configures, its services have, over any number of changes *)
(* of the factor and until somebody edits them; the memory limit aside.    *)
(* Everything it leaves open has the client's default.                     *)
(***************************************************************************)
ImageConfigKept ==
  id # 0 /\ edits = 0 =>
    content.config.other = IF image.other = Blank THEN Default ELSE image.other

\* What a name has before its first "#": there the client looks for the image.
ImagePart(n) == CutBefore(TrimText(n), "#")

\* Its last colon has something besides white space on either side.
ColonVersion(p) ==
  \E i \in 1 .. Len(p) :
    /\ p[i] = ":" /\ \A j \in 1 .. Len(p) : i < j => p[j] # ":"
    /\ \E j \in 1 .. Len(p) : j < i /\ p[j] # " "
    /\ \E j \in 1 .. Len(p) : i < j /\ p[j] # " "

(***************************************************************************)
(* Not every service that the registry accepts can be created.  It can if  *)
(* the "@" of its name comes before any "#", or else if a name and version *)
(* in Docker's form do.  A service of any other valid name, a#x@1 say, is  *)
(* stored and fails in every round of the worker.  A name without "#" is   *)
(* that of the image, of the default system (TEST_REPORT.md, UT-17).       *)
(***************************************************************************)
CreatableNames ==
  id = 0 /\ GetImageConfig =>
    \A n \in Names : ValidServiceName(n) =>
      /\ NormalizeCreateImageRef(n) # NoText <=>
           Has(ImagePart(n), "@") \/ ColonVersion(ImagePart(n))
      /\ ~Has(n, "#") => NormalizeCreateImageRef(n) = TrimText(n) \o <<"#">> \o Sylixos
=============================================================================
