--------------------------- MODULE AtomicRegistry ---------------------------
(***************************************************************************)
(* What the desired state API promises its callers: the registry is one    *)
(* map, and each call acts on it at one instant or not at all.             *)
(*                                                                         *)
(*   - A call that is answered has acted between its beginning and its     *)
(*     answer, exactly once, and the answer tells what it saw then, or it  *)
(*     was refused and never acts.                                         *)
(*   - A call that ends in an error may have acted, may never act, and may *)
(*     still act at any later time, once.                                  *)
(*   - A list that is answered while the controller closes the database    *)
(*     may tell of a part of the map only.                                 *)
(*   - Nothing else changes the map while a controller has it.             *)
(*                                                                         *)
(* DesiredCalls implements this module.                                    *)
(***************************************************************************)
EXTENDS DesiredApi

VARIABLES
  served,    \* "yes", "ending" (a controller has closed the database), "no"
  stored,    \* what is stored for each name
  asked,     \* the request of each call that has begun
  result,    \* what a call's action on the registry came to
  answer     \* what the caller was told

registryVars == <<served, stored, asked, result, answer>>

Init ==
  /\ served = "yes"
  /\ stored \in [Key -> Storable]
  /\ asked = [c \in Calls |-> NoRequest]
  /\ result = [c \in Calls |-> Pending]
  /\ answer = [c \in Calls |-> Pending]

Begin(c, r) ==
  /\ asked[c] = NoRequest
  /\ asked' = [asked EXCEPT ![c] = r]
  /\ UNCHANGED <<served, stored, result, answer>>

Occupied == {n \in Key : stored[n] # Nothing}

\* What a valid request r answers at the instant it acts.
Outcome(r) ==
  LET value == stored[Trim(r.name)] IN
  CASE Writes(r) \/ r.op = "healthz" -> Reply("ok", {})
    [] r.op = "query" ->
         CASE value = Nothing -> Reply("not found", {})
           [] value = Garbage -> Reply("undecodable", {})
           [] OTHER -> Reply("ok", {value})
    [] r.op = "list" -> Listed({stored[n] : n \in Occupied})

Act(c) ==
  /\ served = "yes" \/ (served = "ending" /\ asked[c].op = "healthz")
  /\ asked[c] # NoRequest
  /\ Valid(asked[c])
  /\ result[c] = Pending
  /\ result' = [result EXCEPT ![c] = Outcome(asked[c])]
  /\ stored' = CASE asked[c].op = "update" ->
                      [stored EXCEPT ![Trim(asked[c].name)] = Record(Trim(asked[c].name), asked[c].state)]
                 [] asked[c].op = "delete" -> [stored EXCEPT ![Trim(asked[c].name)] = Nothing]
                 [] ~Writes(asked[c]) -> stored
  /\ UNCHANGED <<served, asked, answer>>

\* A list finds no more than what can still be read.
ListPart(c) ==
  /\ served = "ending"
  /\ asked[c].op = "list"
  /\ result[c] = Pending
  /\ \E seen \in SUBSET Occupied :
       result' = [result EXCEPT ![c] = Listed({stored[n] : n \in seen})]
  /\ UNCHANGED <<served, stored, asked, answer>>

Refuse(c) ==
  /\ asked[c] # NoRequest
  /\ result[c] = Pending
  /\ result' = [result EXCEPT ![c] = Refused]
  /\ UNCHANGED <<served, stored, asked, answer>>

Answer(c) ==
  /\ asked[c] # NoRequest
  /\ answer[c] = Pending
  /\ \E reply \in {result[c], Error} \ {Pending} : answer' = [answer EXCEPT ![c] = reply]
  /\ UNCHANGED <<served, stored, asked, result>>

\* The controller's process starts, closes the database, ends.
Serve ==
  /\ \/ served = "no"  /\ served' = "yes"
     \/ served = "yes" /\ served' = "ending"
     \/ served # "no"  /\ served' = "no"
  /\ UNCHANGED <<stored, asked, result, answer>>

\* Whoever opens the database's files while no controller has them.
Edit ==
  /\ served = "no"
  /\ stored' \in [Key -> Storable]
  /\ UNCHANGED <<served, asked, result, answer>>

Next ==
  \/ \E c \in Calls : (\E r \in Requests : Begin(c, r)) \/ Act(c) \/ ListPart(c)
                    \/ Refuse(c) \/ Answer(c)
  \/ Serve
  \/ Edit

Spec == Init /\ [][Next]_registryVars
=============================================================================
