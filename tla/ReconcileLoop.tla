--------------------------- MODULE ReconcileLoop ---------------------------
(***************************************************************************)
(* The feedback loop of one service with an ECSM that answers at once:     *)
(* Reconciler decides, the client sends its requests one after the other,  *)
(* ECSM carries each out and reports the result before the next.  Between  *)
(* two rounds the desired state may be rewritten and ECSM may drift.       *)
(*                                                                         *)
(* Nothing here runs concurrently; Controller adds that.  What is left is  *)
(* whether the decisions and the requests they turn into make progress.    *)
(***************************************************************************)
EXTENDS Ecsm

VARIABLES
  desired,   \* the desired state in the registry
  actual,    \* what ECSM reports of the service
  todo,      \* requests of the current round not yet sent
  sid,       \* the service id the next request is sent with
  rounds     \* rounds that sent something since the last rewrite or drift

vars == <<desired, actual, todo, sid, rounds>>

TypeOK ==
  /\ desired \in DesiredState
  /\ actual \in Actual
  /\ todo \in Seq(Request)
  /\ sid \in Ids \union {0}
  /\ rounds \in Nat

Init ==
  /\ desired \in DesiredState
  /\ actual \in Actual
  /\ todo = <<>>
  /\ sid = 0
  /\ rounds = 0

Diff == CompareDesiredActual(desired, actual)

\* Reconcile: collect, compare, and hand the operation to the client.
Decide ==
  /\ todo = <<>>
  /\ Diff # "none"
  /\ todo' = Apply(Diff, desired, actual)
  /\ sid' = actual.id
  /\ rounds' = rounds + 1
  /\ UNCHANGED <<desired, actual>>

\* Mutant: the id an update returns is ignored.
SendOldId(id) ==
  /\ todo # <<>>
  /\ Accepts(actual, Head(todo), sid)
  /\ Head(todo).op \in {"start", "stop"} => id = actual.id
  /\ actual' = Settled(Configured(actual, Head(todo), id))
  /\ todo' = Tail(todo)
  /\ UNCHANGED <<desired, sid, rounds>>

\* Each request in turn; the id an update returns replaces the one in hand.
Send(id) ==
  /\ todo # <<>>
  /\ Accepts(actual, Head(todo), sid)
  /\ Head(todo).op \in {"start", "stop"} => id = actual.id
  /\ actual' = Settled(Configured(actual, Head(todo), id))
  /\ sid' = id
  /\ todo' = Tail(todo)
  /\ UNCHANGED <<desired, rounds>>

Rewrite(d) ==
  /\ todo = <<>>
  /\ desired' = d
  /\ rounds' = 0
  /\ UNCHANGED <<actual, todo, sid>>

Drift(a) ==
  /\ todo = <<>>
  /\ actual' = a
  /\ rounds' = 0
  /\ UNCHANGED <<desired, todo, sid>>

Next ==
  \/ Decide
  \/ \E id \in Ids : Send(id)
  \/ \E d \in DesiredState : Rewrite(d)
  \/ \E a \in Actual : Drift(a)

Spec == Init /\ [][Next]_vars

-----------------------------------------------------------------------------
(***************************************************************************)
(* Undisturbed, two rounds are enough from any desired state and anything  *)
(* ECSM may report, and then the reconciler leaves the service alone.  The *)
(* second is needed when a stop comes with a replica count that differs:   *)
(* scaling never stops the service (client.go: scaleByID).                 *)
(***************************************************************************)
AtMostTwoRounds == rounds <= 2

(***************************************************************************)
(* The reconciler is content exactly when a user would be: an action of    *)
(* "none" on an unsatisfied state would never be repaired, any other on a  *)
(* satisfied one would be repeated at every scan.                          *)
(***************************************************************************)
QuietIffSatisfied == Diff = "none" <=> Satisfied(desired, actual)

(***************************************************************************)
(* The requests of a round are never refused by ECSM for a stale id, also  *)
(* when the update that comes first replaces the service's id.             *)
(***************************************************************************)
NeverRefused == todo # <<>> => Accepts(actual, Head(todo), sid)

(***************************************************************************)
(* The guards of the client never turn down what the reconciler decided:   *)
(* such a round would fail again at every scan without sending anything.   *)
(***************************************************************************)
DecisionsExecutable == Diff # "none" => Apply(Diff, desired, actual) # <<>>
=============================================================================
