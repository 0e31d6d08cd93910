----------------------------- MODULE EcsmClient -----------------------------
(***************************************************************************)
(* pkg/ecsmclient/client.go: the write requests Apply sends to ECSM for    *)
(* one decision of the reconciler, in the order it sends them.             *)
(*                                                                         *)
(* A request names an operation and a factor (0 when it carries none).     *)
(* The id a request is sent with is not part of it: Apply starts from the  *)
(* id ECSM reported and goes on with the id an update returned.            *)
(***************************************************************************)
EXTENDS Reconciler, Sequences

Request == [op : {"create", "update", "start", "stop"}, factor : Counts]

Create(n) == [op |-> "create", factor |-> n]
Update(n) == [op |-> "update", factor |-> n]
Start == [op |-> "start", factor |-> 0]
Stop == [op |-> "stop", factor |-> 0]

\* The factor ECSM was configured with is compared, not the live instances.
ReplicasDiffer(d, a) ==
  /\ Found(a)
  /\ d.replicas > 0
  /\ IF a.factor > 0 THEN a.factor # d.replicas ELSE a.active # d.replicas

\* startByID and stopByID adjust the factor before the action itself.
UpdateFirst(d, a) == IF ReplicasDiffer(d, a) THEN <<Update(d.replicas)>> ELSE <<>>

\* Mutant: the factor of a new service is the replica count, even if zero.
CreateServiceZero(d) == <<Create(d.replicas)>>

CreateService(d) == <<Create(IF d.replicas > 0 THEN d.replicas ELSE 1)>>

StartByID(d, a) == Append(UpdateFirst(d, a), Start)

StopByID(d, a) == Append(UpdateFirst(d, a), Stop)

\* Mutant: a service that is to be stopped is started, too.
ScaleByIDStarts(d, a) ==
  IF ~a.running
    THEN <<Update(d.replicas), Start>>
    ELSE <<Update(d.replicas)>>

\* Scaling always updates; a start may follow, a stop never does.
ScaleByID(d, a) ==
  IF d.action = "start" /\ ~a.running
    THEN <<Update(d.replicas), Start>>
    ELSE <<Update(d.replicas)>>

\* The guards at the head of createService, startByID, stopByID, scaleByID.
Accepted(diff, d, a) ==
  /\ diff \in {"need_start", "need_stop", "need_scale_out", "need_scale_in"} => Found(a)
  /\ diff \in {"need_scale_out", "need_scale_in"} => d.replicas > 0

Apply(diff, d, a) ==
  CASE ~Accepted(diff, d, a) \/ diff = "none" -> <<>>
    [] Accepted(diff, d, a) /\ diff = "need_create" -> CreateService(d)
    [] Accepted(diff, d, a) /\ diff = "need_start" -> StartByID(d, a)
    [] Accepted(diff, d, a) /\ diff = "need_stop" -> StopByID(d, a)
    [] Accepted(diff, d, a) /\ diff \in {"need_scale_out", "need_scale_in"} -> ScaleByID(d, a)
=============================================================================
