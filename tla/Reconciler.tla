----------------------------- MODULE Reconciler -----------------------------
(***************************************************************************)
(* The decision of pkg/reconciler: from a desired state and what ECSM      *)
(* reports, the one action that moves ECSM towards the desired state.      *)
(*                                                                         *)
(* A desired state is [action, replicas].  What ECSM reports of a service  *)
(* is [id, factor, active, running]: `running` stands for "InstanceOnline  *)
(* is positive or some container reports running", the two witnesses       *)
(* isActualRunning accepts.  The zero ServiceInfo that FindActualService   *)
(* returns when it finds nothing is the record with id 0.                  *)
(***************************************************************************)
EXTENDS Naturals

CONSTANT Counts    \* the replica and instance counts that occur

ASSUME CountsAssumption == Counts \subseteq Nat /\ {0, 1} \subseteq Counts

DesiredState == [action : {"start", "stop"}, replicas : Counts]

DiffAction == {"none", "need_create", "need_start", "need_stop",
               "need_scale_out", "need_scale_in"}

Found(a) == a.id # 0

\* Mutant: too many instances go unnoticed.
ReplicaDiffOutOnly(d, a) ==
  IF d.replicas > 0 /\ a.active < d.replicas THEN "need_scale_out" ELSE "none"

\* Mutant: zero replicas are compared like any other count.
ReplicaDiffAlways(d, a) ==
  CASE a.active < d.replicas -> "need_scale_out"
    [] a.active > d.replicas -> "need_scale_in"
    [] OTHER -> "none"

\* A desired replica count of zero leaves the number of instances alone.
ReplicaDiff(d, a) ==
  CASE d.replicas > 0 /\ a.active < d.replicas -> "need_scale_out"
    [] d.replicas > 0 /\ a.active > d.replicas -> "need_scale_in"
    [] OTHER -> "none"

\* Mutant: a service to be stopped is not asked whether it runs.
RunDiffStopAlways(d, a) ==
  CASE d.action = "start" /\ ~a.running -> "need_start"
    [] d.action = "stop" -> "need_stop"
    [] OTHER -> "none"

\* What is left to do once the number of instances is right.
RunDiff(d, a) ==
  CASE d.action = "start" /\ ~a.running -> "need_start"
    [] d.action = "stop" /\ a.running -> "need_stop"
    [] OTHER -> "none"

CompareDesiredActual(d, a) ==
  CASE ~Found(a) /\ d.action = "start" -> "need_create"
    [] ~Found(a) /\ d.action = "stop" -> "none"
    [] Found(a) -> IF ReplicaDiff(d, a) # "none" THEN ReplicaDiff(d, a)
                                                 ELSE RunDiff(d, a)

-----------------------------------------------------------------------------
(***************************************************************************)
(* What a user of the controller reads into a desired state (README.md,    *)
(* TEST_REPORT.md section 5.1): the reference the decision is compared to. *)
(***************************************************************************)
Satisfied(d, a) ==
  /\ d.action = "start" => Found(a) /\ a.running
  /\ d.action = "stop" /\ Found(a) => ~a.running
  /\ Found(a) /\ d.replicas > 0 => a.active = d.replicas
=============================================================================
