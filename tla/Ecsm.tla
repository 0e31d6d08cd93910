-------------------------------- MODULE Ecsm --------------------------------
(***************************************************************************)
(* ECSM itself is not in the repository.  This module is what the client   *)
(* code and its fake servers in the tests assume of it:                    *)
(*   - a create, an update, a start or a stop changes what is configured   *)
(*     (factor, started) when it is accepted; what is reported (active,    *)
(*     running) follows some time later;                                   *)
(*   - an update may give the service a new id, which it returns;          *)
(*   - stopping a service leaves its instances in place (the tests' stopped*)
(*     services report instanceActive 1 and instanceOnline 0);             *)
(*   - a request for an id that is not current, and a create for a service *)
(*     that exists, are refused.                                           *)
(***************************************************************************)
EXTENDS EcsmClient

CONSTANT Ids    \* the ids ECSM gives to services

ASSUME IdsAssumption == Ids \subseteq Nat \ {0}

Absent == [id |-> 0, factor |-> 0, active |-> 0, running |-> FALSE, started |-> FALSE]

Service ==
  [id : Ids, factor : Counts \ {0}, active : Counts, running : BOOLEAN, started : BOOLEAN]

Actual == Service \union {Absent}

\* ECSM accepts request r, sent with service id `id`.
Accepts(a, r, id) == IF r.op = "create" THEN a = Absent ELSE Found(a) /\ a.id = id

\* The service after an accepted request; `id` is its id from then on.
Configured(a, r, id) ==
  CASE r.op = "create" ->
         [id |-> id, factor |-> r.factor, active |-> 0, running |-> FALSE, started |-> TRUE]
    [] r.op = "update" -> [a EXCEPT !.id = id, !.factor = r.factor]
    [] r.op = "start" -> [a EXCEPT !.started = TRUE]
    [] r.op = "stop" -> [a EXCEPT !.started = FALSE]

\* What ECSM reports once it has caught up with what is configured.
Settled(a) == IF Found(a) THEN [a EXCEPT !.active = a.factor, !.running = a.started] ELSE a
=============================================================================
