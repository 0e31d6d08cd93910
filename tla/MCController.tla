---------------------------- MODULE MCController ----------------------------
(***************************************************************************)
(* Small instances of Controller. One service is enough for every race     *)
(* about its own updates; two are needed only to ask whether one that can  *)
(* never be created holds up the other.                                    *)
(***************************************************************************)
EXTENDS Controller

CONSTANTS a, b    \* service names

OneService == {a}
TwoServices == {a, b}
NoneBroken == {}
SecondBroken == {b}

StartTwo == [action |-> "start", replicas |-> 2]
StartAny == [action |-> "start", replicas |-> 0]
StopOne == [action |-> "stop", replicas |-> 1]
StopAny == [action |-> "stop", replicas |-> 0]

\* Going from one of the first two to the other scales and starts or stops.
UpAndDown == {StartTwo, StopOne}
FewWrites == {StartAny, StopAny}

Empty == {NoState}
Started == {StartAny}
ScaledUp == {StartTwo}

MCCounts == 0 .. 2
SmallCounts == 0 .. 1
OneId == {1}
TwoIds == {1, 2}
=============================================================================
