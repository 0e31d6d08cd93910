----------------------------- MODULE Collector ------------------------------
(***************************************************************************)
(* pkg/ecsmclient/collector.go: CollectServices reads ECSM's list of       *)
(* services page by page, by number, while the list changes.               *)
(*                                                                         *)
(* An entry of the list is the service's name. ECSM's side, the order of   *)
(* the list and the total it reports, is external: new services may be     *)
(* listed last or first, and a total may be missing (zero), as in the      *)
(* tests' fake server.                                                     *)
(***************************************************************************)
EXTENDS Integers, SequencesExt

CONSTANTS
  Services,     \* service names
  PageSize,     \* entries of a full page
  MaxChanges    \* bound: changes of the list

ASSUME CollectorAssumption ==
  /\ IsFiniteSet(Services)
  /\ PageSize \in Nat \ {0}
  /\ MaxChanges \in Nat

VARIABLES
  list,      \* ECSM: the services it lists, in its order
  pc,        \* "idle", "paging", "done", "failed"
  pageNum,   \* number of the page to be read next
  total,     \* the first total that was not zero, or zero
  all,       \* the entries collected so far
  present,   \* history: services listed all the time since the collection began
  shifted,   \* history: since then, one was removed or listed first
  changes    \* how many changes are left

vars == <<list, pc, pageNum, total, all, present, shifted, changes>>

collectVars == <<pc, pageNum, total, all>>

TypeOK ==
  /\ list \in Seq(Services) /\ IsInjective(list)
  /\ pc \in {"idle", "paging", "done", "failed"}
  /\ pageNum \in Nat \ {0}
  /\ total \in Nat
  /\ all \in Seq(Services)
  /\ present \subseteq Services
  /\ shifted \in BOOLEAN
  /\ changes \in Nat

Lists == UNION {{q \in [1 .. n -> Services] : IsInjective(q)} : n \in 0 .. Cardinality(Services)}

Init ==
  /\ list \in Lists
  /\ pc = "idle" /\ pageNum = 1 /\ total = 0 /\ all = <<>>
  /\ present = {} /\ shifted = FALSE
  /\ changes = MaxChanges

-----------------------------------------------------------------------------
(***************************************************************************)
(* The collection.                                                         *)
(***************************************************************************)

\* The entries of page n as ECSM answers for it now.
Page(n) == SubSeq(list, (n - 1) * PageSize + 1,
                  IF n * PageSize < Len(list) THEN n * PageSize ELSE Len(list))

Begin ==
  /\ pc # "paging"
  /\ pc' = "paging"
  /\ pageNum' = 1
  /\ total' = 0
  /\ all' = <<>>
  /\ present' = Range(list)
  /\ shifted' = FALSE
  /\ UNCHANGED <<list, changes>>

\* Mutant: one entry less than the total is enough.
EnoughShort(page, collected, sum) ==
  \/ Len(page) < PageSize
  \/ sum > 0 /\ Len(collected) + 1 >= sum

\* Mutant: the total is not looked at.
EnoughIfShortPage(page, collected, sum) == Len(page) < PageSize

\* A page that is not full was the last; so was one that reaches the total.
Enough(page, collected, sum) ==
  \/ Len(page) < PageSize
  \/ sum > 0 /\ Len(collected) >= sum

\* One page is read, with total t.
ReadPage(t) ==
  /\ pc = "paging"
  /\ total' = IF total = 0 /\ t > 0 THEN t ELSE total
  /\ all' = all \o Page(pageNum)
  /\ IF Enough(Page(pageNum), all', total')
       THEN pc' = "done" /\ UNCHANGED pageNum
       ELSE pageNum' = pageNum + 1 /\ UNCHANGED pc
  /\ UNCHANGED <<list, present, shifted, changes>>

\* Mutant: a page that fails starts the collection again.
PageFailsRestarts ==
  /\ pc = "paging"
  /\ pageNum' = 1
  /\ total' = 0
  /\ all' = <<>>
  /\ UNCHANGED <<list, pc, present, shifted, changes>>

\* Any page that fails fails the collection; what was read is dropped.
PageFails ==
  /\ pc = "paging"
  /\ pc' = "failed"
  /\ all' = <<>>
  /\ UNCHANGED <<list, pageNum, total, present, shifted, changes>>

FindActualService(services, s) == s \in Range(services)

-----------------------------------------------------------------------------
(***************************************************************************)
(* ECSM.                                                                   *)
(***************************************************************************)
Change ==
  /\ changes > 0
  /\ changes' = changes - 1
  /\ UNCHANGED collectVars

ListedLast(s) ==
  /\ Change
  /\ s \notin Range(list)
  /\ list' = Append(list, s)
  /\ UNCHANGED <<present, shifted>>

ListedFirst(s) ==
  /\ Change
  /\ s \notin Range(list)
  /\ list' = <<s>> \o list
  /\ shifted' = TRUE
  /\ UNCHANGED present

Removed(s) ==
  /\ Change
  /\ \E i \in DOMAIN list : list[i] = s /\ list' = RemoveAt(list, i)
  /\ present' = present \ {s}
  /\ shifted' = TRUE

Collect == (\E t \in {0, Len(list)} : ReadPage(t)) \/ PageFails

Next ==
  \/ Begin
  \/ Collect
  \/ \E s \in Services : ListedLast(s) \/ ListedFirst(s) \/ Removed(s)

Spec == Init /\ [][Next]_vars

\* HTTP requests end, if only by their timeout, and the next one is sent.
FairSpec == Spec /\ WF_vars(Collect)

-----------------------------------------------------------------------------
(***************************************************************************)
(* A collection during which services were only added at the end of the    *)
(* list finds every service that was there from the beginning, and none    *)
(* twice; so the reconciler does not decide to create one that exists.     *)
(***************************************************************************)
CompleteUnlessShifted ==
  pc = "done" /\ ~shifted =>
    /\ \A s \in present : FindActualService(all, s)
    /\ IsInjective(all)

(***************************************************************************)
(* However the list grows meanwhile, the first total bounds the number of  *)
(* requests of one collection.                                             *)
(***************************************************************************)
PagesBounded ==
  pc = "paging" =>
    /\ Len(all) = (pageNum - 1) * PageSize
    /\ total > 0 => Len(all) < total

\* Every collection ends, also when ECSM never reports a total.
CollectionEnds == pc = "paging" ~> pc \in {"done", "failed"}
=============================================================================
