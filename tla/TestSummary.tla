---------------------------- MODULE TestSummary ----------------------------
(***************************************************************************)
(* tools/testsummary: the report made from the events of go test -json.    *)
(* The packages are tested at the same time, so their events come mixed;   *)
(* their tests have names of their own only within a package.  A test      *)
(* binary may stop with tests still running, a package may not build, and  *)
(* a line may be too long to be read.                                      *)
(***************************************************************************)
EXTENDS FiniteSets

CONSTANTS
  Packages,
  Names,      \* the names of the tests of a package
  NoTest      \* an event about the package itself

ASSUME SummaryAssumption ==
  /\ IsFiniteSet(Names)
  /\ NoTest \notin Names

VARIABLES
  package,    \* "waiting", "started", "ok", "fail"
  test,       \* "waiting", "running", or how it ended
  packages,   \* the packages read of
  results,    \* the action of each test read of, "" while there is none
  readable    \* every line so far could be read

runVars == <<package, test, packages, results, readable>>

Ends == {"pass", "fail", "skip"}
Tests == Packages \X Names

RunInit ==
  /\ package = [p \in Packages |-> "waiting"]
  /\ test = [t \in Tests |-> "waiting"]
  /\ packages = {}
  /\ results = [t \in Tests |-> "unread"]
  /\ readable = TRUE

-----------------------------------------------------------------------------
(* buildReport reads the events *)

\* Mutant: the results are kept by name.
KeyOfName(p, n) == <<CHOOSE q \in Packages : TRUE, n>>

Key(p, n) == <<p, n>>

\* The last end of a test is the one that counts; other events only mention it.
Read(p, n, action) ==
  /\ packages' = packages \union {p}
  /\ results' = IF n = NoTest THEN results
                ELSE [results EXCEPT ![Key(p, n)] =
                        CASE action \in Ends -> action
                          [] action \notin Ends /\ @ = "unread" -> ""
                          [] OTHER -> @]

-----------------------------------------------------------------------------
(* go test writes them *)

PackageStarts(p) ==
  /\ package[p] = "waiting"
  /\ package' = [package EXCEPT ![p] = "started"]
  /\ Read(p, NoTest, "start")
  /\ UNCHANGED <<test, readable>>

TestStarts(p, n) ==
  /\ package[p] = "started" /\ test[<<p, n>>] = "waiting"
  /\ test' = [test EXCEPT ![<<p, n>>] = "running"]
  /\ Read(p, n, "run")
  /\ UNCHANGED <<package, readable>>

TestEnds(p, n, how) ==
  /\ package[p] = "started" /\ test[<<p, n>>] = "running"
  /\ test' = [test EXCEPT ![<<p, n>>] = how]
  /\ Read(p, n, how)
  /\ UNCHANGED <<package, readable>>

PackageEnds(p) ==
  /\ package[p] = "started"
  /\ \A n \in Names : test[<<p, n>>] # "running"
  /\ package' = [package EXCEPT ![p] = IF \E n \in Names : test[<<p, n>>] = "fail" THEN "fail" ELSE "ok"]
  /\ Read(p, NoTest, "end")
  /\ UNCHANGED <<test, readable>>

\* The binary exits, or is stopped; nothing is said of the tests that were running.
PackageBreaks(p) ==
  /\ package[p] = "started"
  /\ package' = [package EXCEPT ![p] = "fail"]
  /\ Read(p, NoTest, "fail")
  /\ UNCHANGED <<test, readable>>

\* It may be reported by an event, or in a line that is not JSON and passed over.
BuildFails(p) ==
  /\ package[p] = "waiting"
  /\ package' = [package EXCEPT ![p] = "fail"]
  /\ Read(p, NoTest, "fail") \/ UNCHANGED <<packages, results>>
  /\ UNCHANGED <<test, readable>>

\* The end of reading, and of the report.
OversizedLine(p) ==
  /\ package[p] = "started"
  /\ readable' = FALSE
  /\ UNCHANGED <<package, test, packages, results>>

RunNext ==
  /\ readable
  /\ \E p \in Packages :
       \/ PackageStarts(p) \/ PackageEnds(p) \/ PackageBreaks(p)
       \/ BuildFails(p) \/ OversizedLine(p)
       \/ \E n \in Names : TestStarts(p, n) \/ \E how \in Ends : TestEnds(p, n, how)

TestRun == RunInit /\ [][RunNext]_runVars

-----------------------------------------------------------------------------
(* The report, once go test has ended *)

ExitCode == IF \E p \in Packages : package[p] = "fail" THEN 1 ELSE 0

Reported == readable /\ \A p \in Packages : package[p] \in {"ok", "fail"}

ByAction(action) == {t \in Tests : results[t] = action}

\* Mutant: the exit code of go test is left out.
StatusOfTests == IF ByAction("fail") # {} THEN "failed" ELSE "passed"

Status == IF ByAction("fail") # {} \/ ExitCode # 0 THEN "failed" ELSE "passed"

\* A row of summarizePackages.
Stats(p) == [action \in Ends |-> Cardinality({t \in ByAction(action) : t[1] = p})]

Summary == {t[1] : t \in UNION {ByAction(action) : action \in Ends}}

PackagesWithoutTests == packages \ Summary

(***************************************************************************)
(* A run is reported as passed only if every test that began came to an    *)
(* end, and none failed: not when a binary stopped on the way or a package *)
(* did not build, which no test's event tells.                             *)
(***************************************************************************)
PassedMeansAllEnded ==
  Reported /\ Status = "passed" =>
    /\ \A p \in Packages : package[p] = "ok"
    /\ \A t \in Tests : test[t] \notin {"running", "fail"}

(***************************************************************************)
(* Each row of the module summary counts the ends of that package's tests, *)
(* however the events of the packages were mixed, and whatever the tests   *)
(* of other packages are called; every package that was tested is in the   *)
(* report, and among those without tests only if no test of it has ended.  *)
(***************************************************************************)
StatsExact ==
  Reported => \A p \in Packages :
    /\ \A action \in Ends : Stats(p)[action] = Cardinality({n \in Names : test[<<p, n>>] = action})
    /\ package[p] = "ok" => p \in Summary \union PackagesWithoutTests
    /\ p \in PackagesWithoutTests => \A n \in Names : test[<<p, n>>] \notin Ends
=============================================================================
