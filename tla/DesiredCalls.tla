---------------------------- MODULE DesiredCalls ----------------------------
(***************************************************************************)
(* Calls of the desired state API from end to end: pkg/desiredclient with  *)
(* the goroutine of each call, the VSOA connection, the handlers of        *)
(* pkg/vsoa, the registry they work on, the ends and restarts of the       *)
(* controller's process, and cmd/rosedb-dump on the database meanwhile.    *)
(*                                                                         *)
(* A call may be given up at any time: its context ends.  What was sent is *)
(* not taken back; the goroutine waits on for an answer nobody reads.      *)
(***************************************************************************)
EXTENDS DesiredApi

CONSTANTS
  StoredBefore,   \* what the database may hold under a key at first
  MaxRestarts     \* bound: restarts of the controller

ASSUME CallsAssumption == StoredBefore \subseteq Storable /\ MaxRestarts \in Nat

VARIABLES
  asked,       \* what each caller asked for
  caller,      \* "idle", "waiting" in the select of call, "returned"
  goroutine,   \* of each call: "off", "calling", "ended"
  resultCh,    \* what it put there for a caller who waits, otherwise Pending
  answer,      \* what the caller was told
  request,     \* "none", "sent", "checked" by its handler, "answered", "lost"
  reply,       \* the handler's response
  stored,      \* the registry
  server,      \* "running", "cancelled", "returned", "closed" (the store too), "down"
  restarts,    \* restarts so far
  settled,     \* history: calls whose callers knew their end when a call began
  edited       \* history: rosedb-dump has changed something

clientVars  == <<asked, caller, goroutine, resultCh, answer, settled>>
handlerVars == <<request, reply>>
processVars == <<server, restarts, edited>>
vars == <<clientVars, handlerVars, stored, processVars>>

Replies ==
  {Pending, Error, Refused, Reply("not found", {}), Reply("undecodable", {})} \union
  {Reply("ok", found) : found \in SUBSET Records}

TypeOK ==
  /\ asked \in [Calls -> Requests \union {NoRequest}]
  /\ caller \in [Calls -> {"idle", "waiting", "returned"}]
  /\ goroutine \in [Calls -> {"off", "calling", "ended"}]
  /\ resultCh \in [Calls -> Replies]
  /\ answer \in [Calls -> Replies]
  /\ request \in [Calls -> {"none", "sent", "checked", "answered", "lost"}]
  /\ reply \in [Calls -> Replies]
  /\ stored \in [Key -> Storable]
  /\ server \in {"running", "cancelled", "returned", "closed", "down"}
  /\ restarts \in 0 .. MaxRestarts
  /\ settled \in [Calls -> SUBSET Calls]
  /\ edited \in BOOLEAN

Init ==
  /\ asked = [c \in Calls |-> NoRequest]
  /\ caller = [c \in Calls |-> "idle"]
  /\ goroutine = [c \in Calls |-> "off"]
  /\ resultCh = [c \in Calls |-> Pending]
  /\ answer = [c \in Calls |-> Pending]
  /\ request = [c \in Calls |-> "none"]
  /\ reply = [c \in Calls |-> Pending]
  /\ stored \in [Key -> StoredBefore]
  /\ server = "running"
  /\ restarts = 0
  /\ settled = [c \in Calls |-> {}]
  /\ edited = FALSE

-----------------------------------------------------------------------------
(* The client *)

\* A method of Client is called: it starts the goroutine and enters the select.
Ask(c, r) ==
  /\ caller[c] = "idle"
  /\ asked' = [asked EXCEPT ![c] = r]
  /\ caller' = [caller EXCEPT ![c] = "waiting"]
  /\ goroutine' = [goroutine EXCEPT ![c] = "calling"]
  /\ request' = [request EXCEPT ![c] = IF server = "down" THEN "lost" ELSE "sent"]
  /\ settled' = [settled EXCEPT ![c] = {d \in Calls : Told(answer[d])}]
  /\ UNCHANGED <<resultCh, answer, reply, stored, processVars>>

\* ctx.Done() is ready; the other case of the select may be as well.
GiveUp(c) ==
  /\ caller[c] = "waiting"
  /\ caller' = [caller EXCEPT ![c] = "returned"]
  /\ answer' = [answer EXCEPT ![c] = Error]
  /\ resultCh' = [resultCh EXCEPT ![c] = Pending]
  /\ UNCHANGED <<asked, goroutine, settled, handlerVars, stored, processVars>>

\* Mutant: resultCh has no room, so the goroutine needs somebody who receives.
PutResultUnbuffered(c, how) ==
  /\ goroutine' = [goroutine EXCEPT ![c] = IF caller[c] = "waiting" THEN "ended" ELSE "stuck"]
  /\ resultCh' = [resultCh EXCEPT ![c] = IF caller[c] = "waiting" THEN how ELSE Pending]

\* resultCh has room for the one result it will ever get, so this never waits.
PutResult(c, how) ==
  /\ goroutine' = [goroutine EXCEPT ![c] = "ended"]
  /\ resultCh' = [resultCh EXCEPT ![c] = IF caller[c] = "waiting" THEN how ELSE Pending]

\* rpc.Call returns what the server answered, perhaps while it is closing ...
Delivered(c) ==
  /\ goroutine[c] = "calling"
  /\ request[c] = "answered"
  /\ PutResult(c, reply[c])
  /\ UNCHANGED <<asked, caller, answer, settled, handlerVars, stored, processVars>>

\* Mutant: a call that failed is sent once more.
CallFailsRetries(c) ==
  /\ goroutine[c] = "calling"
  /\ request' = [request EXCEPT ![c] = IF server = "down" THEN "lost" ELSE "sent"]
  /\ UNCHANGED <<clientVars, reply, stored, processVars>>

\* ... or an error, when the connection breaks, wherever the request is by then.
CallFails(c) ==
  /\ goroutine[c] = "calling"
  /\ PutResult(c, Error)
  /\ UNCHANGED <<asked, caller, answer, settled, handlerVars, stored, processVars>>

TakeResult(c) ==
  /\ caller[c] = "waiting"
  /\ goroutine[c] = "ended"
  /\ caller' = [caller EXCEPT ![c] = "returned"]
  /\ answer' = [answer EXCEPT ![c] = resultCh[c]]
  /\ resultCh' = [resultCh EXCEPT ![c] = Pending]
  /\ UNCHANGED <<asked, goroutine, settled, handlerVars, stored, processVars>>

-----------------------------------------------------------------------------
(* The server: a handler runs in a goroutine of its own *)

\* The client trims the name, and the handler of an update trims it once more.
KeyOf(c) == Trim(asked[c].name)

Respond(c, how) ==
  /\ request' = [request EXCEPT ![c] = "answered"]
  /\ reply' = [reply EXCEPT ![c] = how]

(* The context of Run is done between its cancellation and Run's return; later
   Server.context has only the one that never ends.  A handler that got Run's
   context earlier and looks at it later than that is one that looked before. *)
ContextDone(c) == server = "cancelled" /\ asked[c].op # "healthz"

\* The payload or the state is invalid, or the context has ended.
HandlerRefuses(c) ==
  /\ request[c] = "sent"
  /\ server # "down"
  /\ ~Valid(asked[c]) \/ ContextDone(c)
  /\ Respond(c, Refused)
  /\ UNCHANGED <<clientVars, stored, processVars>>

\* Mutant: of an update only the name is looked at.
HandlerChecksName(c) ==
  /\ request[c] = "sent"
  /\ server # "down"
  /\ asked[c].op \in {"update", "delete", "query"} => ValidName(asked[c].name)
  /\ ~ContextDone(c)
  /\ request' = [request EXCEPT ![c] = "checked"]
  /\ UNCHANGED <<clientVars, reply, stored, processVars>>

\* Mutant: the answer goes out before the registry is written.
HandlerChecksAndAnswers(c) ==
  /\ request[c] = "sent"
  /\ server # "down"
  /\ Valid(asked[c]) /\ ~ContextDone(c)
  /\ request' = [request EXCEPT ![c] = "checked"]
  /\ IF goroutine[c] = "calling" THEN PutResult(c, Reply("ok", {}))
                                ELSE UNCHANGED <<goroutine, resultCh>>
  /\ UNCHANGED <<asked, caller, answer, settled, reply, stored, processVars>>

\* Payload decoded, state validated, context asked: what is left is the database.
HandlerChecks(c) ==
  /\ request[c] = "sent"
  /\ server # "down"
  /\ Valid(asked[c]) /\ ~ContextDone(c)
  /\ request' = [request EXCEPT ![c] = "checked"]
  /\ UNCHANGED <<clientVars, reply, stored, processVars>>

At(n) == IF n \in Key THEN stored[n] ELSE Nothing

Occupied == {n \in Key : stored[n] # Nothing}

HandlerHealthz(c) ==
  /\ asked[c].op = "healthz"
  /\ Respond(c, Reply("ok", {}))
  /\ UNCHANGED stored

HandlerUpdates(c) ==
  /\ asked[c].op = "update"
  /\ stored' = [stored EXCEPT ![KeyOf(c)] = Record(KeyOf(c), asked[c].state)]
  /\ Respond(c, Reply("ok", {}))

\* RoseDB reports no error for a key that does not exist.
HandlerDeletes(c) ==
  /\ asked[c].op = "delete"
  /\ stored' = [n \in Key |-> IF n = KeyOf(c) THEN Nothing ELSE stored[n]]
  /\ Respond(c, Reply("ok", {}))

HandlerQueries(c) ==
  /\ asked[c].op = "query"
  /\ Respond(c, CASE At(KeyOf(c)) = Nothing -> Reply("not found", {})
                  [] At(KeyOf(c)) = Garbage -> Reply("undecodable", {})
                  [] OTHER -> Reply("ok", {At(KeyOf(c))}))
  /\ UNCHANGED stored

\* One record that does not decode fails the whole list.
HandlerLists(c) ==
  /\ asked[c].op = "list"
  /\ Respond(c, Listed({stored[n] : n \in Occupied}))
  /\ UNCHANGED stored

\* The one operation on the database that a request comes down to.
HandlerActs(c) ==
  /\ request[c] = "checked"
  /\ server \notin {"closed", "down"}
  /\ \/ HandlerHealthz(c) \/ HandlerUpdates(c) \/ HandlerDeletes(c)
     \/ HandlerQueries(c) \/ HandlerLists(c)
  /\ UNCHANGED <<clientVars, processVars>>

(* The database is closed.  Get, Put and Delete report that; the scan of a list
   ends where it cannot read on, which ascendPrefix does not report: the answer
   is ok, with what was seen.  The health check asks nobody.                  *)
HandlerFindsClosed(c) ==
  /\ request[c] = "checked"
  /\ server = "closed"
  /\ \/ HandlerHealthz(c)
     \/ asked[c].op \in {"update", "delete", "query"} /\ Respond(c, Refused)
     \/ /\ asked[c].op = "list"
        /\ \E seen \in SUBSET Occupied : Respond(c, Listed({stored[n] : n \in seen}))
  /\ UNCHANGED <<clientVars, stored, processVars>>

-----------------------------------------------------------------------------
(* The controller's process and what may happen while there is none *)

\* The context ends; Server.Run closes the server and returns; App closes the store.
Shutdown ==
  /\ \/ server = "running"   /\ server' = "cancelled"
     \/ server = "cancelled" /\ server' = "returned"
     \/ server = "returned"  /\ server' = "closed"
  /\ UNCHANGED <<clientVars, handlerVars, stored, restarts, edited>>

\* The process ends, or is killed; requests and replies on the way are lost.
ProcessEnds ==
  /\ server # "down"
  /\ restarts < MaxRestarts
  /\ server' = "down"
  /\ request' = [c \in Calls |-> IF request[c] = "none" THEN "none" ELSE "lost"]
  /\ UNCHANGED <<clientVars, reply, stored, restarts, edited>>

Restart ==
  /\ server = "down"
  /\ restarts' = restarts + 1
  /\ server' = "running"
  /\ UNCHANGED <<clientVars, handlerVars, stored, edited>>

\* rosedb-dump: put writes any bytes; delete and clear remove one key after another.
Dump(n, v) ==
  /\ server = "down"
  /\ stored' = [stored EXCEPT ![n] = v]
  /\ edited' = TRUE
  /\ UNCHANGED <<clientVars, handlerVars, server, restarts>>

-----------------------------------------------------------------------------

Client(c) == GiveUp(c) \/ Delivered(c) \/ CallFails(c) \/ TakeResult(c)

Handler(c) == HandlerRefuses(c) \/ HandlerChecks(c) \/ HandlerActs(c) \/ HandlerFindsClosed(c)

Next ==
  \/ \E c \in Calls : (\E r \in Requests : Ask(c, r)) \/ Client(c) \/ Handler(c)
  \/ Shutdown \/ ProcessEnds \/ Restart
  \/ \E n \in Key, v \in Storable : Dump(n, v)

Spec == Init /\ [][Next]_vars

\* Nothing need come back any more on the connection the request went out on.
Broken(c) == request[c] = "lost" \/ server \notin {"running", "cancelled"}

(* A broken connection is noticed, a handler comes to its end, and Go runs the
   goroutines.  Callers need not give up, nor the process end.               *)
FairSpec ==
  /\ Spec
  /\ \A c \in Calls :
       /\ WF_vars(Handler(c))
       /\ WF_vars(Delivered(c) \/ (Broken(c) /\ CallFails(c)))
       /\ WF_vars(TakeResult(c))

-----------------------------------------------------------------------------
(***************************************************************************)
(* The registry behind the API is one map on which every call acts at one  *)
(* instant, or not at all, or, when its caller was told of an error,       *)
(* perhaps later; whatever gives up, breaks, shuts down or restarts.       *)
(***************************************************************************)
Promise == INSTANCE AtomicRegistry
             WITH served <- CASE server = "down" -> "no"
                              [] server = "closed" -> "ending"
                              [] OTHER -> "yes",
                  result <- reply

ImplementsAtomicRegistry == Promise!Spec

(***************************************************************************)
(* While a controller has the database nothing else gets into it than      *)
(* states it acts upon, each under the name it gives, for the scanner adds *)
(* the name in the record and the worker asks for the key: whatever is     *)
(* asked, however late handlers run, and whatever rosedb-dump left there.  *)
(***************************************************************************)
OnlyUsableWritten ==
  [][\A n \in Key :
       server # "down" /\ stored'[n] \notin {stored[n], Nothing} =>
         /\ stored'[n] \in Records
         /\ stored'[n].name = n
         /\ stored'[n].state.action \in {"start", "stop"}
         /\ stored'[n].state.replicas \in Nat]_vars

Succeeded(c, op) == asked[c].op = op /\ answer[c].how = "ok"

\* Another call may have changed what c wrote: its end was not known before.
Disturbed(c) ==
  \/ edited
  \/ \E d \in Calls \ {c} : Writes(asked[d]) /\ KeyOf(c) = KeyOf(d) /\ d \notin settled[c]

(***************************************************************************)
(* An acknowledged update stands, also over a restart, until another call  *)
(* on the service that overlaps it, follows it, or once ended in an error: *)
(* nothing answered before it began can still overwrite it.                *)
(***************************************************************************)
AcknowledgedStands ==
  \A c \in Calls :
    Succeeded(c, "update") /\ ~Disturbed(c) =>
      stored[KeyOf(c)] = Record(KeyOf(c), asked[c].state)

(***************************************************************************)
(* The goroutine of every call ends, also when its caller has given up and *)
(* nobody receives from resultCh any more, whenever the process ends.      *)
(***************************************************************************)
GoroutinesEnd == \A c \in Calls : goroutine[c] = "calling" ~> goroutine[c] = "ended"
=============================================================================
