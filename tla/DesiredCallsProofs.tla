------------------------- MODULE DesiredCallsProofs -------------------------
(***************************************************************************)
(* Proofs about DesiredCalls for any calls, requests, names and number of  *)
(* restarts: that only usable states are stored, that an acknowledged      *)
(* update stands, and that the API implements AtomicRegistry.              *)
(***************************************************************************)
EXTENDS DesiredCalls, TLAPS

\* A call that has not begun has left no trace.
IdleUntouched ==
  \A c \in Calls :
    /\ caller[c] = "idle" <=> asked[c] = NoRequest
    /\ caller[c] = "idle" =>
         /\ goroutine[c] = "off" /\ request[c] = "none"
         /\ resultCh[c] = Pending /\ answer[c] = Pending /\ reply[c] = Pending

\* The handler responds once, at its end, and only what it has checked gets that far.
RespondsOnce ==
  \A c \in Calls :
    /\ request[c] \in {"sent", "checked"} => reply[c] = Pending
    /\ request[c] = "checked" \/ reply[c].how = "ok" => Valid(asked[c])
    /\ request[c] = "answered" => reply[c] # Pending
    /\ reply[c] # Error

\* The caller is told once, an error or the handler's response.
ToldOnce ==
  \A c \in Calls :
    /\ resultCh[c] \in {Pending, Error, reply[c]}
    /\ answer[c] \in {Pending, Error, reply[c]}
    /\ caller[c] = "waiting" => answer[c] = Pending
    /\ caller[c] = "waiting" /\ goroutine[c] = "ended" => resultCh[c] # Pending

\* A call whose end was known stays one whose end is known.
SettledStay == \A c \in Calls : \A d \in settled[c] : Told(answer[d])

\* AcknowledgedStands from the instant the handler has written, not only once told.
WrittenStands ==
  \A c \in Calls :
    asked[c].op = "update" /\ reply[c].how = "ok" /\ ~Disturbed(c) =>
      stored[KeyOf(c)] = Record(KeyOf(c), asked[c].state)

\* The bound on restarts: no process ends that may not be restarted.
RestartsLeft == server = "down" => restarts < MaxRestarts

\* The inductive invariant.
IInv ==
  /\ TypeOK /\ RestartsLeft /\ IdleUntouched /\ RespondsOnce /\ ToldOnce
  /\ SettledStay /\ WrittenStands

-----------------------------------------------------------------------------
\* The replies that mean something to the client are all different.
LEMMA ReplyKinds ==
  /\ Pending # Error /\ Pending # Refused /\ Error # Refused
  /\ Pending.how = "pending" /\ Error.how = "error" /\ Refused.how = "refused"
  /\ \A how, found : Reply(how, found).how = how
  /\ Pending \in Replies /\ Error \in Replies /\ Refused \in Replies
  /\ Reply("not found", {}) \in Replies /\ Reply("undecodable", {}) \in Replies
  /\ Reply("not found", {}) \notin {Pending, Error}
  /\ Reply("undecodable", {}) \notin {Pending, Error}
  /\ \A found \in SUBSET Records : Reply("ok", found) \in Replies \ {Pending, Error}
<1>1. \A how, found : Reply(how, found).how = how
  BY DEF Reply
<1>2. Pending.how = "pending" /\ Error.how = "error" /\ Refused.how = "refused"
  BY DEF Pending, Error, Refused, Reply
<1>3. Pending # Error /\ Pending # Refused /\ Error # Refused
  BY <1>2
<1>4. Replies =
        {Pending, Error, Refused, Reply("not found", {}), Reply("undecodable", {})} \union
        {Reply("ok", found) : found \in SUBSET Records}
  BY DEF Replies
<1>5. /\ Pending \in Replies /\ Error \in Replies /\ Refused \in Replies
      /\ Reply("not found", {}) \in Replies /\ Reply("undecodable", {}) \in Replies
  BY <1>4
<1>6. \A found \in SUBSET Records : Reply("ok", found) \in Replies \ {Pending, Error}
  <2> SUFFICES ASSUME NEW found \in SUBSET Records
               PROVE  Reply("ok", found) \in Replies \ {Pending, Error}
    OBVIOUS
  <2>1. Reply("ok", found).how = "ok"
    BY <1>1
  <2>2. Reply("ok", found) \notin {Pending, Error}
    BY <1>2, <2>1
  <2>3. Reply("ok", found) \in Replies
    BY <1>4
  <2> QED
    BY <2>2, <2>3
<1>7. Reply("not found", {}).how = "not found" /\ Reply("undecodable", {}).how = "undecodable"
  BY DEF Reply
<1>8. /\ Reply("not found", {}) \notin {Pending, Error}
      /\ Reply("undecodable", {}) \notin {Pending, Error}
  BY <1>2, <1>7
<1> QED
  BY <1>1, <1>2, <1>3, <1>5, <1>6, <1>8

\* What a valid request names is a key, and what it stores can be stored.
LEMMA ValidRequest ==
  ASSUME NEW r \in Requests, Valid(r)
  PROVE  /\ r # NoRequest
         /\ r.op \in {"healthz", "update", "delete", "query", "list"}
         /\ r.op \in {"update", "delete", "query"} => Trim(r.name) \in Key
         /\ r.op = "update" => Record(Trim(r.name), r.state) \in Records
<1>1. r.op \in {"healthz", "update", "delete", "query", "list"} /\ r # NoRequest
  BY ApiAssumption DEF NoRequest
<1>2. ASSUME r.op \in {"update", "delete", "query"}
      PROVE  Trim(r.name) \in Key
  <2>1. r.name \in Name /\ ValidName(r.name)
    BY <1>2, ApiAssumption DEF Valid
  <2> QED
    BY <2>1 DEF Key, Name, Trim, ValidName
<1>3. ASSUME r.op = "update"
      PROVE  Record(Trim(r.name), r.state) \in Records
  <2>1. Trim(r.name) \in Name
    BY <1>2, <1>3 DEF Key
  <2>2. r.state \in Decodable
    BY <1>3, ApiAssumption DEF Valid, ValidState
  <2> QED
    BY <2>1, <2>2 DEF Records
<1> QED
  BY <1>1, <1>2, <1>3

\* What is stored and decodes is a record, which is neither nothing nor garbage.
LEMMA RecordKinds ==
  /\ Storable \ {Nothing, Garbage} = Records
  /\ Nothing # Garbage
<1>1. \A v \in Records : v.kind = "state"
  BY DEF Records, Record
<1>2. Nothing.kind = "nothing" /\ Garbage.kind = "garbage"
  BY DEF Nothing, Garbage
<1> QED
  BY <1>1, <1>2 DEF Storable

\* What the handlers find in the registry, or in a part of it, makes a reply.
LEMMA FoundReplies ==
  ASSUME stored \in [Key -> Storable]
  PROVE  /\ \A n \in Key : stored[n] \notin {Nothing, Garbage} =>
               Reply("ok", {stored[n]}) \in Replies \ {Pending, Error}
         /\ \A seen \in SUBSET Occupied :
               Listed({stored[n] : n \in seen}) \in Replies \ {Pending, Error}
<1>1. \A n \in Key : stored[n] \notin {Nothing, Garbage} => stored[n] \in Records
  BY RecordKinds
<1>2. ASSUME NEW seen \in SUBSET Occupied
      PROVE  Listed({stored[n] : n \in seen}) \in Replies \ {Pending, Error}
  <2> DEFINE values == {stored[n] : n \in seen}
  <2>1. CASE Garbage \in values
    <3>1. Listed(values) = Reply("undecodable", {})
      BY <2>1 DEF Listed
    <3> QED
      BY <3>1, ReplyKinds
  <2>2. CASE Garbage \notin values
    <3>1. Listed(values) = Reply("ok", values)
      BY <2>2 DEF Listed
    <3>2. ASSUME NEW n \in seen
          PROVE  stored[n] \in Records
      BY <1>1, <2>2, <3>2 DEF Occupied
    <3>3. values \in SUBSET Records
      BY <3>2
    <3> HIDE DEF values
    <3>4. Listed(values) \in Replies \ {Pending, Error}
      BY <3>1, <3>3, ReplyKinds
    <3> QED
      BY <3>4 DEF values
  <2> QED
    BY <2>1, <2>2
<1> QED
  BY <1>1, <1>2, ReplyKinds

\* The initial states satisfy the invariant.
LEMMA InitInv == Init => IInv
<1> SUFFICES ASSUME Init PROVE IInv
  OBVIOUS
<1>1. TypeOK
  <2>1. stored \in [Key -> Storable] /\ restarts \in 0 .. MaxRestarts
    BY CallsAssumption DEF Init
  <2>2. /\ asked \in [Calls -> Requests \union {NoRequest}]
        /\ settled \in [Calls -> SUBSET Calls]
    BY DEF Init
  <2>3. /\ resultCh \in [Calls -> Replies]
        /\ answer \in [Calls -> Replies]
        /\ reply \in [Calls -> Replies]
    BY ReplyKinds DEF Init
  <2> QED
    BY <2>1, <2>2, <2>3 DEF Init, TypeOK
<1>2. RestartsLeft /\ IdleUntouched /\ RespondsOnce /\ ToldOnce /\ SettledStay
  BY ReplyKinds DEF Init, RestartsLeft, IdleUntouched, RespondsOnce, ToldOnce, SettledStay
<1>3. WrittenStands
  BY DEF Init, WrittenStands, NoRequest
<1> QED
  BY <1>1, <1>2, <1>3 DEF IInv

-----------------------------------------------------------------------------
(* The client *)

\* What the registry's side of a call comes from is as it was.
LEMMA StandsKept ==
  ASSUME WrittenStands, UNCHANGED <<asked, reply, stored, settled, edited>>
  PROVE  WrittenStands'
BY DEF WrittenStands, Disturbed, KeyOf

\* A new call disturbs those that have begun before it only once it is told of an end.
LEMMA AskInv ==
  ASSUME IInv, NEW c \in Calls, NEW r \in Requests, Ask(c, r)
  PROVE  IInv'
<1> USE DEF IInv
<1>1. r # NoRequest
  BY ApiAssumption DEF NoRequest
<1>2. /\ asked' \in [Calls -> Requests \union {NoRequest}]
      /\ asked'[c] = r /\ caller'[c] = "waiting" /\ goroutine'[c] = "calling"
      /\ request'[c] \in {"sent", "lost"}
      /\ settled'[c] = {d \in Calls : Told(answer[d])}
      /\ asked[c] = NoRequest /\ reply[c] = Pending
      /\ resultCh[c] = Pending /\ answer[c] = Pending
  BY DEF Ask, TypeOK, IdleUntouched
<1>3. /\ UNCHANGED <<resultCh, answer, reply, stored, server, restarts, edited>>
      /\ \A d \in Calls \ {c} :
           /\ asked'[d] = asked[d] /\ caller'[d] = caller[d]
           /\ goroutine'[d] = goroutine[d] /\ request'[d] = request[d]
           /\ settled'[d] = settled[d]
  BY DEF Ask, TypeOK, processVars
<1>4. TypeOK' /\ RestartsLeft'
  BY <1>2, <1>3 DEF Ask, TypeOK, RestartsLeft
<1>5. IdleUntouched'
  BY <1>1, <1>2, <1>3 DEF IdleUntouched
<1>6. RespondsOnce'
  BY <1>2, <1>3, ReplyKinds DEF RespondsOnce
<1>7. ToldOnce'
  BY <1>2, <1>3 DEF ToldOnce
<1>8. SettledStay'
  BY <1>2, <1>3 DEF SettledStay
<1>9. WrittenStands'
  <2> SUFFICES ASSUME NEW d \in Calls,
                      asked'[d].op = "update", reply'[d].how = "ok", ~Disturbed(d)'
               PROVE  stored'[KeyOf(d)'] = Record(KeyOf(d)', asked'[d].state)
    BY DEF WrittenStands
  <2>1. d # c
    BY <1>2, <1>3, ReplyKinds
  <2>2. asked'[d] = asked[d] /\ KeyOf(d)' = KeyOf(d)
    BY <1>3, <2>1 DEF KeyOf
  <2>3. ~Writes(asked[c])
    BY <1>2 DEF Writes, NoRequest
  <2>4. ~Disturbed(d)
    BY <1>3, <2>1, <2>2, <2>3 DEF Disturbed, KeyOf
  <2> QED
    BY <1>3, <2>2, <2>4 DEF WrittenStands
<1> QED
  BY <1>4, <1>5, <1>6, <1>7, <1>8, <1>9

\* The caller leaves its select, with an error or with the result that is there.
LEMMA ReturnInv ==
  ASSUME IInv, NEW c \in Calls, GiveUp(c) \/ TakeResult(c)
  PROVE  /\ IInv'
         /\ asked[c] # NoRequest /\ answer[c] = Pending
         /\ answer' = [answer EXCEPT ![c] = answer'[c]]
         /\ answer'[c] \in {reply[c], Error} \ {Pending}
<1> USE DEF IInv
<1>1. /\ caller[c] = "waiting" /\ asked[c] # NoRequest /\ answer[c] = Pending
      /\ caller' = [caller EXCEPT ![c] = "returned"]
      /\ resultCh' = [resultCh EXCEPT ![c] = Pending]
      /\ UNCHANGED <<asked, goroutine, settled, request, reply, stored, server, restarts, edited>>
  BY DEF GiveUp, TakeResult, IdleUntouched, ToldOnce, handlerVars, processVars
<1>2. answer' = [answer EXCEPT ![c] = answer'[c]] /\ answer'[c] \in {reply[c], Error} \ {Pending}
  <2>1. answer \in [Calls -> Replies]
    BY DEF TypeOK
  <2>2. CASE GiveUp(c)
    <3>1. answer' = [answer EXCEPT ![c] = Error]
      BY <2>2 DEF GiveUp
    <3>2. answer'[c] = Error
      BY <2>1, <3>1
    <3> QED
      BY <3>1, <3>2, ReplyKinds
  <2>3. CASE TakeResult(c)
    <3>1. answer' = [answer EXCEPT ![c] = resultCh[c]] /\ goroutine[c] = "ended"
      BY <2>3 DEF TakeResult
    <3>2. answer'[c] = resultCh[c]
      BY <2>1, <3>1
    <3>3. resultCh[c] \in {reply[c], Error} \ {Pending}
      BY <1>1, <3>1 DEF ToldOnce
    <3> QED
      BY <3>1, <3>2, <3>3
  <2> QED
    BY <2>2, <2>3
<1>3. /\ answer'[c] \in Replies
      /\ resultCh' \in [Calls -> Replies]
      /\ caller' \in [Calls -> {"idle", "waiting", "returned"}]
  BY <1>1, <1>2, ReplyKinds DEF TypeOK
<1>4. TypeOK'
  <2>1. answer' \in [Calls -> Replies]
    BY <1>2, <1>3 DEF TypeOK
  <2> QED
    BY <1>1, <1>3, <2>1 DEF TypeOK
<1>5. RestartsLeft' /\ IdleUntouched'
  BY <1>1, <1>2 DEF RestartsLeft, IdleUntouched, TypeOK
<1>6. RespondsOnce'
  BY <1>1 DEF RespondsOnce
<1>7. ToldOnce'
  BY <1>1, <1>2 DEF ToldOnce, TypeOK
<1>8. SettledStay'
  BY <1>1, <1>2 DEF SettledStay, TypeOK, Told
<1>9. WrittenStands'
  BY <1>1, StandsKept
<1> QED
  BY <1>1, <1>2, <1>4, <1>5, <1>6, <1>7, <1>8, <1>9

\* The goroutine puts down what rpc.Call returned, if somebody waits for it.
LEMMA PutResultInv ==
  ASSUME IInv, NEW c \in Calls, Delivered(c) \/ CallFails(c)
  PROVE  IInv'
<1> USE DEF IInv
<1>1. PICK how \in {reply[c], Error} \ {Pending} : PutResult(c, how)
  BY ReplyKinds DEF Delivered, CallFails, RespondsOnce
<1>2. /\ goroutine[c] = "calling"
      /\ goroutine' = [goroutine EXCEPT ![c] = "ended"]
      /\ resultCh' = [resultCh EXCEPT ![c] = IF caller[c] = "waiting" THEN how ELSE Pending]
      /\ UNCHANGED <<asked, caller, answer, settled, request, reply, stored, server, restarts, edited>>
  BY <1>1 DEF Delivered, CallFails, PutResult, handlerVars, processVars
<1>3. TypeOK' /\ RestartsLeft'
  BY <1>1, <1>2, ReplyKinds DEF TypeOK, RestartsLeft
<1>4. caller[c] # "idle"
  BY <1>2 DEF IdleUntouched
<1>5. IdleUntouched'
  BY <1>2, <1>4 DEF IdleUntouched, TypeOK
<1>6. RespondsOnce'
  BY <1>2 DEF RespondsOnce
<1>7. ToldOnce'
  BY <1>1, <1>2 DEF ToldOnce, TypeOK
<1>8. SettledStay'
  BY <1>2 DEF SettledStay
<1>9. WrittenStands'
  BY <1>2, StandsKept
<1> QED
  BY <1>3, <1>5, <1>6, <1>7, <1>8, <1>9

-----------------------------------------------------------------------------
(* The server *)

\* A handler that comes to its end responds, once; what the caller knows is as it was.
LEMMA RespondInv ==
  ASSUME IInv, NEW c \in Calls, NEW how \in Replies \ {Pending, Error},
         request[c] \in {"sent", "checked"}, Respond(c, how),
         how.how = "ok" => request[c] = "checked",
         stored' \in [Key -> Storable], UNCHANGED <<clientVars, processVars>>
  PROVE  /\ TypeOK' /\ RestartsLeft' /\ IdleUntouched'
         /\ RespondsOnce' /\ ToldOnce' /\ SettledStay'
         /\ asked[c] # NoRequest /\ reply[c] = Pending
         /\ reply'[c] = how /\ \A d \in Calls \ {c} : reply'[d] = reply[d]
<1> USE DEF IInv, clientVars, processVars
<1>1. /\ request' \in [Calls -> {"none", "sent", "checked", "answered", "lost"}]
      /\ reply' \in [Calls -> Replies]
      /\ request'[c] = "answered" /\ reply'[c] = how
      /\ \A d \in Calls \ {c} : request'[d] = request[d] /\ reply'[d] = reply[d]
  BY DEF Respond, TypeOK
<1>2. asked[c] # NoRequest /\ caller[c] # "idle" /\ reply[c] = Pending
  BY DEF IdleUntouched, RespondsOnce
<1>3. TypeOK' /\ RestartsLeft'
  BY <1>1 DEF TypeOK, RestartsLeft
<1>4. IdleUntouched'
  BY <1>1, <1>2 DEF IdleUntouched
<1>5. RespondsOnce'
  BY <1>1, <1>2 DEF RespondsOnce
<1>6. ToldOnce'
  BY <1>1, <1>2 DEF ToldOnce
<1>7. SettledStay'
  BY DEF SettledStay
<1> QED
  BY <1>1, <1>2, <1>3, <1>4, <1>5, <1>6, <1>7

\* A call that is told of its end can no longer write.
LEMMA SettledIsOver ==
  ASSUME IInv, NEW c \in Calls, NEW d \in settled[c]
  PROVE  request[d] \notin {"sent", "checked"}
<1>1. d \in Calls /\ Told(answer[d]) /\ answer[d] \in {Pending, Error, reply[d]}
  BY DEF IInv, TypeOK, SettledStay, ToldOnce
<1>2. reply[d] # Pending
  BY <1>1 DEF Told
<1> QED
  BY <1>1, <1>2 DEF IInv, RespondsOnce

\* A handler that writes nothing may respond anything, but not that an update is done.
LEMMA RespondsOnly ==
  ASSUME IInv, NEW c \in Calls, NEW how \in Replies \ {Pending, Error},
         request[c] \in {"sent", "checked"}, Respond(c, how),
         how.how = "ok" => request[c] = "checked" /\ asked[c].op # "update",
         UNCHANGED <<clientVars, stored, processVars>>
  PROVE  IInv'
<1>1. /\ TypeOK' /\ RestartsLeft' /\ IdleUntouched'
      /\ RespondsOnce' /\ ToldOnce' /\ SettledStay'
      /\ reply'[c] = how /\ \A d \in Calls \ {c} : reply'[d] = reply[d]
  <2>1. stored' \in [Key -> Storable]
    BY DEF IInv, TypeOK
  <2> QED
    BY <2>1, RespondInv
<1>2. WrittenStands'
  BY <1>1 DEF IInv, WrittenStands, Disturbed, KeyOf, clientVars, processVars
<1> QED
  BY <1>1, <1>2 DEF IInv

\* A refused call has written nothing and says so.
LEMMA RefuseInv ==
  ASSUME IInv, NEW c \in Calls, HandlerRefuses(c)
  PROVE  IInv'
<1>1. Refused \in Replies \ {Pending, Error} /\ Refused.how # "ok"
  BY ReplyKinds
<1> QED
  BY <1>1, RespondsOnly DEF HandlerRefuses

(***************************************************************************)
(* What a handler that finds the database closed responds: that, or to a   *)
(* health check as always, or a part of the list.                          *)
(***************************************************************************)
LEMMA FindsClosedOutcome ==
  ASSUME IInv, NEW c \in Calls, HandlerFindsClosed(c)
  PROVE  /\ request[c] = "checked" /\ server = "closed"
         /\ UNCHANGED <<clientVars, stored, processVars>>
         /\ \/ asked[c].op = "healthz" /\ Respond(c, Reply("ok", {}))
            \/ Respond(c, Refused)
            \/ /\ asked[c].op = "list"
               /\ \E seen \in SUBSET Occupied : Respond(c, Listed({stored[n] : n \in seen}))
BY DEF HandlerFindsClosed, HandlerHealthz

\* A handler that finds the database closed writes nothing and says of no update that it did.
LEMMA FindsClosedInv ==
  ASSUME IInv, NEW c \in Calls, HandlerFindsClosed(c)
  PROVE  IInv'
<1>1. request[c] = "checked" /\ UNCHANGED <<clientVars, stored, processVars>>
  BY FindsClosedOutcome
<1>2. CASE asked[c].op = "healthz" /\ Respond(c, Reply("ok", {}))
  <2>1. Reply("ok", {}) \in Replies \ {Pending, Error}
    BY ReplyKinds
  <2> QED
    BY <1>1, <1>2, <2>1, RespondsOnly
<1>3. CASE Respond(c, Refused)
  <2>1. Refused \in Replies \ {Pending, Error} /\ Refused.how # "ok"
    BY ReplyKinds
  <2> QED
    BY <1>1, <1>3, <2>1, RespondsOnly
<1>4. ASSUME asked[c].op = "list", NEW seen \in SUBSET Occupied,
             Respond(c, Listed({stored[n] : n \in seen}))
      PROVE  IInv'
  <2> DEFINE how == Listed({stored[n] : n \in seen})
  <2>1. how \in Replies \ {Pending, Error}
    BY FoundReplies DEF IInv, TypeOK
  <2>2. Respond(c, how) /\ asked[c].op # "update"
    BY <1>4
  <2> HIDE DEF how
  <2> QED
    BY <1>1, <2>1, <2>2, RespondsOnly
<1> QED
  BY <1>2, <1>3, <1>4, FindsClosedOutcome

\* The handler has looked at everything but the database.
LEMMA CheckInv ==
  ASSUME IInv, NEW c \in Calls, HandlerChecks(c)
  PROVE  IInv'
<1> USE DEF IInv
<1>1. /\ request[c] = "sent" /\ Valid(asked[c])
      /\ request' = [request EXCEPT ![c] = "checked"]
      /\ UNCHANGED <<asked, caller, goroutine, resultCh, answer, settled, reply, stored,
                     server, restarts, edited>>
  BY DEF HandlerChecks, clientVars, processVars
<1>2. TypeOK' /\ RestartsLeft'
  BY <1>1 DEF TypeOK, RestartsLeft
<1>3. IdleUntouched'
  BY <1>1 DEF IdleUntouched, TypeOK
<1>4. RespondsOnce'
  BY <1>1 DEF RespondsOnce, TypeOK
<1>5. ToldOnce' /\ SettledStay'
  BY <1>1 DEF ToldOnce, SettledStay
<1>6. WrittenStands'
  BY <1>1, StandsKept
<1> QED
  BY <1>2, <1>3, <1>4, <1>5, <1>6

(***************************************************************************)
(* A handler that works on the database leaves it and the response as a    *)
(* valid request's action of AtomicRegistry does.                          *)
(***************************************************************************)
LEMMA ActOutcome ==
  ASSUME IInv, NEW c \in Calls, HandlerActs(c)
  PROVE  /\ request[c] = "checked" /\ Valid(asked[c]) /\ asked[c] \in Requests
         /\ stored' \in [Key -> Storable]
         /\ \E how \in Replies \ {Pending, Error} : Respond(c, how)
         /\ stored' # stored => Writes(asked[c])
         /\ \A n \in Key : n # KeyOf(c) => stored'[n] = stored[n]
         /\ asked[c].op = "update" => stored'[KeyOf(c)] = Record(KeyOf(c), asked[c].state)
         /\ UNCHANGED <<clientVars, processVars>>
<1> USE DEF IInv
<1>1. request[c] = "checked" /\ Valid(asked[c]) /\ UNCHANGED <<clientVars, processVars>>
  BY DEF HandlerActs, RespondsOnce
<1>2. asked[c] \in Requests
  BY <1>1 DEF IdleUntouched, TypeOK
<1>3. /\ asked[c].op \in {"update", "delete", "query"} => KeyOf(c) \in Key
      /\ asked[c].op = "update" => Record(KeyOf(c), asked[c].state) \in Storable
  BY <1>1, <1>2, ValidRequest DEF KeyOf, Storable
<1>4. Nothing \in Storable
  BY DEF Storable
<1>5. {} \in SUBSET Records
  OBVIOUS
<1>6. \A found \in SUBSET Records : Reply("ok", found) \in Replies \ {Pending, Error}
  BY ReplyKinds
<1>7. /\ Reply("not found", {}) \in Replies \ {Pending, Error}
      /\ Reply("undecodable", {}) \in Replies \ {Pending, Error}
  BY ReplyKinds
<1>8. CASE HandlerHealthz(c)
  BY <1>1, <1>2, <1>5, <1>6, <1>8 DEF HandlerHealthz, TypeOK
<1>9. CASE HandlerUpdates(c)
  <2>1. stored' \in [Key -> Storable] /\ stored'[KeyOf(c)] = Record(KeyOf(c), asked[c].state)
        /\ \A n \in Key : n # KeyOf(c) => stored'[n] = stored[n]
    BY <1>3, <1>9 DEF HandlerUpdates, TypeOK
  <2> QED
    BY <1>1, <1>2, <1>5, <1>6, <1>9, <2>1 DEF HandlerUpdates, Writes
<1>10. CASE HandlerDeletes(c)
  <2>1. stored' \in [Key -> Storable]
        /\ \A n \in Key : n # KeyOf(c) => stored'[n] = stored[n]
    BY <1>4, <1>10 DEF HandlerDeletes, TypeOK
  <2> QED
    BY <1>1, <1>2, <1>5, <1>6, <1>10, <2>1 DEF HandlerDeletes, Writes
<1>11. CASE HandlerQueries(c)
  <2>1. KeyOf(c) \in Key /\ At(KeyOf(c)) = stored[KeyOf(c)]
    BY <1>3, <1>11 DEF HandlerQueries, At
  <2>2. \E how \in Replies \ {Pending, Error} : Respond(c, how)
    <3>1. CASE At(KeyOf(c)) = Nothing
      BY <1>7, <1>11, <3>1 DEF HandlerQueries
    <3>2. CASE At(KeyOf(c)) = Garbage /\ At(KeyOf(c)) # Nothing
      BY <1>7, <1>11, <3>2 DEF HandlerQueries
    <3>3. CASE At(KeyOf(c)) \notin {Nothing, Garbage}
      <4>1. Respond(c, Reply("ok", {At(KeyOf(c))}))
        BY <1>11, <3>3 DEF HandlerQueries
      <4>2. Reply("ok", {At(KeyOf(c))}) \in Replies \ {Pending, Error}
        BY <2>1, <3>3, FoundReplies DEF TypeOK
      <4> QED
        BY <4>1, <4>2
    <3> QED
      BY <3>1, <3>2, <3>3
  <2> QED
    BY <1>1, <1>2, <1>11, <2>2 DEF HandlerQueries, TypeOK
<1>12. CASE HandlerLists(c)
  <2>1. \E how \in Replies \ {Pending, Error} : Respond(c, how)
    <3>1. Listed({stored[n] : n \in Occupied}) \in Replies \ {Pending, Error}
      BY FoundReplies DEF TypeOK
    <3> QED
      BY <1>12, <3>1 DEF HandlerLists
  <2> QED
    BY <1>1, <1>2, <1>12, <2>1 DEF HandlerLists, TypeOK
<1> QED
  BY <1>8, <1>9, <1>10, <1>11, <1>12 DEF HandlerActs

\* A write leaves alone what an undisturbed call has written.
LEMMA ActInv ==
  ASSUME IInv, NEW c \in Calls, HandlerActs(c)
  PROVE  IInv'
<1>1. /\ request[c] = "checked" /\ UNCHANGED <<clientVars, processVars>>
      /\ stored' \in [Key -> Storable]
      /\ stored' # stored => Writes(asked[c])
      /\ \A n \in Key : n # KeyOf(c) => stored'[n] = stored[n]
      /\ asked[c].op = "update" => stored'[KeyOf(c)] = Record(KeyOf(c), asked[c].state)
  BY ActOutcome
<1>2. PICK how \in Replies \ {Pending, Error} : Respond(c, how)
  BY ActOutcome
<1>3. /\ TypeOK' /\ RestartsLeft' /\ IdleUntouched'
      /\ RespondsOnce' /\ ToldOnce' /\ SettledStay'
      /\ \A d \in Calls \ {c} : reply'[d] = reply[d]
  BY <1>1, <1>2, RespondInv
<1>4. WrittenStands'
  <2> SUFFICES ASSUME NEW d \in Calls,
                      asked[d].op = "update", reply'[d].how = "ok", ~Disturbed(d)
               PROVE  stored'[KeyOf(d)] = Record(KeyOf(d), asked[d].state)
    BY <1>1 DEF WrittenStands, Disturbed, KeyOf, clientVars, processVars
  <2>1. CASE d = c
    BY <1>1, <2>1
  <2>2. CASE d # c
    <3>1. stored[KeyOf(d)] = Record(KeyOf(d), asked[d].state)
      BY <1>3, <2>2 DEF IInv, WrittenStands
    <3>2. c \notin settled[d]
      BY <1>1, SettledIsOver
    <3>3. Writes(asked[c]) => KeyOf(d) # KeyOf(c)
      BY <2>2, <3>2 DEF Disturbed
    <3>4. KeyOf(d) \in Key
      <4>1. reply[d].how = "ok" /\ Valid(asked[d])
        BY <1>3, <2>2 DEF IInv, RespondsOnce
      <4>2. reply[d] # Pending
        BY <4>1, ReplyKinds
      <4>3. asked[d] # NoRequest
        BY <4>2 DEF IInv, IdleUntouched
      <4>4. asked[d] \in Requests
        BY <4>3 DEF IInv, TypeOK
      <4> QED
        BY <4>1, <4>4, ValidRequest DEF KeyOf
    <3> QED
      BY <1>1, <3>1, <3>3, <3>4
  <2> QED
    BY <2>1, <2>2
<1> QED
  BY <1>3, <1>4 DEF IInv

-----------------------------------------------------------------------------
(* The process *)

\* Requests on the way are lost with the process; the registry is not.
LEMMA ProcessInv ==
  ASSUME IInv, Shutdown \/ ProcessEnds \/ Restart \/ UNCHANGED vars
  PROVE  IInv'
<1> USE DEF IInv
<1>1. UNCHANGED <<asked, caller, goroutine, resultCh, answer, settled, reply, stored, edited>>
  BY DEF Shutdown, ProcessEnds, Restart, vars, clientVars, handlerVars, processVars
<1>2. /\ request' \in [Calls -> {"none", "sent", "checked", "answered", "lost"}]
      /\ \A c \in Calls :
           request'[c] = request[c] \/ (request[c] # "none" /\ request'[c] = "lost")
  BY DEF Shutdown, ProcessEnds, Restart, vars, clientVars, handlerVars, processVars, TypeOK
<1>3. server' \in {"running", "cancelled", "returned", "closed", "down"}
  BY DEF Shutdown, ProcessEnds, Restart, vars, processVars, TypeOK
<1>4. restarts' \in 0 .. MaxRestarts /\ RestartsLeft'
  BY CallsAssumption
     DEF Shutdown, ProcessEnds, Restart, vars, processVars, TypeOK, RestartsLeft
<1>5. TypeOK'
  BY <1>1, <1>2, <1>3, <1>4 DEF TypeOK
<1>6. IdleUntouched'
  BY <1>1, <1>2 DEF IdleUntouched
<1>7. RespondsOnce'
  BY <1>1, <1>2 DEF RespondsOnce
<1>8. ToldOnce' /\ SettledStay'
  BY <1>1 DEF ToldOnce, SettledStay
<1>9. WrittenStands'
  BY <1>1, StandsKept
<1> QED
  BY <1>4, <1>5, <1>6, <1>7, <1>8, <1>9

\* Nothing written before an edit of the files counts as undisturbed.
LEMMA DumpInv ==
  ASSUME IInv, NEW n \in Key, NEW v \in Storable, Dump(n, v)
  PROVE  IInv'
<1> USE DEF IInv
<1>1. /\ UNCHANGED <<asked, caller, goroutine, resultCh, answer, settled, request, reply,
                     server, restarts>>
      /\ edited' = TRUE /\ stored' \in [Key -> Storable]
  BY DEF Dump, clientVars, handlerVars, TypeOK
<1>2. TypeOK' /\ RestartsLeft'
  BY <1>1 DEF TypeOK, RestartsLeft
<1>3. IdleUntouched' /\ RespondsOnce' /\ ToldOnce' /\ SettledStay'
  BY <1>1 DEF IdleUntouched, RespondsOnce, ToldOnce, SettledStay
<1>4. WrittenStands'
  BY <1>1 DEF WrittenStands, Disturbed
<1> QED
  BY <1>2, <1>3, <1>4

\* Every step preserves the invariant.
LEMMA NextInv == IInv /\ [Next]_vars => IInv'
<1> SUFFICES ASSUME IInv, [Next]_vars PROVE IInv'
  OBVIOUS
<1>1. CASE \E c \in Calls, r \in Requests : Ask(c, r)
  BY <1>1, AskInv
<1>2. CASE \E c \in Calls : Client(c)
  BY <1>2, ReturnInv, PutResultInv DEF Client
<1>3. CASE \E c \in Calls : Handler(c)
  BY <1>3, RefuseInv, CheckInv, ActInv, FindsClosedInv DEF Handler
<1>4. CASE Shutdown \/ ProcessEnds \/ Restart \/ UNCHANGED vars
  BY <1>4, ProcessInv
<1>5. CASE \E n \in Key, v \in Storable : Dump(n, v)
  BY <1>5, DumpInv
<1> QED
  BY <1>1, <1>2, <1>3, <1>4, <1>5 DEF Next

\* The invariant holds in every reachable state.
THEOREM Invariant == Spec => []IInv
  BY InitInv, NextInv, PTL DEF Spec

\* The calls' variables keep their types: only storable values are ever in the registry.
THEOREM TypeCorrect == Spec => []TypeOK
  BY Invariant, PTL DEF IInv

(***************************************************************************)
(* What gets into the database while a controller has it, other than by    *)
(* being there, is a state the worker acts upon, under the name it gives;  *)
(* for any requests, and whatever the database holds already.              *)
(***************************************************************************)
THEOREM OnlyUsable == Spec => OnlyUsableWritten
<1> DEFINE Usable(n, v) == /\ v \in Records /\ v.name = n
                           /\ v.state.action \in {"start", "stop"}
                           /\ v.state.replicas \in Nat
           Kept == \A n \in Key :
                     server # "down" /\ stored'[n] \notin {stored[n], Nothing} =>
                       /\ stored'[n] \in Records
                       /\ stored'[n].name = n
                       /\ stored'[n].state.action \in {"start", "stop"}
                       /\ stored'[n].state.replicas \in Nat
<1>1. ASSUME NEW r \in Requests, Valid(r), r.op = "update"
      PROVE  Usable(Trim(r.name), Record(Trim(r.name), r.state))
  <2>1. r.state.action \in {"start", "stop"} /\ r.state.replicas \in Nat
    BY <1>1, ApiAssumption DEF Valid, ValidState
  <2>2. Record(Trim(r.name), r.state) \in Records
    BY <1>1, ValidRequest
  <2> QED
    BY <2>1, <2>2 DEF Record
<1>2. ASSUME IInv, [Next]_vars, NEW n \in Key,
             server # "down", stored'[n] \notin {stored[n], Nothing}
      PROVE  Usable(n, stored'[n])
  <2>1. PICK c \in Calls : HandlerActs(c) /\ stored' # stored
    BY <1>2 DEF Next, Client, Handler, Ask, GiveUp, Delivered, CallFails, TakeResult,
                HandlerRefuses, HandlerChecks, HandlerFindsClosed, Shutdown, ProcessEnds,
                Restart, Dump, vars, handlerVars, clientVars, processVars
  <2>2. n = KeyOf(c)
    BY <1>2, <2>1, ActOutcome
  <2>3. asked[c].op # "delete"
    BY <1>2, <2>1, <2>2 DEF HandlerActs, HandlerHealthz, HandlerUpdates, HandlerDeletes,
                            HandlerQueries, HandlerLists
  <2>4. asked[c].op = "update" /\ asked[c] \in Requests /\ Valid(asked[c])
    BY <1>2, <2>1, <2>3, ActOutcome DEF Writes
  <2>5. stored'[n] = Record(KeyOf(c), asked[c].state)
    BY <1>2, <2>1, <2>2, <2>4, ActOutcome
  <2> QED
    BY <1>1, <2>2, <2>4, <2>5 DEF KeyOf
<1>3. IInv /\ [Next]_vars => [Kept]_vars
  BY <1>2
<1>4. Spec => [][Next]_vars
  BY PTL DEF Spec
<1> HIDE DEF Kept
<1>5. Spec => [][Kept]_vars
  BY <1>3, <1>4, Invariant, PTL
<1> QED
  BY <1>5 DEF OnlyUsableWritten, Kept

\* An update that its caller knows to have succeeded stands until another call disturbs it.
THEOREM Acknowledged == Spec => []AcknowledgedStands
<1>1. IInv => AcknowledgedStands
  BY ReplyKinds DEF IInv, ToldOnce, WrittenStands, AcknowledgedStands, Succeeded
<1> QED
  BY <1>1, Invariant, PTL

-----------------------------------------------------------------------------
\* AtomicRegistry speaks of requests, keys and replies as DesiredCalls does.
LEMMA SameVocabulary ==
  /\ Promise!Key = Key /\ Promise!Storable = Storable
  /\ Promise!Nothing = Nothing /\ Promise!Garbage = Garbage
  /\ Promise!NoRequest = NoRequest /\ Promise!Pending = Pending
  /\ Promise!Error = Error /\ Promise!Refused = Refused
  /\ Promise!Occupied = Occupied
  /\ \A r : Promise!Valid(r) <=> Valid(r)
  /\ \A r : Promise!Writes(r) <=> Writes(r)
  /\ \A n : Promise!Trim(n) = Trim(n)
  /\ \A n, st : Promise!Record(n, st) = Record(n, st)
  /\ \A values : Promise!Listed(values) = Listed(values)
  /\ \A how, found : Promise!Reply(how, found) = Reply(how, found)
<1>1. \A r : Promise!Valid(r) <=> Valid(r)
  BY DEF Valid, ValidName, ValidState, Promise!Valid, Promise!ValidName, Promise!ValidState
<1>2. Promise!Nothing = Nothing /\ Promise!Garbage = Garbage
  BY DEF Nothing, Garbage, Promise!Nothing, Promise!Garbage
<1>3. \A n, st : Promise!Record(n, st) = Record(n, st)
  BY DEF Record, Promise!Record
<1>4. \A n : Promise!Trim(n) = Trim(n)
  BY DEF Trim, Promise!Trim
<1>5. \A how, found : Promise!Reply(how, found) = Reply(how, found)
  BY DEF Reply, Promise!Reply
<1>6. \A values : Promise!Listed(values) = Listed(values)
  BY <1>2, <1>5 DEF Listed, Promise!Listed
<1>7. Promise!Storable = Storable
  <2>1. Promise!Records = Records
    BY <1>3 DEF Records, Promise!Records, Name, Promise!Name
  <2> QED
    BY <1>2, <2>1 DEF Storable, Promise!Storable
<1>8. Promise!Key = Key
  BY <1>4 DEF Key, Promise!Key, ValidName, Promise!ValidName, Name, Promise!Name
<1>9. Promise!NoRequest = NoRequest
  BY DEF NoRequest, Promise!NoRequest
<1>10. /\ Promise!Pending = Pending /\ Promise!Error = Error /\ Promise!Refused = Refused
  BY <1>5 DEF Pending, Promise!Pending, Error, Promise!Error, Refused, Promise!Refused
<1>11. Promise!Occupied = Occupied
  BY <1>2, <1>8 DEF Occupied, Promise!Occupied
<1>12. \A r : Promise!Writes(r) <=> Writes(r)
  BY DEF Writes, Promise!Writes
<1> QED
  BY <1>1, <1>2, <1>3, <1>4, <1>5, <1>6, <1>7, <1>8, <1>9, <1>10, <1>11, <1>12

\* The handler's response is what the request answers at this instant.
LEMMA OutcomeIsReply ==
  ASSUME IInv, NEW c \in Calls, HandlerActs(c)
  PROVE  Respond(c, Promise!Outcome(asked[c]))
<1> USE SameVocabulary
<1>1. asked[c] \in Requests /\ Valid(asked[c])
  BY ActOutcome
<1>2. asked[c].op = "query" => At(KeyOf(c)) = stored[KeyOf(c)]
  BY <1>1, ValidRequest DEF At, KeyOf
<1>3. CASE HandlerHealthz(c)
  BY <1>3 DEF HandlerHealthz, Promise!Outcome
<1>4. CASE HandlerUpdates(c)
  BY <1>4 DEF HandlerUpdates, Writes, Promise!Outcome
<1>5. CASE HandlerDeletes(c)
  BY <1>5 DEF HandlerDeletes, Writes, Promise!Outcome
<1>6. CASE HandlerQueries(c)
  <2> DEFINE value == stored[Trim(asked[c].name)]
  <2>1. Promise!Outcome(asked[c]) =
          CASE value = Nothing -> Reply("not found", {})
            [] value = Garbage -> Reply("undecodable", {})
            [] OTHER -> Reply("ok", {value})
    BY <1>6 DEF HandlerQueries, Writes, Promise!Outcome
  <2> QED
    BY <1>2, <1>6, <2>1 DEF HandlerQueries, KeyOf
<1>7. CASE HandlerLists(c)
  <2>1. Promise!Outcome(asked[c]) = Listed({stored[n] : n \in Occupied})
    BY <1>7 DEF HandlerLists, Writes, Promise!Outcome
  <2> QED
    BY <1>7, <2>1 DEF HandlerLists
<1> QED
  BY <1>3, <1>4, <1>5, <1>6, <1>7 DEF HandlerActs

\* A handler that works on the database takes the call's one step in AtomicRegistry.
LEMMA ActRefines ==
  ASSUME IInv, NEW c \in Calls, HandlerActs(c)
  PROVE  Promise!Act(c)
<1>1. /\ request[c] = "checked" /\ asked[c] # NoRequest /\ asked[c] \in Requests
      /\ Valid(asked[c]) /\ reply[c] = Pending
      /\ UNCHANGED <<asked, answer, server>> /\ server \notin {"closed", "down"}
  <2>1. /\ request[c] = "checked" /\ asked[c] \in Requests /\ Valid(asked[c])
        /\ UNCHANGED <<asked, answer, server>>
    BY ActOutcome DEF clientVars, processVars
  <2> QED
    BY <2>1, ValidRequest DEF IInv, RespondsOnce, HandlerActs
<1>2. reply' = [reply EXCEPT ![c] = Promise!Outcome(asked[c])]
  BY OutcomeIsReply DEF Respond
<1>3. /\ asked[c].op = "update" =>
           stored' = [stored EXCEPT ![Trim(asked[c].name)]
                                       = Record(Trim(asked[c].name), asked[c].state)]
      /\ asked[c].op = "delete" => stored' = [stored EXCEPT ![Trim(asked[c].name)] = Nothing]
      /\ ~Writes(asked[c]) => stored' = stored
  <2>1. CASE HandlerUpdates(c)
    BY <2>1 DEF HandlerUpdates, KeyOf, Writes
  <2>2. CASE HandlerDeletes(c)
    <3>1. stored' = [n \in Key |-> IF n = KeyOf(c) THEN Nothing ELSE stored[n]]
      BY <2>2 DEF HandlerDeletes
    <3>2. stored' = [stored EXCEPT ![KeyOf(c)] = Nothing]
      BY <3>1 DEF IInv, TypeOK
    <3> QED
      BY <2>2, <3>2 DEF HandlerDeletes, KeyOf, Writes
  <2>3. CASE HandlerHealthz(c) \/ HandlerQueries(c) \/ HandlerLists(c)
    BY <2>3 DEF HandlerHealthz, HandlerQueries, HandlerLists, Writes
  <2> QED
    BY <2>1, <2>2, <2>3 DEF HandlerActs
<1>4. \/ asked[c].op = "update" \/ asked[c].op = "delete" \/ ~Writes(asked[c])
  BY DEF Writes
<1> QED
  BY <1>1, <1>2, <1>3, <1>4, SameVocabulary DEF Promise!Act, Writes

\* So does one that finds the database closed: it acts, is refused, or lists a part.
LEMMA FindsClosedRefines ==
  ASSUME IInv, NEW c \in Calls, HandlerFindsClosed(c)
  PROVE  Promise!Act(c) \/ Promise!Refuse(c) \/ Promise!ListPart(c)
<1> USE SameVocabulary
<1>1. /\ asked[c] # NoRequest /\ Valid(asked[c]) /\ reply[c] = Pending
      /\ UNCHANGED <<asked, answer, stored, server>> /\ server = "closed"
  BY FindsClosedOutcome DEF IInv, IdleUntouched, RespondsOnce, clientVars, processVars
<1>2. CASE asked[c].op = "healthz" /\ Respond(c, Reply("ok", {}))
  <2>1. Promise!Outcome(asked[c]) = Reply("ok", {})
    BY <1>2 DEF Promise!Outcome
  <2>2. reply' = [reply EXCEPT ![c] = Promise!Outcome(asked[c])]
    BY <1>2, <2>1 DEF Respond
  <2>3. ~Writes(asked[c])
    BY <1>2 DEF Writes
  <2>4. Promise!Act(c)
    BY <1>1, <1>2, <2>2, <2>3 DEF Promise!Act
  <2> QED
    BY <2>4
<1>3. CASE Respond(c, Refused)
  BY <1>1, <1>3 DEF Respond, Promise!Refuse
<1>4. CASE asked[c].op = "list"
           /\ \E seen \in SUBSET Occupied : Respond(c, Listed({stored[n] : n \in seen}))
  BY <1>1, <1>4 DEF Respond, Promise!ListPart
<1> QED
  BY <1>2, <1>3, <1>4, FindsClosedOutcome

(***************************************************************************)
(* Each step of a call, of a handler and of the process is a step of the   *)
(* one atomic registry or leaves it alone: the goroutine, the connection,  *)
(* the shutdown and the restart never show in what the callers see.        *)
(***************************************************************************)
THEOREM Refinement == Spec => ImplementsAtomicRegistry
<1> USE SameVocabulary
<1>1. Init => Promise!Init
  <2>1. Init => stored \in [Key -> Storable]
    BY CallsAssumption DEF Init
  <2> QED
    BY <2>1 DEF Init, Promise!Init
<1>2. ASSUME IInv, [Next]_vars
      PROVE  [Promise!Next]_Promise!registryVars
  <2>1. CASE \E c \in Calls, r \in Requests : Ask(c, r)
    <3>1. PICK c \in Calls, r \in Requests : Ask(c, r)
      BY <2>1
    <3>2. asked[c] = NoRequest
      BY <1>2, <3>1 DEF Ask, IInv, IdleUntouched
    <3>3. Promise!Begin(c, r)
      BY <3>1, <3>2 DEF Ask, processVars, Promise!Begin
    <3> QED
      BY <3>3 DEF Promise!Next
  <2>2. CASE \E c \in Calls : GiveUp(c) \/ TakeResult(c)
    <3>1. PICK c \in Calls : GiveUp(c) \/ TakeResult(c)
      BY <2>2
    <3>2. /\ asked[c] # NoRequest /\ answer[c] = Pending
          /\ answer' = [answer EXCEPT ![c] = answer'[c]]
          /\ answer'[c] \in {reply[c], Error} \ {Pending}
      BY <1>2, <3>1, ReturnInv
    <3>3. UNCHANGED <<server, stored, asked, reply>>
      BY <3>1 DEF GiveUp, TakeResult, handlerVars, processVars
    <3>4. Promise!Answer(c)
      BY <3>2, <3>3 DEF Promise!Answer
    <3> QED
      BY <3>4 DEF Promise!Next
  <2>3. CASE \E c \in Calls : HandlerRefuses(c)
    <3>1. PICK c \in Calls : HandlerRefuses(c)
      BY <2>3
    <3>2. asked[c] # NoRequest /\ reply[c] = Pending
      BY <1>2, <3>1 DEF HandlerRefuses, IInv, IdleUntouched, RespondsOnce
    <3>3. Promise!Refuse(c)
      BY <3>1, <3>2 DEF HandlerRefuses, Respond, clientVars, processVars, Promise!Refuse
    <3> QED
      BY <3>3 DEF Promise!Next
  <2>4. CASE \E c \in Calls : HandlerActs(c)
    BY <1>2, <2>4, ActRefines DEF Promise!Next
  <2>5. CASE ProcessEnds \/ Restart \/ (Shutdown /\ server = "returned")
    BY <2>5 DEF ProcessEnds, Restart, Shutdown, clientVars, handlerVars,
                Promise!Serve, Promise!Next
  <2>6. CASE \E n \in Key, v \in Storable : Dump(n, v)
    <3>1. stored' \in [Key -> Storable] /\ server = "down"
      BY <1>2, <2>6 DEF Dump, IInv, TypeOK
    <3>2. Promise!Edit
      BY <2>6, <3>1 DEF Dump, clientVars, handlerVars, Promise!Edit
    <3> QED
      BY <3>2 DEF Promise!Next
  <2>7. CASE \/ \E c \in Calls : Delivered(c) \/ CallFails(c) \/ HandlerChecks(c)
             \/ Shutdown /\ server # "returned"
             \/ UNCHANGED vars
    BY <2>7 DEF Delivered, CallFails, HandlerChecks, Shutdown, vars, clientVars,
                handlerVars, processVars, Promise!registryVars
  <2>8. CASE \E c \in Calls : HandlerFindsClosed(c)
    BY <1>2, <2>8, FindsClosedRefines DEF Promise!Next
  <2> QED
    BY <1>2, <2>1, <2>2, <2>3, <2>4, <2>5, <2>6, <2>7, <2>8
    DEF Next, Client, Handler
<1> QED
  BY <1>1, <1>2, Invariant, PTL DEF Spec, ImplementsAtomicRegistry, Promise!Spec
=============================================================================
