------------------------------ MODULE Registry ------------------------------
(***************************************************************************)
(* pkg/registry over one RoseDB database: the records of both kinds, the   *)
(* listing of a prefix of its ordered keys, and the watch that passes on   *)
(* the events of desired states only; and cmd/rosedb-dump, which has the   *)
(* database to itself and knows neither kinds nor valid names.             *)
(*                                                                         *)
(* A key is [kind, name]: kind "desired" or "status" for the two prefixes, *)
(* "other" for any other key, which only rosedb-dump writes; the name      *)
(* NoName for a key that is the bare prefix.                               *)
(***************************************************************************)
EXTENDS Integers, SequencesExt

CONSTANTS
  KeyOrder,     \* the keys that occur, in the order of their bytes
  NoName,
  RingSize,     \* watch_queue_size: events RoseDB keeps
  OutSize,      \* capacity of the channel WatchDesired returns (64 in the code)
  MaxWrites     \* bound: writes, by the registry or by rosedb-dump

Key == ToSet(KeyOrder)

\* The keys that begin alike follow one another.
ASSUME RegistryAssumption ==
  /\ RingSize \in Nat \ {0} /\ OutSize \in Nat \ {0} /\ MaxWrites \in Nat
  /\ KeyOrder \in Seq(Key)
  /\ \A kind \in {"desired", "status"} : \A i, j, l \in DOMAIN KeyOrder :
       i <= j /\ j <= l /\ KeyOrder[i].kind = kind /\ KeyOrder[l].kind = kind
         => KeyOrder[j].kind = kind

\* The keys the registry itself writes.
ServiceKey == {k \in Key : k.kind \in {"desired", "status"} /\ k.name # NoName}

\* Under a key there is nothing, a record, or something else.
Value == {"none", "record", "garbage"}

Event == [key : Key, action : {"put", "delete"}]

VARIABLES
  db,          \* the value under each key
  open,        \* the registry has the database open
  writes,      \* writes so far
  cancelled,   \* the context given to WatchDesired has ended
  forwarder,   \* WatchDesired's goroutine: "off", "on", "ended"
  ring,        \* events RoseDB keeps for it
  hand,        \* the event it is about to send: a sequence of at most one
  out,         \* the channel it sends to
  received,    \* history: what was received from that channel
  log,         \* history: events of desired states since the watch began
  dropped      \* history: the ring has dropped one of them

dbVars  == <<db, open, writes>>
history == <<received, log, dropped>>
vars    == <<dbVars, cancelled, forwarder, ring, hand, out, history>>

TypeOK ==
  /\ db \in [Key -> Value]
  /\ writes \in 0 .. MaxWrites
  /\ {open, cancelled, dropped} \subseteq BOOLEAN
  /\ forwarder \in {"off", "on", "ended"}
  /\ {ring, hand, out, received, log} \subseteq Seq(Event)
  /\ Len(ring) <= RingSize /\ Len(hand) <= 1 /\ Len(out) <= OutSize

Init ==
  /\ db = [k \in Key |-> "none"]
  /\ open = TRUE /\ writes = 0
  /\ cancelled = FALSE /\ forwarder = "off" /\ dropped = FALSE
  /\ ring = <<>> /\ hand = <<>> /\ out = <<>> /\ received = <<>> /\ log = <<>>

-----------------------------------------------------------------------------
(* Reading *)

\* The occupied places from the prefix on: behind a key that has it, or with it.
GreaterOrEqual(kind) ==
  {i \in DOMAIN KeyOrder :
     db[KeyOrder[i]] # "none" /\ \E j \in 1 .. i : KeyOrder[j].kind = kind}

\* Mutant: the scan of the keys goes on behind the prefix.
AscendPrefixOn(kind) == {KeyOrder[i] : i \in GreaterOrEqual(kind)}

\* AscendGreaterOrEqual from the prefix, until the first key without it.
AscendPrefix(kind) ==
  LET places == GreaterOrEqual(kind) IN
  {KeyOrder[i] : i \in {l \in places : \A j \in places : j <= l => KeyOrder[j].kind = kind}}

\* ListDesired, ListStatus: all records, or none when one does not decode.
List(kind) ==
  LET keys == AscendPrefix(kind) IN
  IF \E k \in keys : db[k] = "garbage" THEN [ok |-> FALSE, keys |-> {}]
                                       ELSE [ok |-> TRUE, keys |-> keys]

-----------------------------------------------------------------------------
(* Writing, and the events of it *)

Concerns(e) == e.key.kind = "desired" /\ e.key.name # NoName

\* RoseDB appends the event and drops the oldest when its ring is full.
Emit(e) ==
  IF forwarder # "on" THEN UNCHANGED <<ring, log, dropped>> ELSE
  /\ ring' = Append(IF Len(ring) = RingSize THEN Tail(ring) ELSE ring, e)
  /\ dropped' = (dropped \/ (Len(ring) = RingSize /\ Concerns(Head(ring))))
  /\ log' = IF Concerns(e) THEN Append(log, e) ELSE log

\* PutDesired, PutStatus; DeleteDesired, DeleteStatus.
Write(k, action) ==
  /\ open
  /\ writes < MaxWrites
  /\ writes' = writes + 1
  /\ db' = [db EXCEPT ![k] = IF action = "put" THEN "record" ELSE "none"]
  /\ Emit([key |-> k, action |-> action])
  /\ UNCHANGED <<open, cancelled, forwarder, hand, out, received>>

-----------------------------------------------------------------------------
(* WatchDesired *)

WatchDesired ==
  /\ open
  /\ forwarder = "off"
  /\ forwarder' = "on"
  /\ UNCHANGED <<dbVars, cancelled, ring, hand, out, history>>

\* Mutant: an event is sent whatever it is about.
ForwardAll ==
  /\ forwarder = "on" /\ hand = <<>> /\ ring # <<>>
  /\ hand' = <<Head(ring)>>
  /\ ring' = Tail(ring)
  /\ UNCHANGED <<dbVars, cancelled, forwarder, out, history>>

\* The next event; one that is about something else is passed over.
Forward ==
  /\ forwarder = "on" /\ hand = <<>> /\ ring # <<>>
  /\ hand' = IF Concerns(Head(ring)) THEN <<Head(ring)>> ELSE <<>>
  /\ ring' = Tail(ring)
  /\ UNCHANGED <<dbVars, cancelled, forwarder, out, history>>

Send ==
  /\ forwarder = "on" /\ hand # <<>> /\ Len(out) < OutSize
  /\ out' = out \o hand
  /\ hand' = <<>>
  /\ UNCHANGED <<dbVars, cancelled, forwarder, ring, history>>

\* Mutant: the end of the context is seen only while waiting for an event.
ForwarderEndsIdle ==
  /\ forwarder = "on"
  /\ hand = <<>> /\ (cancelled \/ (ring = <<>> /\ ~open))
  /\ forwarder' = "ended"
  /\ UNCHANGED <<dbVars, cancelled, ring, hand, out, history>>

\* Both selects see the end of the context, the first one a closed database too.
ForwarderEnds ==
  /\ forwarder = "on"
  /\ cancelled \/ (hand = <<>> /\ ring = <<>> /\ ~open)
  /\ forwarder' = "ended"
  /\ UNCHANGED <<dbVars, cancelled, ring, hand, out, history>>

Receive ==
  /\ out # <<>>
  /\ received' = Append(received, Head(out))
  /\ out' = Tail(out)
  /\ UNCHANGED <<dbVars, cancelled, forwarder, ring, hand, log, dropped>>

Cancel ==
  /\ forwarder # "off"
  /\ cancelled' = TRUE
  /\ UNCHANGED <<dbVars, forwarder, ring, hand, out, history>>

-----------------------------------------------------------------------------
(* Closing the database, and rosedb-dump, for which it has to be closed *)

Close ==
  /\ open
  /\ open' = FALSE
  /\ UNCHANGED <<db, writes, cancelled, forwarder, ring, hand, out, history>>

\* Another process: nothing is left of the watch.
OpenRoseDB ==
  /\ ~open
  /\ open' = TRUE
  /\ cancelled' = FALSE /\ forwarder' = "off" /\ dropped' = FALSE
  /\ ring' = <<>> /\ hand' = <<>> /\ out' = <<>> /\ received' = <<>> /\ log' = <<>>
  /\ UNCHANGED <<db, writes>>

\* put takes any bytes and any key; delete removes a key, and clear one key after
\* another, so that a clear that fails is a few deletes.
Dump(k, v) ==
  /\ ~open
  /\ writes < MaxWrites
  /\ writes' = writes + 1
  /\ db' = [db EXCEPT ![k] = v]
  /\ UNCHANGED <<open, cancelled, forwarder, ring, hand, out, history>>

-----------------------------------------------------------------------------

Next ==
  \/ \E k \in ServiceKey, action \in {"put", "delete"} : Write(k, action)
  \/ WatchDesired \/ Forward \/ Send \/ ForwarderEnds \/ Receive \/ Cancel
  \/ Close \/ OpenRoseDB
  \/ \E k \in Key, v \in Value : Dump(k, v)

Spec == Init /\ [][Next]_vars

\* The goroutine runs when it can.  The receiver may stop receiving for ever.
FairSpec == Spec /\ WF_vars(Forward \/ Send) /\ WF_vars(ForwarderEnds)

-----------------------------------------------------------------------------
(***************************************************************************)
(* A list of desired states has the records of desired states and no       *)
(* others, whatever else is in the database and next to their prefix; one  *)
(* value that does not decode fails the list it belongs to and not the     *)
(* other (TEST_REPORT.md, REG-02).                                         *)
(***************************************************************************)
ListsSeparate ==
  \A kind \in {"desired", "status"} :
    LET mine == {k \in Key : k.kind = kind /\ db[k] # "none"} IN
    /\ List(kind).ok <=> \A k \in mine : db[k] = "record"
    /\ List(kind).ok => List(kind).keys = mine

\* Of these events, those of desired states are "chosen", in the same order.
Chosen(events, chosen) ==
  \E at \in [DOMAIN chosen -> DOMAIN events] :
    /\ \A i, j \in DOMAIN chosen : i < j => at[i] < at[j]
    /\ \A i \in DOMAIN chosen : chosen[i] = events[at[i]]
    /\ \A l \in DOMAIN events : Concerns(events[l]) <=> \E i \in DOMAIN chosen : at[i] = l

(***************************************************************************)
(* The receiver gets every event of a desired state, with what was done,   *)
(* in the order of the writes and no other (REG-03, REG-04), unless the    *)
(* ring dropped one, which events of the other kind bring about as well.   *)
(***************************************************************************)
WatchFaithful ==
  ~dropped =>
    LET passed == received \o out \o hand IN
    /\ IsPrefix(passed, log)
    /\ Chosen(ring, SubSeq(log, Len(passed) + 1, Len(log)))

(***************************************************************************)
(* The goroutine of WatchDesired ends with its context even when nobody    *)
(* receives what it is sending (REG-05).                                   *)
(***************************************************************************)
WatchEnds == cancelled /\ forwarder = "on" ~> forwarder # "on"
=============================================================================
