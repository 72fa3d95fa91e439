------------------------------ MODULE QAQueue ------------------------------
(***************************************************************************)
(* The question queue of the IM bots: every instance has a bounded queue   *)
(* and a fixed number of workers; the instances share, in Redis, a counter *)
(* of unfinished requests per user, a counter of running handlers (the     *)
(* global gate) and what /stop needs to find a request: the in-flight      *)
(* mapping, the stop events and the stop marker.  Without Redis (Lite) a   *)
(* single instance counts the queued requests of a user itself.            *)
(*                                                                         *)
(* A "user" is a user key (channel, user, chat).                           *)
(***************************************************************************)
EXTENDS Integers, Sequences, FiniteSets

CONSTANTS
  Requests,     \* questions that may be asked
  Users,        \* user keys
  UserOf,       \* who asks a question
  Nodes,        \* instances
  None,         \* no request, no instance
  Workers,      \* workers of one instance
  MaxQueue,     \* maxSize
  MaxPerUser,   \* maxPerUser
  GlobalMax,    \* globalMaxWorkers
  MaxStops,     \* bound: /stop commands
  FaultKinds,   \* which faults and interruptions this instance allows
  MaxFaults     \* bound: how many of them in one behaviour

ASSUME QAAssumption ==
  /\ IsFiniteSet(Requests)
  /\ UserOf \in [Requests -> Users]
  /\ None \notin Requests /\ None \notin Nodes
  /\ Workers \in Nat \ {0} /\ MaxQueue \in Nat /\ MaxPerUser \in Nat
  /\ GlobalMax \in Nat \ {0} /\ MaxStops \in Nat /\ MaxFaults \in Nat
  /\ FaultKinds \subseteq {"incr", "decr", "gate", "marker", "ttl", "crash", "cancel", "close"}

VARIABLES
  redis,     \* is there a Redis client?
  req,       \* each request: where it is, and how it ended
  queue,     \* requests waiting on each instance
  perUser,   \* Lite: queued requests of each user on each instance
  closed,    \* instances whose queue is closed
  inflight,  \* running requests of each instance, by user key
  users,     \* im:queue:user:<key>
  gate,      \* im:global:active
  mapping,   \* im:inflight:<key>: the request that is being answered
  events,    \* requests with a stop event in their stream
  marker,    \* users with im:stop:<key>
  stop,      \* the /stop command being handled
  stops,     \* ghost: /stop commands so far
  doomed,    \* ghost: requests that a finished /stop was meant for, and reached
  faults     \* ghost: the faults that have happened

vars == <<redis, req, queue, perUser, closed, inflight, users, gate, mapping,
          events, marker, stop, stops, doomed, faults>>

local   == <<queue, perUser, closed>>
reach   == <<inflight, mapping, events, marker>>
command == <<stop, stops, doomed>>

-----------------------------------------------------------------------------
(* Keys in Redis *)

Key == [n : Int, ttl : BOOLEAN]
Absent == [n |-> 0, ttl |-> FALSE]

\* INCR makes or raises the key, and its lifetime is renewed; DECR makes a
\* missing key as well, one that lives for ever.
Incr(k) == [n |-> k.n + 1, ttl |-> TRUE]
Decr(k) == [n |-> k.n - 1, ttl |-> k.ttl]

CanFail(f) == f \in FaultKinds /\ Cardinality(faults) < MaxFaults
Fault(f)   == CanFail(f) /\ faults' = faults \cup {f}

-----------------------------------------------------------------------------
(* Requests *)

Busy == {"taken", "gate", "enter", "check", "ask", "answer", "leave",
         "release", "uncount"}
InHandler == {"enter", "check", "ask", "answer", "leave", "release"}

\* counted: not yet or no more, now, or never although it was let in.
\* slot: of the gate - none, one, none although it was let in, and that again
\* after it has given back what it did not have.
New == [st |-> "new", node |-> None, live |-> TRUE, counted |-> "no",
        slot |-> "no", how |-> "none"]

Nobody == [who |-> None, ids |-> None]
NoStop == [pc |-> "none", node |-> None, user |-> None, ids |-> None, sole |-> None]

On(n) == {r \in Requests : req[r].node = n}
Unfinished(u) ==
  {r \in Requests : UserOf[r] = u /\ req[r].st \notin {"new", "over", "ended"}}

\* Counted.
Yes(u) == {r \in Requests : UserOf[r] = u /\ req[r].counted = "yes"}

\* Let in uncounted; the DECR of one that has ended was one too many.
Never(u)      == {r \in Requests : UserOf[r] = u /\ req[r].counted = "never"}
NeverEnded(u) == {r \in Never(u) : req[r].st = "ended"}

Move(r, to)    == req' = [req EXCEPT ![r].st = to]
End(q, how)    == [q EXCEPT !.st = "ended", !.how = how, !.live = FALSE,
                            !.counted = IF @ = "yes" THEN "no" ELSE @]
Finish(r, how) == req' = [req EXCEPT ![r] = End(req[r], how)]

\* redisDecrUser: an error is not looked at.
DecrUser(u) ==
  IF redis
  THEN \/ users' = [users EXCEPT ![u] = Decr(@)] /\ UNCHANGED faults
       \/ Fault("decr") /\ UNCHANGED users
  ELSE UNCHANGED <<users, faults>>

Init ==
  /\ redis \in BOOLEAN
  /\ req = [r \in Requests |-> New]
  /\ queue = [n \in Nodes |-> <<>>]
  /\ perUser = [n \in Nodes |-> [u \in Users |-> 0]]
  /\ closed = {}
  /\ inflight = [n \in Nodes |-> [u \in Users |-> Nobody]]
  /\ users = [u \in Users |-> Absent]
  /\ gate = Absent
  /\ mapping = [u \in Users |-> None]
  /\ events = {} /\ marker = {}
  /\ stop = NoStop /\ stops = 0 /\ doomed = {}
  /\ faults = {}

-----------------------------------------------------------------------------
(* Enqueue *)

\* Faulty variant: the new request itself is not reckoned with.
OverLimitLate(u) == users[u].n > MaxPerUser

OverLimit(u) == users[u].n + 1 > MaxPerUser

\* HandleMessage, and redisCheckAndIncrUser: on an error the request is let in
\* uncounted.  Without Redis there is one instance.
CheckAndIncrUser(r, n) ==
  /\ req[r].st = "new"
  /\ redis \/ \A s \in Requests : req[s].node \in {None, n}
  /\ LET u == UserOf[r]
         At(st, counted) == req' = [req EXCEPT ![r] =
           [@ EXCEPT !.st = st, !.node = n, !.counted = counted]]
     IN IF redis
        THEN \/ /\ users' = [users EXCEPT ![u] = Incr(@)]
                /\ At(IF OverLimit(u) THEN "over" ELSE "counted", "yes")
                /\ UNCHANGED faults
             \/ Fault("incr") /\ At("counted", "never") /\ UNCHANGED users
        ELSE At("counted", "no") /\ UNCHANGED <<users, faults>>
  /\ UNCHANGED <<redis, local, reach, gate, command>>

\* Over the limit: the count is taken back and the request rejected.
RejectOver(r) ==
  /\ req[r].st = "over"
  /\ DecrUser(UserOf[r])
  /\ Finish(r, "rejected")
  /\ UNCHANGED <<redis, local, reach, gate, command>>

\* Why Enqueue turns a counted request down.
Refused(r, n) ==
  \/ n \in closed
  \/ Len(queue[n]) >= MaxQueue
  \/ ~redis /\ perUser[n][UserOf[r]] >= MaxPerUser

\* Faulty variant: what was counted is not taken back.
EnqueueRefusedCounted(r) ==
  /\ req[r].st = "counted"
  /\ Refused(r, req[r].node)
  /\ Finish(r, "rejected")
  /\ UNCHANGED <<redis, local, reach, users, gate, command, faults>>

EnqueueRefused(r) ==
  /\ req[r].st = "counted"
  /\ Refused(r, req[r].node)
  /\ DecrUser(UserOf[r])
  /\ Finish(r, "rejected")
  /\ UNCHANGED <<redis, local, reach, gate, command>>

Enqueue(r) ==
  LET n == req[r].node IN
  /\ req[r].st = "counted"
  /\ ~Refused(r, n)
  /\ queue' = [queue EXCEPT ![n] = Append(@, r)]
  /\ perUser' = IF redis THEN perUser
                ELSE [perUser EXCEPT ![n][UserOf[r]] = @ + 1]
  /\ Move(r, "queued")
  /\ UNCHANGED <<redis, closed, reach, users, gate, command, faults>>

-----------------------------------------------------------------------------
(* The workers *)

Dequeue(n) ==
  /\ queue[n] # <<>>
  /\ Cardinality({r \in On(n) : req[r].st \in Busy}) < Workers
  /\ LET r == Head(queue[n]) IN
     /\ queue' = [queue EXCEPT ![n] = Tail(@)]
     /\ perUser' = IF redis THEN perUser
                   ELSE [perUser EXCEPT ![n][UserOf[r]] = @ - 1]
     /\ Move(r, "taken")
  /\ UNCHANGED <<redis, closed, reach, users, gate, command, faults>>

\* Cancelled while it was queued, or queued for more than queueTimeout.
Discard(r) ==
  /\ req[r].st = "taken"
  /\ DecrUser(UserOf[r])
  /\ Finish(r, "discarded")
  /\ UNCHANGED <<redis, local, reach, gate, command>>

Admit(r) ==
  /\ req[r].st = "taken" /\ req[r].live
  /\ Move(r, "gate")
  /\ UNCHANGED <<redis, local, reach, users, gate, command, faults>>

Go(r, slot) == req' = [req EXCEPT ![r] = [@ EXCEPT !.st = "enter", !.slot = slot]]

\* globalGateScript: is there a slot?
GateFree == gate.n < GlobalMax

\* acquireGlobalGate.  A full gate is asked again every half second, and every
\* time the lifetime of its key is renewed.
AcquireGate(r) ==
  /\ req[r].st = "gate"
  /\ IF redis THEN GateFree /\ gate' = Incr(gate) /\ Go(r, "held")
              ELSE Go(r, "no") /\ UNCHANGED gate
  /\ UNCHANGED <<redis, local, reach, users, command, faults>>

GateFull(r) ==
  /\ req[r].st = "gate" /\ redis /\ ~GateFree
  /\ gate' = [gate EXCEPT !.ttl = TRUE]
  /\ UNCHANGED <<redis, req, local, reach, users, command, faults>>

\* Any error of the script lets the request pass without a slot, also the
\* error that its own context has been cancelled.
PassGate(r) ==
  /\ req[r].st = "gate" /\ redis
  /\ IF req[r].live THEN Fault("gate") ELSE UNCHANGED faults
  /\ Go(r, "stray")
  /\ UNCHANGED <<redis, local, reach, users, gate, command>>

GiveUp(r) ==
  /\ req[r].st = "gate" /\ ~req[r].live
  /\ DecrUser(UserOf[r])
  /\ Finish(r, "discarded")
  /\ UNCHANGED <<redis, local, reach, gate, command>>

\* executeQARequest: the request can be found by /stop.  A second request of
\* the same user takes the entry over.
StoreInflight(r) ==
  /\ req[r].st = "enter"
  /\ inflight' = [inflight EXCEPT ![req[r].node][UserOf[r]] =
                    [who |-> r, ids |-> None]]
  /\ Move(r, "check")
  /\ UNCHANGED <<redis, local, mapping, events, marker, users, gate, command, faults>>

Leave(r, how) == req' = [req EXCEPT ![r] = [@ EXCEPT !.st = "leave", !.how = how]]

\* Faulty variant: the marker is ignored.
CheckNoMarker(r) ==
  /\ req[r].st = "check"
  /\ Move(r, "ask")
  /\ UNCHANGED <<redis, local, reach, users, gate, command, faults>>

\* checkAndClearStopMarker: DEL, with the context of the request; an error
\* counts as "no marker".
CheckStopMarker(r) ==
  LET u == UserOf[r] IN
  /\ req[r].st = "check"
  /\ \/ /\ redis /\ u \in marker /\ req[r].live
        /\ marker' = marker \ {u}
        /\ Leave(r, "dropped") /\ UNCHANGED faults
     \/ /\ ~redis \/ u \notin marker \/ ~req[r].live
        /\ Move(r, "ask") /\ UNCHANGED <<marker, faults>>
     \/ /\ redis /\ u \in marker /\ Fault("marker")
        /\ Move(r, "ask") /\ UNCHANGED marker
  /\ UNCHANGED <<redis, local, inflight, mapping, events, users, gate, command>>

\* handleMessageStream, runQA: the messages exist, so their ids go into the
\* user's in-flight entry, whoever's it is, and into Redis.
Ask(r) ==
  LET u == UserOf[r]
      n == req[r].node
  IN  /\ req[r].st = "ask" /\ req[r].live
      /\ inflight' = IF inflight[n][u] = Nobody THEN inflight
                     ELSE [inflight EXCEPT ![n][u].ids = r]
      /\ mapping' = IF redis THEN [mapping EXCEPT ![u] = r] ELSE mapping
      /\ Move(r, "answer")
      /\ UNCHANGED <<redis, local, events, marker, users, gate, command, faults>>

\* clearInflightMapping, whoever's mapping it is by now.
ClearMapping(r) ==
  mapping' = IF redis THEN [mapping EXCEPT ![UserOf[r]] = None] ELSE mapping

Answer(r) ==
  /\ req[r].st = "answer" /\ req[r].live
  /\ Leave(r, "answered")
  /\ ClearMapping(r)
  /\ UNCHANGED <<redis, local, inflight, events, marker, users, gate, command, faults>>

\* The messages cannot be created, or the handler notices that its context is
\* cancelled; with that context the mapping cannot be cleared, unless only the
\* answer's own was cancelled.
Abandon(r) ==
  /\ req[r].st = "ask" \/ (req[r].st = "answer" /\ ~req[r].live)
  /\ Leave(r, "cancelled")
  /\ UNCHANGED mapping \/ (req[r].st = "answer" /\ ClearMapping(r))
  /\ UNCHANGED <<redis, local, inflight, events, marker, users, gate, command, faults>>

\* watchStreamManagerStop
Watch(r) ==
  /\ req[r].st = "answer" /\ req[r].live /\ r \in events
  /\ req' = [req EXCEPT ![r].live = FALSE]
  /\ UNCHANGED <<redis, local, reach, users, gate, command, faults>>

\* The deferred inflight.Delete, whoever's entry it is by now.
DeleteInflight(r) ==
  /\ req[r].st = "leave"
  /\ inflight' = [inflight EXCEPT ![req[r].node][UserOf[r]] = Nobody]
  /\ req' = [req EXCEPT ![r] = [@ EXCEPT !.st = "release", !.live = FALSE]]
  /\ UNCHANGED <<redis, local, mapping, events, marker, users, gate, command, faults>>

\* Faulty variant: only a handler that has answered gives its slot back.
ReleaseAnswered(r) ==
  LET held == req[r].slot = "held" /\ req[r].how # "answered" IN
  /\ req[r].st = "release"
  /\ gate' = IF redis /\ ~held THEN Decr(gate) ELSE gate
  /\ req' = [req EXCEPT ![r] = [@ EXCEPT !.st = "uncount", !.slot = IF held THEN @ ELSE "no"]]
  /\ UNCHANGED <<redis, local, reach, users, command, faults>>

\* releaseGlobalGate: also for a request that has no slot.
ReleaseGate(r) ==
  LET done == IF req[r].slot = "stray" THEN "spent" ELSE "no" IN
  /\ req[r].st = "release"
  /\ IF redis
     THEN \/ /\ gate' = Decr(gate) /\ UNCHANGED faults
             /\ req' = [req EXCEPT ![r] = [@ EXCEPT !.st = "uncount", !.slot = done]]
          \/ /\ Fault("decr") /\ UNCHANGED gate
             /\ req' = [req EXCEPT ![r] = [@ EXCEPT !.st = "uncount", !.slot = done]]
     ELSE Move(r, "uncount") /\ UNCHANGED <<gate, faults>>
  /\ UNCHANGED <<redis, local, reach, users, command>>

Uncount(r) ==
  /\ req[r].st = "uncount"
  /\ DecrUser(UserOf[r])
  /\ Finish(r, req[r].how)
  /\ UNCHANGED <<redis, local, reach, gate, command>>

-----------------------------------------------------------------------------
(* /stop *)

\* Requests of u waiting on n, as positions in the queue.
Waiting(n, u) == {i \in 1..Len(queue[n]) : UserOf[queue[n][i]] = u}

\* The request a /stop of u is meant for, when there can be no doubt.
Sole(u) ==
  IF redis /\ \E r \in Requests : Unfinished(u) = {r}
  THEN CHOOSE r \in Requests : Unfinished(u) = {r} ELSE None

Heard(n, u, pc) == [pc |-> pc, node |-> n, user |-> u, ids |-> None, sole |-> Sole(u)]

\* qaQueue.Remove: the first of the user's waiting requests.
StopQueued(n, u) ==
  /\ stop.pc = "none" /\ stops < MaxStops
  /\ stops' = stops + 1
  /\ IF Waiting(n, u) # {}
     THEN LET i == CHOOSE i \in Waiting(n, u) : \A j \in Waiting(n, u) : i <= j
          IN  /\ queue' = [queue EXCEPT ![n] = SubSeq(@, 1, i - 1) \o
                                               SubSeq(@, i + 1, Len(@))]
              /\ perUser' = IF redis THEN perUser
                            ELSE [perUser EXCEPT ![n][u] = @ - 1]
              /\ Finish(queue[n][i], "removed")
              /\ DecrUser(u)
              /\ stop' = Heard(n, u, "lookup")
     ELSE /\ stop' = Heard(n, u, "inflight")
          /\ UNCHANGED <<queue, perUser, req, users, faults>>
  /\ UNCHANGED <<redis, closed, reach, gate, doomed>>

\* inflight.LoadAndDelete, if nothing was waiting.
StopInflight ==
  LET e == inflight[stop.node][stop.user] IN
  /\ stop.pc = "inflight"
  /\ inflight' = [inflight EXCEPT ![stop.node][stop.user] = Nobody]
  /\ req' = IF e = Nobody THEN req ELSE [req EXCEPT ![e.who].live = FALSE]
  /\ stop' = [stop EXCEPT !.pc = "lookup", !.ids = e.ids]
  /\ UNCHANGED <<redis, local, mapping, events, marker, users, gate, stops,
                 doomed, faults>>

\* loadInflightMapping and writeStopEvent.
StopLookup ==
  LET ids == IF stop.ids # None \/ ~redis THEN stop.ids ELSE mapping[stop.user] IN
  /\ stop.pc = "lookup"
  /\ events' = events \cup ({ids} \ {None})
  /\ stop' = [stop EXCEPT !.pc = "mark", !.ids = None]
  /\ UNCHANGED <<redis, req, local, inflight, mapping, marker, users, gate, stops,
                 doomed, faults>>

\* A request in this state will look at the marker, or is already cancelled.
InReach(r) ==
  /\ req[r].how = "none"
  /\ ~req[r].live \/ req[r].st \in {"counted", "queued", "taken", "gate", "enter", "check"}

\* The command is over: has it reached the request that it was meant for?  One
\* that has passed its check and got its messages no earlier than after the
\* look-up is found neither by the marker nor by a stop event.
Closes ==
  /\ doomed' = doomed \cup {r \in {stop.sole} \ {None} : InReach(r)}
  /\ stop' = NoStop

\* Faulty variant: no marker.
StopQuietly ==
  /\ stop.pc = "mark"
  /\ Closes
  /\ UNCHANGED <<redis, req, local, reach, users, gate, stops, faults>>

\* The marker, for requests that are not yet executing.
StopMark ==
  /\ stop.pc = "mark"
  /\ marker' = IF redis THEN marker \cup {stop.user} ELSE marker
  /\ Closes
  /\ UNCHANGED <<redis, req, local, inflight, mapping, events, users, gate, stops, faults>>

-----------------------------------------------------------------------------
(* Channels, instances and time *)

\* The channel of a long connection is stopped: its context ends.
CancelContext(r) ==
  /\ req[r].st \notin {"new", "ended"} /\ req[r].live
  /\ Fault("cancel")
  /\ req' = [req EXCEPT ![r].live = FALSE]
  /\ UNCHANGED <<redis, local, reach, users, gate, command>>

\* qaQueue.Stop: what is queued is still worked off.
Close(n) ==
  /\ Fault("close")
  /\ closed' = closed \cup {n}
  /\ UNCHANGED <<redis, req, queue, perUser, reach, users, gate, command>>

\* The instance dies and starts afresh; what it has counted stays counted.
Crash(n) ==
  /\ Fault("crash")
  /\ req' = [r \in Requests |-> IF r \in On(n) /\ req[r].st # "ended"
                               THEN End(req[r], IF req[r].how = "none" THEN "crashed"
                                                ELSE req[r].how)
                               ELSE req[r]]
  /\ queue' = [queue EXCEPT ![n] = <<>>]
  /\ perUser' = [perUser EXCEPT ![n] = [u \in Users |-> 0]]
  /\ closed' = closed \ {n}
  /\ inflight' = [inflight EXCEPT ![n] = [u \in Users |-> Nobody]]
  /\ stop' = IF stop.node = n THEN NoStop ELSE stop
  /\ UNCHANGED <<redis, mapping, events, marker, users, gate, stops, doomed>>

\* A user's key lives for five minutes after the last question; that a counted
\* request is still unfinished then is taken for a fault.
UserExpires(u) ==
  /\ users[u].ttl
  /\ IF Yes(u) = {} THEN UNCHANGED faults ELSE Fault("ttl")
  /\ users' = [users EXCEPT ![u] = Absent]
  /\ req' = [r \in Requests |->
       [req[r] EXCEPT !.counted = IF r \in NeverEnded(u) THEN "no" ELSE @]]
  /\ UNCHANGED <<redis, local, reach, gate, command>>

\* The gate's key lives for five minutes after the last worker asked for it,
\* so not while one is waiting; that a handler still runs then is a fault.
GateExpires ==
  /\ gate.ttl /\ \A r \in Requests : req[r].st # "gate"
  /\ IF \E r \in Requests : req[r].slot = "held" THEN Fault("ttl") ELSE UNCHANGED faults
  /\ gate' = Absent
  /\ req' = [r \in Requests |-> [req[r] EXCEPT !.slot = IF @ = "spent" THEN "no" ELSE @]]
  /\ UNCHANGED <<redis, local, reach, users, command>>

\* The marker lives for 30 seconds.
MarkerExpires(u) ==
  /\ u \in marker
  /\ IF Unfinished(u) = {} THEN UNCHANGED faults ELSE Fault("marker")
  /\ marker' = marker \ {u}
  /\ UNCHANGED <<redis, req, local, inflight, mapping, events, users, gate, command>>

-----------------------------------------------------------------------------
(* The specification *)

\* What the instance that has the request goes on to do with it.
Serve(r) ==
  \/ RejectOver(r) \/ EnqueueRefused(r) \/ Enqueue(r)
  \/ Discard(r) \/ Admit(r) \/ GiveUp(r)
  \/ StoreInflight(r) \/ CheckStopMarker(r) \/ Ask(r)
  \/ Answer(r) \/ Abandon(r) \/ Watch(r)
  \/ DeleteInflight(r) \/ ReleaseGate(r) \/ Uncount(r)

StopGoesOn == StopInflight \/ StopLookup \/ StopMark

Next ==
  \/ \E r \in Requests, n \in Nodes : CheckAndIncrUser(r, n)
  \/ \E r \in Requests : Serve(r)
  \/ \E r \in Requests : AcquireGate(r) \/ GateFull(r) \/ PassGate(r)
  \/ \E r \in Requests : CancelContext(r)
  \/ \E n \in Nodes : Dequeue(n) \/ Close(n) \/ Crash(n)
  \/ \E n \in Nodes, u \in Users : StopQueued(n, u)
  \/ StopGoesOn
  \/ \E u \in Users : UserExpires(u) \/ MarkerExpires(u)
  \/ GateExpires

Fairness ==
  /\ \A r \in Requests : WF_vars(Serve(r)) /\ WF_vars(AcquireGate(r))
  /\ \A n \in Nodes : WF_vars(Dequeue(n))
  /\ WF_vars(StopGoesOn) /\ WF_vars(GateExpires)

Spec == Init /\ [][Next]_vars /\ Fairness

-----------------------------------------------------------------------------
(* Properties *)

States == {"new", "over", "counted", "queued", "ended"} \cup Busy

RequestStates ==
  [st : States, node : Nodes \cup {None}, live : BOOLEAN,
   counted : {"no", "yes", "never"}, slot : {"no", "held", "stray", "spent"},
   how : {"none", "rejected", "removed", "discarded", "answered", "cancelled",
          "dropped", "crashed"}]

\* The types of all variables.
TypeOK ==
  /\ redis \in BOOLEAN
  /\ req \in [Requests -> RequestStates]
  /\ queue \in [Nodes -> Seq(Requests)]
  /\ perUser \in [Nodes -> [Users -> Nat]]
  /\ closed \subseteq Nodes
  /\ inflight \in [Nodes -> [Users -> [who : Requests \cup {None}, ids : Requests \cup {None}]]]
  /\ users \in [Users -> Key] /\ gate \in Key
  /\ mapping \in [Users -> Requests \cup {None}]
  /\ events \subseteq Requests /\ marker \subseteq Users

WithSlot == {r \in Requests : req[r].slot = "held"}
Strays   == {r \in Requests : req[r].slot \in {"stray", "spent"}}
Spent    == {r \in Requests : req[r].slot = "spent"}
Queued(n, u) == {r \in Requests : req[r].st = "queued" /\ req[r].node = n /\ UserOf[r] = u}
Handling == {r \in Requests : req[r].st \in InHandler}

\* Every way a request can end gives back exactly what it was counted for:
\* while no key is lost and no instance dies, the user's counter is the number
\* of his counted requests and the gate the number of slots taken, each less
\* what the requests let in on an error have given back without having it.
CountersExact ==
  faults \cap {"decr", "ttl", "crash"} = {} =>
    /\ redis => \A u \in Users :
         users[u].n = Cardinality(Yes(u)) - Cardinality(NeverEnded(u))
    /\ redis => gate.n = Cardinality(WithSlot) - Cardinality(Spent)
    /\ ~redis => \A n \in Nodes, u \in Users :
         perUser[n][u] = Cardinality(Queued(n, u))

GateHolds ==
  redis /\ "ttl" \notin faults =>
    Cardinality(Handling) <= GlobalMax + Cardinality(Strays)

UserLimit ==
  "ttl" \notin faults =>
    /\ redis => \A u \in Users :
         Cardinality(Unfinished(u)) <= MaxPerUser + Cardinality(Never(u))
    /\ ~redis => \A n \in Nodes, u \in Users :
         Cardinality(Queued(n, u)) <= MaxPerUser

\* The limits of the gate and of a user hold over all instances, whatever
\* crashes and whatever DECR is lost; each request that was let in on an error
\* costs them one at most (globalGateScript, redisCheckAndIncrUser).
LimitsHold == GateHolds /\ UserLimit

CaughtInstead(r) ==
  \E s \in Requests \ {r} : UserOf[s] = UserOf[r] /\ req[s].how = "dropped"

\* A user's only request, on whatever instance, is not answered when at the end
\* of his /stop it is cancelled or still has its marker check before it, unless
\* the marker was lost or another request of the user has met it first.  The
\* code does not promise more: a request that passes its check while the command
\* is between its look-ups and the marker, and the look-ups do not find, is
\* answered.
StopReaches ==
  \A r \in doomed : req[r].how = "answered" => "marker" \in faults \/ CaughtInstead(r)

\* A queued request comes to an end, be it by an answer, a cancellation or the
\* queue's time-out, unless an instance has died or a DECR was lost.
Ends ==
  \A r \in Requests :
    req[r].st = "queued" ~>
      (req[r].st = "ended" \/ faults \cap {"crash", "decr"} # {})

=============================================================================
