--------------------------- MODULE ChannelLeader ---------------------------
(***************************************************************************)
(* The long connection of one IM channel (websocket or long poll).  Of the *)
(* instances that share a database and a Redis only one is to keep it: the *)
(* leader, which holds a lock with a lifetime and renews it while its      *)
(* connection is open.  The others retry, to take over when it dies.       *)
(*                                                                         *)
(* A "start" is one call of StartChannel, with the goroutines that come of *)
(* it: the retry loop, and the renewal loop of the connection it opens.    *)
(***************************************************************************)
EXTENDS Naturals, FiniteSets

CONSTANTS
  Nodes,        \* instances
  None,         \* no instance, no start
  MaxStarts,    \* bound: calls of StartChannel
  MaxToggles,   \* bound: how often the channel is enabled or disabled
  FaultKinds,   \* which faults this instance allows
  MaxFaults     \* bound: faults in one behaviour

ASSUME LeaderAssumption ==
  /\ None \notin Nodes
  /\ MaxStarts \in Nat /\ MaxToggles \in Nat /\ MaxFaults \in Nat
  /\ None \notin 1..MaxStarts
  /\ FaultKinds \subseteq {"redis", "db", "factory", "slow", "crash"}

Starts == 1..MaxStarts

VARIABLES
  longpoll,  \* the channel's mode
  row,       \* the channel in the database: enabled, disabled or gone
  up,        \* instances that run
  start,     \* each start: its instance and program counter
  chan,      \* s.channels of each instance: the start that is registered
  open,      \* starts whose connection is open and not told to close
  closing,   \* each instance: those told to close, and not closed yet
  lock,      \* im:ws:leader:<channel>
  toggles,   \* ghost: how often it was enabled or disabled
  faults     \* ghost: the faults that have happened

vars == <<longpoll, row, up, start, chan, open, closing, lock, toggles, faults>>

CanFail(f) == f \in FaultKinds /\ Cardinality(faults) < MaxFaults
Fault(f)   == CanFail(f) /\ faults' = faults \cup {f}

-----------------------------------------------------------------------------
(* Starting and stopping *)

Unused == [pc |-> "none", node |-> None, live |-> TRUE]

Over   == [pc |-> "over", node |-> None, live |-> FALSE]

\* The channel is to be connected.
Wanted == row = "enabled"

\* Locked: before the connection is open.  Renewing: the renewal loop runs.
Electing == {"check", "factory", "register"}
Renewing == {"renew", "dbcheck"}

Goto(a, pc) == start' = [start EXCEPT ![a].pc = pc]
Quit(a)     == start' = [start EXCEPT ![a] = Over]

\* releaseWSLeader: only one's own lock.
Release(n) == IF lock = n THEN None ELSE lock

\* stopChannelLocked: the renewal loop is told to end and the connection to
\* close, and the lock is released.  After a long poll it is left to expire.
Stopped(n) ==
  [start   |-> IF chan[n] = None THEN start ELSE [start EXCEPT ![chan[n]].live = FALSE],
   open    |-> open \ {chan[n]},
   closing |-> [closing EXCEPT ![n] = @ \cup (open \cap {chan[n]})],
   lock    |-> IF chan[n] = None \/ longpoll THEN lock ELSE Release(n)]

\* StopChannel
StopChannel(n) ==
  /\ open' = Stopped(n).open /\ closing' = Stopped(n).closing
  /\ lock' = Stopped(n).lock
  /\ chan' = [chan EXCEPT ![n] = None]

\* StartChannel up to the election: what runs here is stopped first.
StartChannel(n) ==
  \E a \in Starts :
    /\ start[a] = Unused /\ \A b \in 1..(a - 1) : start[b] # Unused
    /\ StopChannel(n)
    /\ start' = [Stopped(n).start EXCEPT ![a] =
                   [pc |-> "elect", node |-> n, live |-> TRUE]]

Init ==
  /\ longpoll \in BOOLEAN
  /\ row = "enabled"
  /\ up = {} /\ open = {} /\ lock = None
  /\ start = [a \in Starts |-> Unused]
  /\ chan = [n \in Nodes |-> None] /\ closing = [n \in Nodes |-> {}]
  /\ toggles = 0 /\ faults = {}

-----------------------------------------------------------------------------
(* What the loops do *)

\* tryAcquireWSLeader: SETNX; on an error the instance takes itself for the
\* leader.
Acquire(n, granted, refused) ==
  \/ lock = None /\ lock' = n /\ granted /\ UNCHANGED faults
  \/ lock # None /\ refused /\ UNCHANGED <<lock, faults>>
  \/ Fault("redis") /\ granted /\ UNCHANGED lock

Elect(a) ==
  /\ start[a].pc = "elect"
  /\ Acquire(start[a].node, Goto(a, "factory"), Goto(a, "retry"))
  /\ UNCHANGED <<longpoll, row, up, chan, open, closing, toggles>>

\* A tick of wsLeaderRetryLoop.
Retry(a) ==
  /\ start[a].pc = "retry"
  /\ IF chan[start[a].node] # None
     THEN Quit(a) /\ UNCHANGED <<lock, faults>>
     ELSE Acquire(start[a].node, Goto(a, "check"), UNCHANGED start)
  /\ UNCHANGED <<longpoll, row, up, chan, open, closing, toggles>>

\* Faulty variant: an error of the database ends the loop as well.
RetryCheckOnce(a) ==
  LET n == start[a].node IN
  /\ start[a].pc = "check"
  /\ \/ Wanted /\ Goto(a, "factory") /\ UNCHANGED <<lock, faults>>
     \/ ~Wanted /\ Quit(a) /\ lock' = Release(n) /\ UNCHANGED faults
     \/ Fault("db") /\ Quit(a) /\ lock' = Release(n)
  /\ UNCHANGED <<longpoll, row, up, chan, open, closing, toggles>>

\* Elected late, it looks at the row first; an error of the database makes it
\* give the lock back and retry.
RetryCheck(a) ==
  LET n == start[a].node IN
  /\ start[a].pc = "check"
  /\ \/ Wanted /\ Goto(a, "factory") /\ UNCHANGED <<lock, faults>>
     \/ ~Wanted /\ Quit(a) /\ lock' = Release(n) /\ UNCHANGED faults
     \/ Fault("db") /\ Goto(a, "retry") /\ lock' = Release(n)
  /\ UNCHANGED <<longpoll, row, up, chan, open, closing, toggles>>

\* startChannelInternal calls the factory without holding the mutex.
Factory(a) ==
  /\ start[a].pc = "factory"
  /\ \/ Goto(a, "register") /\ open' = open \cup {a} /\ UNCHANGED <<lock, faults>>
     \/ /\ Fault("factory")
        /\ Quit(a) /\ lock' = Release(start[a].node) /\ UNCHANGED open
  /\ UNCHANGED <<longpoll, row, up, chan, closing, toggles>>

\* Faulty variant: what another start has registered is overwritten.
RegisterOver(a) ==
  LET n == start[a].node IN
  /\ start[a].pc = "register"
  /\ start' = [start EXCEPT ![a].pc = "renew"]
  /\ chan' = [chan EXCEPT ![n] = a]
  /\ UNCHANGED <<longpoll, row, up, open, closing, lock, toggles, faults>>

\* startChannelInternal registers the channel; what another start has
\* registered meanwhile is stopped, and the lock released with it.
Register(a) ==
  LET n == start[a].node IN
  /\ start[a].pc = "register"
  /\ start' = [Stopped(n).start EXCEPT ![a].pc = "renew"]
  /\ open' = Stopped(n).open /\ closing' = Stopped(n).closing /\ lock' = Stopped(n).lock
  /\ chan' = [chan EXCEPT ![n] = a]
  /\ UNCHANGED <<longpoll, row, up, toggles, faults>>

\* The renewal loop stops the channel of its instance - not just its own
\* connection - and ends.
StepDown(a) ==
  /\ StopChannel(start[a].node)
  /\ start' = [Stopped(start[a].node).start EXCEPT ![a] = Over]

\* A tick of wsLeaderRenewLoop.  Its context is cancelled when the channel is
\* stopped; a tick that comes with it, or a script that is on its way, then
\* fails, and any failure counts as lost leadership.
Renew(a) ==
  /\ start[a].pc = "renew"
  /\ \/ /\ start[a].live /\ lock = start[a].node
        /\ Goto(a, "dbcheck") /\ UNCHANGED <<chan, open, closing, lock, faults>>
     \/ /\ ~start[a].live \/ lock # start[a].node
        /\ StepDown(a) /\ UNCHANGED faults
     \/ Fault("redis") /\ StepDown(a)
  /\ UNCHANGED <<longpoll, row, up, toggles>>

\* Faulty variant: only the deletion of the channel is noticed.
NoticeGone(a) ==
  /\ start[a].pc = "dbcheck"
  /\ IF row # "gone" THEN Goto(a, "renew") /\ UNCHANGED <<chan, open, closing, lock>> ELSE StepDown(a)
  /\ UNCHANGED <<longpoll, row, up, toggles, faults>>

\* Still the leader: is the channel still wanted?
RenewCheck(a) ==
  /\ start[a].pc = "dbcheck"
  /\ \/ Wanted /\ Goto(a, "renew") /\ UNCHANGED <<chan, open, closing, lock, faults>>
     \/ ~Wanted /\ StepDown(a) /\ UNCHANGED faults
     \/ Fault("db") /\ Goto(a, "renew") /\ UNCHANGED <<chan, open, closing, lock>>
  /\ UNCHANGED <<longpoll, row, up, toggles>>

\* The loop sees that its context is cancelled.
RenewEnds(a) ==
  /\ start[a].pc = "renew" /\ ~start[a].live
  /\ Quit(a)
  /\ UNCHANGED <<longpoll, row, up, chan, open, closing, lock, toggles, faults>>

-----------------------------------------------------------------------------
(* What is asked of an instance *)

\* LoadAndStartChannels
Boot(n) ==
  /\ n \notin up /\ closing[n] = {}
  /\ up' = up \cup {n}
  /\ IF Wanted THEN StartChannel(n)
               ELSE UNCHANGED <<start, chan, open, closing, lock>>
  /\ UNCHANGED <<longpoll, row, toggles, faults>>

\* UpdateChannel
UpdateChannel(n) ==
  /\ n \in up /\ row # "gone"
  /\ IF Wanted THEN StartChannel(n) ELSE StopChannel(n) /\ start' = Stopped(n).start
  /\ UNCHANGED <<longpoll, row, up, toggles, faults>>

\* ToggleChannel
ToggleChannel(n) ==
  /\ n \in up /\ row # "gone" /\ toggles < MaxToggles
  /\ toggles' = toggles + 1
  /\ \/ row = "disabled" /\ row' = "enabled" /\ StartChannel(n)
     \/ row = "enabled" /\ row' = "disabled" /\ StopChannel(n) /\ start' = Stopped(n).start
  /\ UNCHANGED <<longpoll, up, faults>>

\* DeleteChannel, DeleteChannelsByAgent
DeleteChannel(n) ==
  /\ n \in up /\ row # "gone"
  /\ StopChannel(n) /\ start' = Stopped(n).start
  /\ row' = "gone"
  /\ UNCHANGED <<longpoll, up, toggles, faults>>

\* HandleMessage, IMCallback: a message for a channel that does not run here
\* starts it, also when it is disabled.
MessageStarts(n) ==
  /\ n \in up /\ row # "gone" /\ chan[n] = None
  /\ StartChannel(n)
  /\ UNCHANGED <<longpoll, row, up, toggles, faults>>

Ends(n) == [a \in Starts |-> IF start[a].node = n THEN Over ELSE start[a]]

\* The instance's connections, registered or not.
Ours(n) == {a \in open : start[a].node = n}

\* Service.Stop: retry loops end and the channel is stopped; what is still
\* connected then ends with the process.
Shutdown(n) ==
  /\ n \in up
  /\ up' = up \ {n}
  /\ open' = open \ Ours(n)
  /\ closing' = [closing EXCEPT ![n] = @ \cup Ours(n)]
  /\ lock' = Stopped(n).lock
  /\ chan' = [chan EXCEPT ![n] = None]
  /\ start' = Ends(n)
  /\ UNCHANGED <<longpoll, row, toggles, faults>>

Crash(n) ==
  /\ n \in up /\ Fault("crash")
  /\ up' = up \ {n}
  /\ open' = open \ Ours(n) /\ closing' = [closing EXCEPT ![n] = {}]
  /\ chan' = [chan EXCEPT ![n] = None]
  /\ start' = Ends(n)
  /\ UNCHANGED <<longpoll, row, lock, toggles>>

\* Faulty variant: the renewal does not prolong the lock.
LockExpiresAnyway ==
  /\ lock # None
  /\ lock' = None
  /\ UNCHANGED <<longpoll, row, up, start, chan, open, closing, toggles, faults>>

\* Who counts on the lock of the instance n: a start that elects itself or
\* renews, and a long poll that drains.
Counted(n) ==
  \/ \E a \in Starts : /\ start[a].node = n /\ start[a].live
                       /\ start[a].pc \in Electing \cup Renewing
  \/ longpoll /\ closing[n] # {}

\* The lock lives for 15 seconds and is renewed every five while the renewal
\* loop of its instance runs; that a start, a renewal or the end of a cancelled
\* long poll takes longer is a fault.
LockExpires ==
  /\ lock # None
  /\ IF Counted(lock) THEN Fault("slow") ELSE UNCHANGED faults
  /\ lock' = None
  /\ UNCHANGED <<longpoll, row, up, start, chan, open, closing, toggles>>

\* A connection that was told to close is closed: by a goroutine that sees its
\* context cancelled, by a read that fails at last, or with its process.
HangUp(n) ==
  /\ \E a \in closing[n] : closing' = [closing EXCEPT ![n] = @ \ {a}]
  /\ UNCHANGED <<longpoll, row, up, start, chan, open, lock, toggles, faults>>

\* A long poll is one request of that context.
PollEnds == longpoll /\ \E n \in Nodes : HangUp(n)

-----------------------------------------------------------------------------
(* The specification *)

Loop(a) ==
  \/ Elect(a) \/ Retry(a) \/ RetryCheck(a) \/ Factory(a) \/ Register(a)
  \/ Renew(a) \/ RenewCheck(a) \/ RenewEnds(a)

Next ==
  \/ \E a \in Starts : Loop(a)
  \/ \E n \in Nodes : \/ Boot(n) \/ UpdateChannel(n) \/ ToggleChannel(n)
                      \/ DeleteChannel(n) \/ MessageStarts(n) \/ Shutdown(n) \/ Crash(n)
                      \/ HangUp(n)
  \/ LockExpires

Fairness ==
  /\ \A a \in Starts : WF_vars(Loop(a))
  /\ WF_vars(LockExpires)
  /\ WF_vars(PollEnds)

Spec == Init /\ [][Next]_vars /\ Fairness

-----------------------------------------------------------------------------
(* Properties *)

StartStates ==
  [pc : {"none", "elect", "retry", "over"} \cup Electing \cup Renewing,
   node : Nodes \cup {None}, live : BOOLEAN]

\* The types of all variables.
TypeOK ==
  /\ longpoll \in BOOLEAN
  /\ row \in {"enabled", "disabled", "gone"}
  /\ up \subseteq Nodes
  /\ start \in [Starts -> StartStates]
  /\ chan \in [Nodes -> Starts \cup {None}]
  /\ open \subseteq Starts /\ closing \in [Nodes -> SUBSET Starts]
  /\ lock \in Nodes \cup {None}
  /\ toggles \in 0..MaxToggles /\ faults \subseteq FaultKinds

\* All that is connected.
Connected == open \cup UNION {closing[n] : n \in Nodes}

\* "Only one instance should actively poll or maintain a persistent connection
\* for each channel" (StartChannel): there are never two connections that have
\* not been told to close, whatever is updated, disabled, deleted or shut down,
\* whoever crashes, as long as Redis answers and nobody outlives the lock.  Of
\* long polls there are never two at all: the lock that stopChannelLocked
\* leaves to expire covers the one that drains.  A websocket that was told to
\* close may overlap with the next one: its lock is released at once.
Exclusive ==
  faults \cap {"redis", "slow"} = {} =>
    /\ Cardinality(open) <= 1
    /\ longpoll => Cardinality(Connected) <= 1

\* "Stop the old state before overwriting so its adapter / long connection
\* doesn't leak" (startChannelInternal): a connection is the registered one of
\* its instance, or about to be, or has been told to close.
NoLeak ==
  \A a \in open :
    start[a].pc = "register" \/ \E n \in Nodes : chan[n] = a

\* When a channel is disabled or deleted on any instance, every connection of
\* it is told to close in the end ("the renew interval bounds the worst-case
\* lag"), even if a message has started it again.
StopsInTheEnd == ~Wanted ~> (open = {} \/ Wanted)

\* "other instances periodically retry so they can take over if the leader
\* dies": while an instance retries, a channel that is wanted gets connected.
TakenOver ==
  \A n \in Nodes :
    (\E a \in Starts : start[a].node = n /\ start[a].pc = "retry") ~>
      (open # {} \/ ~Wanted \/ n \notin up \/ "factory" \in faults)

=============================================================================
