-------------------------- MODULE ImageFanInProofs --------------------------
(***************************************************************************)
(* The theorems about ImageFanIn and the gate it passes (ModelLimiter),    *)
(* for any number of images, retries and runs, any limits and any faults.  *)
(*                                                                         *)
(* FanOutOnce rests on the row: only a new run makes it "processing", and  *)
(* a fan-out takes it out of that.  FanOutLast rests on the counter, which *)
(* is never below the number of images that are still to be counted, as    *)
(* long as nothing of what Clean names has happened.  Admission rests on   *)
(* the leases: whoever holds a slot of Redis has one.                      *)
(***************************************************************************)
EXTENDS ImageFanIn, FiniteSetTheorems, TLAPS

\* Nothing has happened that could make the count wrong.
Clean == ~lite /\ blame \cap {"uncounted", "recounted", "leftovers"} = {}

\* One fan-out at the most, and none yet while the row waits for it.
Seeded ==
    /\ seeds <= parse.run
    /\ CanFinalize(row) => seeds < parse.run

\* What has not been enqueued is nowhere.
NotYet ==
    /\ parse.pc = "set" => parse.next = 1
    /\ \A t \in Tasks :
         /\ t[1] > parse.run => task[t].pc = "none"
         /\ t[1] = parse.run /\ parse.pc # "done" /\ t[2] >= parse.next => task[t].pc = "none"
         /\ task[t].pc = "none" => task[t].live

\* Nothing is left of the earlier runs, and no image goes past the counter.
Settled ==
    Clean => \A t \in Tasks :
               /\ t[1] < parse.run => task[t].pc \in {"none", "over"}
               /\ task[t].pc # "post"

Now(i) == task[<<parse.run, i>>]

\* The images of this run that have yet to be counted.
Uncounted == {i \in Images : Now(i).pc \notin {"zero", "post", "over"}}

AllOver == \A i \in Images : Now(i).pc = "over"

CountHolds ==
    /\ parse.pc # "set" => Cardinality(Uncounted) <= pending
    /\ \A i \in Images : Now(i).live
    /\ \A i, j \in Images : Now(i).pc = "zero" /\ j # i => Now(j).pc = "over"
    /\ posts + reading > 0 => AllOver

Counted == Clean /\ CanFinalize(row) => CountHolds

\* A slot of Redis is a lease that its holder renews.
Leased ==
    ~lite => /\ Gate!Holders \subseteq beats
             /\ "stall" \notin blame => Gate!Holders \subseteq leases

IInv == TypeOK /\ Seeded /\ NotYet /\ Settled /\ Counted /\ Leased

-----------------------------------------------------------------------------
(* The gate *)

TaskStates == {"none", "queued"} \cup Active \cup {"over"}

TasksOK == task \in [Tasks -> [pc : TaskStates, tries : 0..MaxRetry, live : BOOLEAN]]

LEMMA TypeParts == TypeOK => TasksOK /\ Gate!GateTypeOK
BY DEF TypeOK, TasksOK, TaskStates

LEMMA CallIsCall ==
    ASSUME TasksOK, NEW t \in Tasks
    PROVE  Call(t) \in Calls
<1>1. task[t].tries \in 0..MaxRetry
  BY DEF TasksOK
<1> QED
  BY <1>1 DEF Call, Calls

\* What a step may do to the gate.
OneCall(c) ==
    \/ Gate!Enter(c) \/ Gate!Admit(c) \/ Gate!Die(c) \/ Gate!Beat(c) \/ Gate!Lapse(c)
    \/ \E ran \in BOOLEAN : Gate!LetThrough(c, ran)
    \/ \E removed, late \in BOOLEAN : Gate!Release(c, removed, late)
    \/ Gate!Stall(c) /\ "stall" \in blame'

GateMove ==
    /\ blame \subseteq blame'
    /\ \/ UNCHANGED gateVars
       \/ \E c \in Calls : OneCall(c)
       \/ \E n \in Limits : Gate!SetGlobalLimit(n)

\* Only an admission makes a holder.
LEMMA Admitted ==
    ASSUME Gate!GateTypeOK, GateMove, NEW c \in Calls, gate[c] # "held", gate'[c] = "held"
    PROVE  Gate!Admit(c)
<1>1. CASE UNCHANGED gateVars
  BY <1>1 DEF gateVars
<1>2. ASSUME NEW d \in Calls, OneCall(d) PROVE Gate!Admit(c)
  <2> gate \in [Calls -> {"idle", "waiting", "held", "open", "over"}]
    BY DEF Gate!GateTypeOK
  <2>1. CASE Gate!Enter(d)
    <3>1. gate'[c] \in {gate[c], "open", "waiting"}
      BY <2>1 DEF Gate!Enter
    <3> QED
      BY <3>1
  <2>2. CASE Gate!Admit(d)
    <3>1. CASE c = d
      BY <2>2, <3>1
    <3>2. CASE c # d
      <4>1. gate'[c] = gate[c]
        BY <2>2, <3>2 DEF Gate!Admit, Gate!AdmitLocal, Gate!AdmitRemote
      <4> QED
        BY <4>1
    <3> QED
      BY <3>1, <3>2
  <2>3. CASE Gate!Die(d)
    BY <2>3 DEF Gate!Die
  <2>4. CASE Gate!Beat(d) \/ Gate!Lapse(d) \/ Gate!Stall(d)
    BY <2>4 DEF Gate!Beat, Gate!Lapse, Gate!Stall
  <2>5. ASSUME NEW ran \in BOOLEAN, Gate!LetThrough(d, ran) PROVE Gate!Admit(c)
    BY <2>5 DEF Gate!LetThrough
  <2>6. ASSUME NEW removed \in BOOLEAN, NEW late \in BOOLEAN, Gate!Release(d, removed, late)
        PROVE  Gate!Admit(c)
    BY <2>6 DEF Gate!Release
  <2> QED
    BY <1>2, <2>1, <2>2, <2>3, <2>4, <2>5, <2>6 DEF OneCall
<1>3. ASSUME NEW n \in Limits, Gate!SetGlobalLimit(n) PROVE Gate!Admit(c)
  BY <1>3 DEF Gate!SetGlobalLimit
<1> QED
  BY <1>1, <1>2, <1>3 DEF GateMove

LEMMA GateType ==
    ASSUME Gate!GateTypeOK, GateMove
    PROVE  Gate!GateTypeOK'
<1>1. CASE UNCHANGED gateVars
  BY <1>1 DEF gateVars, Gate!GateTypeOK
<1>2. ASSUME NEW c \in Calls, OneCall(c) PROVE Gate!GateTypeOK'
  <2>1. CASE Gate!Enter(c)
    <3>1. limit \in Int
      BY ImageAssumption DEF Gate!GateTypeOK
    <3> QED
      BY <2>1, <3>1 DEF Gate!Enter, Gate!GateTypeOK
  <2>2. CASE Gate!Admit(c)
    BY <2>2 DEF Gate!Admit, Gate!AdmitLocal, Gate!AdmitRemote, Gate!GateTypeOK
  <2>3. CASE Gate!Die(c)
    BY <2>3 DEF Gate!Die, Gate!GateTypeOK
  <2>4. CASE Gate!Beat(c) \/ Gate!Lapse(c) \/ Gate!Stall(c)
    BY <2>4 DEF Gate!Beat, Gate!Lapse, Gate!Stall, Gate!GateTypeOK
  <2>5. ASSUME NEW ran \in BOOLEAN, Gate!LetThrough(c, ran) PROVE Gate!GateTypeOK'
    BY <2>5 DEF Gate!LetThrough, Gate!GateTypeOK
  <2>6. ASSUME NEW removed \in BOOLEAN, NEW late \in BOOLEAN, Gate!Release(c, removed, late)
        PROVE  Gate!GateTypeOK'
    BY <2>6 DEF Gate!Release, Gate!GateTypeOK
  <2> QED
    BY <1>2, <2>1, <2>2, <2>3, <2>4, <2>5, <2>6 DEF OneCall
<1>3. ASSUME NEW n \in Limits, Gate!SetGlobalLimit(n) PROVE Gate!GateTypeOK'
  BY <1>3 DEF Gate!SetGlobalLimit, Gate!GateTypeOK
<1> QED
  BY <1>1, <1>2, <1>3 DEF GateMove

\* A holder's lease goes only with its slot, or in a stall.
LEMMA LeasedKept ==
    ASSUME Gate!GateTypeOK, Leased, GateMove
    PROVE  Leased'
<1> lite' = lite
  BY DEF GateMove, OneCall, gateVars, Gate!Enter, Gate!Admit, Gate!AdmitLocal,
     Gate!AdmitRemote, Gate!Die, Gate!Beat, Gate!Lapse, Gate!Stall, Gate!LetThrough,
     Gate!Release, Gate!SetGlobalLimit
<1> SUFFICES ASSUME ~lite, NEW d \in Calls, gate'[d] = "held"
             PROVE  d \in beats' /\ ("stall" \notin blame' => d \in leases')
  BY DEF Leased, Gate!Holders
<1>1. gate[d] = "held" => d \in beats /\ ("stall" \notin blame => d \in leases)
  BY DEF Leased, Gate!Holders
<1>2. "stall" \in blame => "stall" \in blame'
  BY DEF GateMove
<1>3. CASE UNCHANGED gateVars
  BY <1>1, <1>2, <1>3 DEF gateVars
<1>4. ASSUME NEW c \in Calls, OneCall(c)
      PROVE  d \in beats' /\ ("stall" \notin blame' => d \in leases')
  <2> gate \in [Calls -> {"idle", "waiting", "held", "open", "over"}]
    BY DEF Gate!GateTypeOK
  <2>1. CASE Gate!Enter(c)
    <3>1. gate[d] = "held" /\ beats' = beats /\ leases' = leases
      BY <2>1 DEF Gate!Enter
    <3> QED
      BY <1>1, <1>2, <3>1
  <2>2. CASE Gate!Admit(c)
    <3>1. beats' = beats \cup {c} /\ leases' = leases \cup {c}
      BY <2>2 DEF Gate!Admit, Gate!AdmitRemote
    <3>2. c # d => gate[d] = "held"
      BY <2>2 DEF Gate!Admit, Gate!AdmitRemote
    <3> QED
      BY <1>1, <1>2, <3>1, <3>2
  <2>3. CASE Gate!Die(c)
    <3>1. gate[d] = "held" /\ beats' = beats \ {c} /\ leases' = leases /\ c # d
      BY <2>3 DEF Gate!Die
    <3> QED
      BY <1>1, <1>2, <3>1
  <2>4. CASE Gate!Beat(c)
    BY <1>1, <1>2, <2>4 DEF Gate!Beat
  <2>5. CASE Gate!Lapse(c)
    BY <1>1, <1>2, <2>5 DEF Gate!Lapse
  <2>6. CASE Gate!Stall(c) /\ "stall" \in blame'
    BY <1>1, <2>6 DEF Gate!Stall
  <2>7. ASSUME NEW ran \in BOOLEAN, Gate!LetThrough(c, ran)
        PROVE  d \in beats' /\ ("stall" \notin blame' => d \in leases')
    <3>1. gate[d] = "held" /\ beats' = beats /\ leases \subseteq leases'
      BY <2>7 DEF Gate!LetThrough
    <3> QED
      BY <1>1, <1>2, <3>1
  <2>8. ASSUME NEW removed \in BOOLEAN, NEW late \in BOOLEAN, Gate!Release(c, removed, late)
        PROVE  d \in beats' /\ ("stall" \notin blame' => d \in leases')
    <3>1. gate[d] = "held" /\ c # d
      BY <2>8 DEF Gate!Release
    <3>2. beats \ {c} \subseteq beats' /\ leases \ {c} \subseteq leases'
      BY <2>8 DEF Gate!Release
    <3> QED
      BY <1>1, <1>2, <3>1, <3>2
  <2> QED
    BY <1>4, <2>1, <2>2, <2>3, <2>4, <2>5, <2>6, <2>7, <2>8 DEF OneCall
<1>5. ASSUME NEW n \in Limits, Gate!SetGlobalLimit(n)
      PROVE  d \in beats' /\ ("stall" \notin blame' => d \in leases')
  BY <1>1, <1>2, <1>5 DEF Gate!SetGlobalLimit
<1> QED
  BY <1>3, <1>4, <1>5 DEF GateMove

LEMMA FiniteCalls == IsFiniteSet(Calls)
<1>1. IsFiniteSet(Runs) /\ IsFiniteSet(Images) /\ IsFiniteSet(0..MaxRetry)
  BY ImageAssumption, FS_Interval DEF Runs, Images
<1>2. IsFiniteSet(Tasks)
  BY <1>1, FS_Product DEF Tasks
<1> QED
  BY <1>1, <1>2, FS_Product DEF Calls

\* A call that is admitted is one of at most as many as its limit.
LEMMA AdmissionStep ==
    ASSUME Gate!GateTypeOK, Leased, NEW c \in Calls, Gate!Admit(c), "stall" \notin blame
    PROVE  Cardinality(Gate!Holders') <= IF lite THEN cap ELSE asked[c]
<1> gate \in [Calls -> {"idle", "waiting", "held", "open", "over"}] /\ asked[c] \in Int
    /\ cap \in Int
  BY DEF Gate!GateTypeOK
<1>1. Gate!Holders' \subseteq Gate!Holders \cup {c}
  BY DEF Gate!Holders, Gate!Admit, Gate!AdmitLocal, Gate!AdmitRemote
<1>2. ASSUME NEW S \in SUBSET Calls, Gate!Holders \subseteq S
      PROVE  /\ Cardinality(S) \in Nat /\ Cardinality(Gate!Holders') \in Nat
             /\ Cardinality(Gate!Holders') <= Cardinality(S) + 1
  <2>1. IsFiniteSet(S) /\ IsFiniteSet(S \cup {c})
    BY FiniteCalls, FS_Subset
  <2>2. Gate!Holders' \subseteq S \cup {c}
    BY <1>1, <1>2
  <2>3. /\ Cardinality(Gate!Holders') \in Nat /\ Cardinality(S) \in Nat
        /\ Cardinality(Gate!Holders') <= Cardinality(S \cup {c})
    BY <2>1, <2>2, FS_Subset, FS_CardinalityType
  <2>4. Cardinality(S \cup {c}) = Cardinality(S) \/ Cardinality(S \cup {c}) = Cardinality(S) + 1
    BY <2>1, FS_AddElement
  <2> QED
    BY <2>3, <2>4
<1>3. CASE lite
  <2>1. Cardinality(Gate!Holders) < cap
    BY <1>3 DEF Gate!Admit, Gate!AdmitLocal, Gate!Cardinality, Cardinality
  <2>2. Gate!Holders \in SUBSET Calls
    BY DEF Gate!Holders
  <2> QED
    <3>1. Cardinality(Gate!Holders) \in Nat /\ Cardinality(Gate!Holders') \in Nat
          /\ Cardinality(Gate!Holders') <= Cardinality(Gate!Holders) + 1
      BY <1>2, <2>2
    <3> QED
      BY <1>3, <2>1, <3>1
<1>4. CASE ~lite
  <2>1. Cardinality(leases) < asked[c]
    BY <1>4 DEF Gate!Admit, Gate!AdmitRemote, Gate!Cardinality, Cardinality
  <2>2. Gate!Holders \subseteq leases /\ leases \in SUBSET Calls
    BY <1>4 DEF Leased, Gate!GateTypeOK
  <2> QED
    BY <1>2, <1>4, <2>1, <2>2
<1> QED
  BY <1>3, <1>4

-----------------------------------------------------------------------------
(* Moves of an image task *)

TaskRecords == [pc : TaskStates, tries : 0..MaxRetry, live : BOOLEAN]

\* Where an image is not counted yet.
Before == {"queued", "gate", "call", "decr"}

\* t goes to a state of S, and no other task moves.
Moved(t, S) ==
    /\ TasksOK'
    /\ task'[t].pc \in S
    /\ task[t].live => task'[t].live
    /\ \A u \in Tasks : u # t => task'[u] = task[u]

LEMMA GotoMoves ==
    ASSUME TasksOK, NEW t \in Tasks, NEW pc \in TaskStates, Goto(t, pc)
    PROVE  Moved(t, {pc})
<1> DEFINE r == [task[t] EXCEPT !.pc = pc]
<1>1. task[t] \in TaskRecords
  BY DEF TasksOK, TaskRecords
<1>2. r \in TaskRecords /\ r.pc = pc /\ r.live = task[t].live
  BY <1>1 DEF TaskRecords
<1>3. task' = [task EXCEPT ![t] = r]
  BY DEF Goto
<1> HIDE DEF r
<1>4. /\ task' \in [Tasks -> TaskRecords]
      /\ task'[t] = r
      /\ \A u \in Tasks : u # t => task'[u] = task[u]
  BY <1>2, <1>3 DEF TasksOK, TaskRecords
<1> QED
  BY <1>2, <1>4 DEF Moved, TasksOK, TaskRecords

LEMMA AgainMoves ==
    ASSUME TasksOK, NEW t \in Tasks, Again(t), task[t].tries < MaxRetry
    PROVE  Moved(t, {"queued"})
<1> DEFINE r == [pc |-> "queued", tries |-> task[t].tries + 1, live |-> TRUE]
<1>1. task[t].tries \in 0..MaxRetry
  BY DEF TasksOK
<1>2. r \in TaskRecords /\ r.pc = "queued" /\ r.live
  BY <1>1, ImageAssumption DEF TaskRecords, TaskStates
<1>3. task' = [task EXCEPT ![t] = r]
  BY DEF Again
<1> HIDE DEF r
<1>4. /\ task' \in [Tasks -> TaskRecords]
      /\ task'[t] = r
      /\ \A u \in Tasks : u # t => task'[u] = task[u]
  BY <1>2, <1>3 DEF TasksOK, TaskRecords
<1> QED
  BY <1>2, <1>4 DEF Moved, TasksOK, TaskRecords

LEMMA MovedWider ==
    ASSUME NEW t, NEW S, NEW T, S \subseteq T, Moved(t, S)
    PROVE  Moved(t, T)
BY DEF Moved

LEMMA GotoWithin ==
    ASSUME TasksOK, NEW t \in Tasks, NEW pc \in TaskStates, Goto(t, pc), NEW S, pc \in S
    PROVE  Moved(t, S)
<1>1. Moved(t, {pc})
  BY GotoMoves
<1> QED
  BY <1>1, MovedWider

LEMMA RetryMoves ==
    ASSUME TasksOK, NEW t \in Tasks, Retry(t)
    PROVE  Moved(t, {"queued", "over"})
<1>1. CASE task[t].tries < MaxRetry
  BY <1>1, AgainMoves, MovedWider DEF Retry
<1>2. CASE ~(task[t].tries < MaxRetry)
  <2>1. Goto(t, "over") /\ "over" \in TaskStates
    BY <1>2 DEF Retry, TaskStates
  <2> QED
    BY <2>1, GotoWithin
<1> QED
  BY <1>1, <1>2

LEMMA FailMoves ==
    ASSUME TasksOK, NEW t \in Tasks, Fail(t)
    PROVE  Moved(t, Before \cup {"over"})
<1>1. CASE IsFinal(t)
  <2>1. Goto(t, "decr") /\ "decr" \in TaskStates
    BY <1>1 DEF Fail, TaskStates, Active
  <2> QED
    BY <2>1, GotoWithin DEF Before
<1>2. CASE ~IsFinal(t)
  <2>1. Moved(t, {"queued", "over"})
    BY <1>2, RetryMoves DEF Fail
  <2> QED
    BY <2>1, MovedWider DEF Before
<1> QED
  BY <1>1, <1>2

\* A task whose context is live leaves for good, or is counted again and blamed
\* for it.
LEMMA LeaveMoves ==
    ASSUME TasksOK, NEW t \in Tasks, Leave(t)
    PROVE  /\ Moved(t, {"queued", "over"})
           /\ blame \subseteq blame'
           /\ task[t].live /\ "recounted" \notin blame' => Moved(t, {"over"})
<1> "over" \in TaskStates
  BY DEF TaskStates
<1>1. ASSUME ~lite, Event("crash"), Retry(t), Blame("recounted")
      PROVE  /\ Moved(t, {"queued", "over"})
             /\ blame \subseteq blame' /\ "recounted" \in blame'
  BY <1>1, RetryMoves DEF Blame
<1>2. ASSUME task[t].live, Goto(t, "over"), UNCHANGED blame
      PROVE  Moved(t, {"queued", "over"}) /\ blame \subseteq blame' /\ Moved(t, {"over"})
  BY <1>2, GotoMoves, MovedWider
<1>3. ASSUME ~task[t].live, Retry(t), UNCHANGED blame
      PROVE  Moved(t, {"queued", "over"}) /\ blame \subseteq blame'
  BY <1>3, RetryMoves
<1> QED
  BY <1>1, <1>2, <1>3 DEF Leave

\* What every step of an image task leaves as it is.
Untouched == UNCHANGED <<docVars, reading, seeds>> /\ blame \subseteq blame'

\* An image that is not counted yet comes no further than the counter, or its
\* queue has given it up.
Onward(t) ==
    /\ Untouched /\ UNCHANGED <<pending, posts>>
    /\ task[t].pc \in Before
    /\ Moved(t, Before \cup {"over"})

\* It is counted.
Counts(t) ==
    /\ Untouched /\ UNCHANGED posts
    /\ task[t].pc = "decr"
    /\ Moved(t, {"queued", "zero", "post", "over"})
    /\ pending' \in {pending, pending - 1}
    /\ Clean' => /\ pending' = pending - 1
                 /\ task'[t].pc # "post"
                 /\ pending' <= 0 => task'[t].pc = "zero"
                 /\ pending' > 0 /\ task[t].live => task'[t].pc = "over"

\* The last one enqueues the post-processing, and leaves.
Ends(t) ==
    /\ Untouched
    /\ task[t].pc \in {"zero", "post"}
    /\ Moved(t, {"queued", "over"})
    /\ posts' \in {posts, posts + 1}
    /\ pending' \in {pending, 0}
    /\ Clean' /\ task[t].live /\ task[t].pc = "zero" => task'[t].pc = "over" /\ pending' = 0

LEMMA BeginMoves ==
    ASSUME TasksOK, NEW t \in Tasks, Begin(t) \/ BeginFails(t)
    PROVE  Onward(t)
<1>1. UNCHANGED <<docVars, reading, seeds, pending, posts>> /\ blame \subseteq blame'
      /\ task[t].pc = "queued"
  BY DEF Begin, BeginFails, postVars, Blame
<1>2. Moved(t, Before \cup {"over"})
  <2>1. ASSUME NEW pc \in {"decr", "gate"}, Goto(t, pc) PROVE Moved(t, Before \cup {"over"})
    <3>1. pc \in TaskStates /\ {pc} \subseteq Before \cup {"over"}
      BY DEF TaskStates, Active, Before
    <3> QED
      BY <2>1, <3>1, GotoWithin
  <2>2. ASSUME Retry(t) PROVE Moved(t, Before \cup {"over"})
    BY <2>2, RetryMoves, MovedWider DEF Before
  <2> QED
    BY <2>1, <2>2, FailMoves DEF Begin, BeginFails
<1> QED
  BY <1>1, <1>2 DEF Onward, Untouched, Before

LEMMA CallMoves ==
    ASSUME TasksOK, NEW t \in Tasks, PassGate(t) \/ CallEnds(t) \/ SaveFails(t)
    PROVE  Onward(t)
<1>1. UNCHANGED <<docVars, reading, seeds, pending, posts>> /\ blame \subseteq blame'
      /\ task[t].pc \in {"gate", "call"}
  BY DEF PassGate, CallEnds, SaveFails, postVars, Blame
<1>2. Moved(t, Before \cup {"over"})
  <2>1. ASSUME NEW pc \in {"decr", "call"}, Goto(t, pc) PROVE Moved(t, Before \cup {"over"})
    <3>1. pc \in TaskStates /\ {pc} \subseteq Before \cup {"over"}
      BY DEF TaskStates, Active, Before
    <3> QED
      BY <2>1, <3>1, GotoWithin
  <2> QED
    BY <2>1, FailMoves DEF PassGate, CallEnds, SaveFails
<1> QED
  BY <1>1, <1>2 DEF Onward, Untouched, Before

LEMMA DecrMoves ==
    ASSUME TasksOK, pending \in Int, NEW t \in Tasks, Decr(t)
    PROVE  Counts(t)
<1> DEFINE W == {"queued", "zero", "post", "over"}
<1> {"zero", "post", "over"} \subseteq TaskStates
  BY DEF TaskStates, Active
<1>0. UNCHANGED <<docVars, reading, seeds, posts, lite>> /\ task[t].pc = "decr"
  BY DEF Decr, postVars, gateVars
<1>1. ASSUME ~lite, pending' = pending - 1, pending' <= 0, Goto(t, "zero"), UNCHANGED blame
      PROVE  Counts(t)
  <2>1. Moved(t, {"zero"})
    BY <1>1, GotoMoves
  <2>2. Moved(t, W) /\ task'[t].pc = "zero"
    BY <2>1, MovedWider DEF Moved
  <2> QED
    BY <1>0, <1>1, <2>2 DEF Counts, Untouched
<1>2. ASSUME ~lite, pending' = pending - 1, ~(pending' <= 0), Leave(t) PROVE Counts(t)
  <2>1. Moved(t, W) /\ blame \subseteq blame'
    BY <1>2, LeaveMoves, MovedWider
  <2>2. /\ task'[t].pc # "post"
        /\ Clean' /\ task[t].live => task'[t].pc = "over"
    BY <1>2, LeaveMoves DEF Moved, Clean
  <2>3. pending' > 0
    BY <1>2
  <2> QED
    BY <1>0, <1>2, <2>1, <2>2, <2>3 DEF Counts, Untouched
<1>3. ASSUME Goto(t, "post"), UNCHANGED pending, blame \subseteq blame', ~Clean' PROVE Counts(t)
  <2>1. Moved(t, {"post"})
    BY <1>3, GotoMoves
  <2>2. Moved(t, W)
    BY <2>1, MovedWider
  <2> QED
    BY <1>0, <1>3, <2>2 DEF Counts, Untouched
<1>4. lite \/ Blame("uncounted") => ~Clean'
  BY <1>0 DEF Clean, Blame
<1> QED
  BY <1>1, <1>2, <1>3, <1>4 DEF Decr, Blame

LEMMA FinalizeMoves ==
    ASSUME TasksOK, NEW t \in Tasks, Finalize(t) \/ FinalizeFails(t)
    PROVE  Ends(t)
<1>1. /\ UNCHANGED <<docVars, reading, seeds>> /\ task[t].pc \in {"zero", "post"}
      /\ pending' = IF task[t].pc = "zero" THEN 0 ELSE pending
      /\ posts' \in {posts, posts + 1}
  BY DEF Finalize, FinalizeFails, postVars
<1>2. CASE Leave(t)
  <2>1. Clean' /\ task[t].live => task'[t].pc = "over"
    BY <1>2, LeaveMoves DEF Moved, Clean
  <2> QED
    BY <1>1, <1>2, <2>1, LeaveMoves DEF Ends, Untouched
<1>3. ASSUME Blame("lost"), IF task[t].live THEN Goto(t, "over") ELSE Retry(t) PROVE Ends(t)
  <2>1. "over" \in TaskStates
    BY DEF TaskStates
  <2>2. task[t].live => Moved(t, {"over"})
    BY <1>3, <2>1, GotoMoves
  <2>3. Moved(t, {"queued", "over"})
    BY <1>3, <2>2, RetryMoves, MovedWider
  <2>4. task[t].live => task'[t].pc = "over"
    BY <2>2 DEF Moved
  <2> QED
    BY <1>1, <1>3, <2>3, <2>4 DEF Ends, Untouched, Blame
<1> QED
  BY <1>2, <1>3 DEF Finalize, FinalizeFails

LEMMA CrashMoves ==
    ASSUME TasksOK, NEW t \in Tasks, Crash(t)
    PROVE  Onward(t) \/ Ends(t)
<1>1. /\ UNCHANGED <<docVars, pending, posts, reading, seeds>> /\ blame \subseteq blame'
      /\ task[t].pc \in Active
  BY DEF Crash, postVars
<1>2. Moved(t, {"queued", "over"})
  BY RetryMoves DEF Crash
<1>3. CASE task[t].pc \in {"zero", "post"}
  <2>1. "recounted" \in blame'
    BY <1>3 DEF Crash
  <2> QED
    BY <1>1, <1>2, <1>3, <2>1 DEF Ends, Untouched, Clean
<1>4. CASE task[t].pc \notin {"zero", "post"}
  <2>1. task[t].pc \in Before
    BY <1>1, <1>4 DEF Active, Before
  <2>2. Moved(t, Before \cup {"over"})
    BY <1>2, MovedWider DEF Before
  <2> QED
    BY <1>1, <2>1, <2>2 DEF Onward, Untouched
<1> QED
  BY <1>3, <1>4

-----------------------------------------------------------------------------
(* What the moves of an image task keep *)

LEMMA TasksAre ==
    /\ \A r \in Runs, i \in Images : <<r, i>> \in Tasks
    /\ \A t \in Tasks : t[1] \in Runs /\ t[2] \in Images /\ t = <<t[1], t[2]>>
BY DEF Tasks

ParseOK == parse \in [run : Runs, pc : {"set", "enqueue", "done"}, next : 1..(NumImages + 1)]

LEMMA ParseParts ==
    ASSUME ParseOK
    PROVE  /\ parse.run \in Runs /\ parse.run \in Int
           /\ parse.next \in 1..(NumImages + 1)
           /\ parse.pc \in {"set", "enqueue", "done"}
BY ImageAssumption DEF ParseOK, Runs

LEMMA CleanStays ==
    ASSUME blame \subseteq blame', lite' = lite, Clean'
    PROVE  Clean
BY DEF Clean

\* A task that is about belongs to this run or, if something is to blame, to
\* an earlier one.
LEMMA OfThisRun ==
    ASSUME ParseOK, NotYet, NEW t \in Tasks, task[t].pc # "none"
    PROVE  /\ t[1] <= parse.run
           /\ t[1] = parse.run /\ parse.pc # "done" => t[2] < parse.next
           /\ Settled /\ Clean /\ task[t].pc # "over" =>
                t[1] = parse.run /\ t = <<parse.run, t[2]>> /\ t[2] \in Images
<1> t[1] \in Runs /\ t[2] \in Images /\ t = <<t[1], t[2]>>
  BY TasksAre
<1> t[1] \in Int /\ t[2] \in Int /\ parse.run \in Int /\ parse.next \in Int
  BY ParseParts, ImageAssumption DEF Runs, Images
<1>1. /\ t[1] <= parse.run
      /\ t[1] = parse.run /\ parse.pc # "done" => t[2] < parse.next
  BY DEF NotYet
<1>2. ASSUME Settled, Clean, task[t].pc # "over"
      PROVE  t[1] = parse.run
  <2>1. ~(t[1] < parse.run)
    BY <1>2 DEF Settled
  <2> QED
    BY <1>1, <2>1
<1> QED
  BY <1>1, <1>2

LEMMA NotYetKept ==
    ASSUME ParseOK, TasksOK, NotYet, NEW t \in Tasks, NEW S, "none" \notin S,
           Moved(t, S), task[t].pc # "none", parse' = parse
    PROVE  NotYet'
<1> t[1] \in Runs /\ t[2] \in Images
  BY TasksAre
<1> t[1] \in Int /\ t[2] \in Int /\ parse.run \in Int /\ parse.next \in Int
  BY ParseParts, ImageAssumption DEF Runs, Images
<1>1. t[1] <= parse.run /\ (t[1] = parse.run /\ parse.pc # "done" => t[2] < parse.next)
  BY OfThisRun
<1>2. task'[t].pc # "none"
  BY DEF Moved
<1>3. ~(t[1] > parse.run) /\ ~(t[1] = parse.run /\ parse.pc # "done" /\ t[2] >= parse.next)
  BY <1>1
<1> SUFFICES ASSUME NEW u \in Tasks
             PROVE  /\ u[1] > parse.run => task'[u].pc = "none"
                    /\ u[1] = parse.run /\ parse.pc # "done" /\ u[2] >= parse.next
                         => task'[u].pc = "none"
                    /\ task'[u].pc = "none" => task'[u].live
  BY DEF NotYet
<1>4. CASE u = t
  BY <1>2, <1>3, <1>4
<1>5. CASE u # t
  <2>1. task'[u] = task[u]
    BY <1>5 DEF Moved
  <2> QED
    BY <2>1 DEF NotYet
<1> QED
  BY <1>4, <1>5

LEMMA SettledKept ==
    ASSUME ParseOK, Settled, NotYet, NEW t \in Tasks, NEW S, Moved(t, S),
           task[t].pc \notin {"none", "over"}, parse' = parse,
           Clean' => Clean /\ task'[t].pc # "post"
    PROVE  Settled'
<1> SUFFICES ASSUME Clean', NEW u \in Tasks
             PROVE  /\ u[1] < parse.run => task'[u].pc \in {"none", "over"}
                    /\ task'[u].pc # "post"
  BY DEF Settled
<1>1. t[1] = parse.run /\ task'[t].pc # "post"
  BY OfThisRun
<1>2. CASE u = t
  <2>1. parse.run \in Int
    BY ParseParts
  <2> QED
    BY <1>1, <1>2, <2>1
<1>3. CASE u # t
  <2>1. task'[u] = task[u]
    BY <1>3 DEF Moved
  <2> QED
    BY <2>1 DEF Settled
<1> QED
  BY <1>2, <1>3

LEMMA FiniteUncounted ==
    /\ IsFiniteSet(Uncounted) /\ Cardinality(Uncounted) \in Nat
    /\ Uncounted \subseteq Images
<1>1. IsFiniteSet(Images)
  BY ImageAssumption, FS_Interval DEF Images
<1>2. Uncounted \subseteq Images
  BY DEF Uncounted
<1> QED
  BY <1>1, <1>2, FS_Subset, FS_CardinalityType

LEMMA FewerUncounted ==
    ASSUME NEW S, S \subseteq Uncounted
    PROVE  Cardinality(S) \in Nat /\ Cardinality(S) <= Cardinality(Uncounted)
BY FiniteUncounted, FS_Subset, FS_CardinalityType

\* The other images of the run while t moves.
LEMMA Others ==
    ASSUME ParseOK, NEW t \in Tasks, NEW S, Moved(t, S), parse' = parse,
           t = <<parse.run, t[2]>>
    PROVE  /\ t[2] \in Images
           /\ Now(t[2]) = task[t] /\ Now(t[2])' = task'[t]
           /\ \A i \in Images : i # t[2] => Now(i)' = Now(i)
<1>1. t[2] \in Images
  BY TasksAre
<1>2. ASSUME NEW i \in Images, i # t[2] PROVE Now(i)' = Now(i)
  <2>1. <<parse.run, i>> \in Tasks /\ <<parse.run, i>> # t
    BY <1>2, TasksAre, ParseParts
  <2> QED
    BY <2>1 DEF Moved, Now
<1> QED
  BY <1>1, <1>2 DEF Now

LEMMA OnwardKeeps ==
    ASSUME ParseOK, TasksOK, pending \in Int, posts \in Nat, reading \in Nat,
           NotYet, Settled, Counted, NEW t \in Tasks, Onward(t), lite' = lite
    PROVE  NotYet' /\ Settled' /\ Counted'
<1> USE DEF Onward, Untouched, docVars
<1>1. task[t].pc \notin {"none", "over", "zero", "post"}
  BY DEF Before
<1>2. NotYet'
  BY <1>1, NotYetKept DEF Before
<1>3. Clean' => Clean /\ task'[t].pc \notin {"zero", "post"}
  BY CleanStays DEF Moved, Before
<1>4. Settled'
  BY <1>1, <1>3, SettledKept
<1>5. ASSUME Clean', CanFinalize(row)' PROVE CountHolds'
  <2>1. CountHolds /\ Clean
    BY <1>3, <1>5, CleanStays DEF Counted, CanFinalize
  <2>2. t = <<parse.run, t[2]>> /\ t[2] \in Images
    BY <1>1, <2>1, OfThisRun
  <2>3. /\ Now(t[2]) = task[t] /\ Now(t[2])' = task'[t]
        /\ \A i \in Images : i # t[2] => Now(i)' = Now(i)
    BY <2>2, Others
  <2>4. Uncounted' \subseteq Uncounted
    <3>1. Now(t[2]).pc \notin {"zero", "post", "over"}
      BY <1>1, <2>3
    <3> QED
      BY <2>3, <3>1 DEF Uncounted
  <2>5. parse.pc # "set" => Cardinality(Uncounted') <= pending
    BY <2>1, <2>4, FewerUncounted, FiniteUncounted DEF CountHolds
  <2>6. \A i \in Images : Now(i)'.live
    BY <2>1, <2>3 DEF CountHolds, Moved
  <2>7. \A i \in Images : Now(i)'.pc # "zero"
    BY <1>1, <1>3, <1>5, <2>1, <2>2, <2>3 DEF CountHolds
  <2>8. ~(posts + reading > 0)
    BY <1>1, <2>1, <2>2, <2>3 DEF CountHolds, AllOver
  <2> QED
    BY <2>5, <2>6, <2>7, <2>8 DEF CountHolds
<1> QED
  BY <1>2, <1>4, <1>5 DEF Counted

LEMMA CountsKeeps ==
    ASSUME ParseOK, TasksOK, pending \in Int, posts \in Nat, reading \in Nat,
           NotYet, Settled, Counted, NEW t \in Tasks, Counts(t), lite' = lite
    PROVE  NotYet' /\ Settled' /\ Counted'
<1> USE DEF Counts, Untouched, docVars
<1>1. task[t].pc \notin {"none", "over", "zero", "post"}
  OBVIOUS
<1>2. NotYet'
  BY <1>1, NotYetKept
<1>3. Clean' => Clean
  BY CleanStays
<1>4. Settled'
  BY <1>1, <1>3, SettledKept
<1>5. ASSUME Clean', CanFinalize(row)' PROVE CountHolds'
  <2>1. CountHolds /\ Clean
    BY <1>3, <1>5 DEF Counted, CanFinalize
  <2>2. t = <<parse.run, t[2]>> /\ t[2] \in Images
    BY <1>1, <2>1, OfThisRun
  <2>3. /\ Now(t[2]) = task[t] /\ Now(t[2])' = task'[t]
        /\ \A i \in Images : i # t[2] => Now(i)' = Now(i)
    BY <2>2, Others
  <2>4. parse.pc # "set"
    <3>1. t[1] = parse.run /\ t[2] \in Images
      BY <1>1, <2>1, OfThisRun
    <3>2. parse.pc # "set" \/ ~(t[2] >= 1)
      BY <1>1, <3>1 DEF NotYet
    <3> QED
      BY <3>1, <3>2 DEF Images
  <2>5. task[t].live /\ ~(posts + reading > 0)
    BY <1>1, <2>1, <2>2, <2>3 DEF CountHolds, AllOver
  <2>6. /\ task'[t].pc \in {"zero", "over"}
        /\ task'[t].pc = "zero" \/ pending' > 0
    <3>1. pending' <= 0 \/ pending' > 0
      OBVIOUS
    <3> QED
      BY <1>5, <2>5, <3>1
  <2>7. Uncounted' \subseteq Uncounted \ {t[2]} /\ t[2] \in Uncounted
    <3>1. t[2] \in Uncounted
      BY <2>2, <2>3 DEF Uncounted
    <3> QED
      BY <2>3, <2>6, <3>1 DEF Uncounted
  <2>8. Cardinality(Uncounted') <= pending'
    <3>1. /\ IsFiniteSet(Uncounted \ {t[2]})
          /\ Cardinality(Uncounted \ {t[2]}) = Cardinality(Uncounted) - 1
      BY <2>7, FiniteUncounted, FS_RemoveElement
    <3>2. /\ Cardinality(Uncounted') \in Nat
          /\ Cardinality(Uncounted') <= Cardinality(Uncounted \ {t[2]})
      BY <2>7, <3>1, FS_Subset, FS_CardinalityType
    <3>3. Cardinality(Uncounted) <= pending /\ Cardinality(Uncounted) \in Nat
      BY <2>1, <2>4, FiniteUncounted DEF CountHolds
    <3> QED
      BY <1>5, <3>1, <3>2, <3>3
  <2>9. \A i \in Images : Now(i)'.live
    BY <2>1, <2>3, <2>5 DEF CountHolds, Moved
  <2>10. ASSUME NEW i \in Images, NEW j \in Images, Now(i)'.pc = "zero", j # i
         PROVE  Now(j)'.pc = "over"
    <3>1. i = t[2]
      BY <1>1, <2>1, <2>2, <2>3, <2>10 DEF CountHolds
    <3>2. pending' <= 0
      BY <1>5, <2>3, <2>5, <2>10, <3>1
    <3>3. Cardinality(Uncounted') = 0 /\ IsFiniteSet(Uncounted')
      BY <2>7, <2>8, <3>2, FewerUncounted, FiniteUncounted, FS_Subset
    <3>4. Uncounted' = {}
      BY <3>3, FS_EmptySet
    <3>5. Now(j)' = Now(j)
      BY <2>3, <2>10, <3>1
    <3>6. Now(j).pc # "zero"
      BY <1>1, <2>1, <2>2, <2>3, <2>10, <3>1 DEF CountHolds
    <3>7. Now(j).pc # "post"
      <4>1. <<parse.run, j>> \in Tasks
        BY TasksAre, ParseParts
      <4> QED
        BY <2>1, <4>1 DEF Settled, Now
    <3> QED
      BY <3>4, <3>5, <3>6, <3>7 DEF Uncounted
  <2> QED
    BY <2>5, <2>8, <2>9, <2>10 DEF CountHolds
<1> QED
  BY <1>2, <1>4, <1>5 DEF Counted

LEMMA EndsKeeps ==
    ASSUME ParseOK, TasksOK, pending \in Int, posts \in Nat, reading \in Nat,
           NotYet, Settled, Counted, NEW t \in Tasks, Ends(t), lite' = lite
    PROVE  NotYet' /\ Settled' /\ Counted'
<1> USE DEF Ends, Untouched, docVars
<1>1. task[t].pc \notin {"none", "over"}
  OBVIOUS
<1>2. NotYet'
  BY <1>1, NotYetKept
<1>3. Clean' => Clean /\ task'[t].pc # "post"
  BY CleanStays DEF Moved
<1>4. Settled'
  BY <1>1, <1>3, SettledKept
<1>5. ASSUME Clean', CanFinalize(row)' PROVE CountHolds'
  <2>1. CountHolds /\ Clean
    BY <1>3, <1>5 DEF Counted, CanFinalize
  <2>2. t = <<parse.run, t[2]>> /\ t[2] \in Images
    BY <1>1, <2>1, OfThisRun
  <2>3. /\ Now(t[2]) = task[t] /\ Now(t[2])' = task'[t]
        /\ \A i \in Images : i # t[2] => Now(i)' = Now(i)
    BY <2>2, Others
  <2>4. task[t].live /\ task[t].pc = "zero"
    BY <2>1, <2>2, <2>3 DEF CountHolds, Settled
  <2>5. task'[t].pc = "over" /\ pending' = 0
    BY <1>5, <2>4
  <2>6. \A i \in Images : Now(i)'.pc = "over"
    BY <2>1, <2>2, <2>3, <2>4, <2>5 DEF CountHolds
  <2>7. Uncounted' = {}
    BY <2>6 DEF Uncounted
  <2>8. Cardinality(Uncounted') <= pending'
    BY <2>5, <2>7, FS_EmptySet
  <2>9. \A i \in Images : Now(i)'.live
    BY <2>1, <2>3, <2>4 DEF CountHolds, Moved
  <2> QED
    BY <2>6, <2>8, <2>9 DEF CountHolds, AllOver
<1> QED
  BY <1>2, <1>4, <1>5 DEF Counted

-----------------------------------------------------------------------------
(* The steps *)

DocTypes ==
    /\ row \in Rows
    /\ ParseOK
    /\ pending \in Int /\ pending <= NumImages
    /\ TasksOK
    /\ posts \in Nat /\ reading \in Nat /\ seeds \in Nat

DocInv == DocTypes /\ Seeded /\ NotYet /\ Settled /\ Counted

LEMMA Parts == IInv <=> DocInv /\ Gate!GateTypeOK /\ Leased
BY DEF IInv, TypeOK, DocInv, DocTypes, ParseOK, TasksOK, TaskStates

LEMMA SeededKept ==
    ASSUME Seeded, UNCHANGED <<row, parse, seeds>>
    PROVE  Seeded'
BY DEF Seeded, CanFinalize

LEMMA TaskStep ==
    ASSUME DocInv, lite' = lite, NEW t \in Tasks,
           \/ Begin(t) \/ BeginFails(t) \/ PassGate(t) \/ CallEnds(t) \/ SaveFails(t)
           \/ Decr(t) \/ Finalize(t) \/ FinalizeFails(t) \/ Crash(t)
    PROVE  DocInv'
<1>1. DocTypes /\ Seeded /\ NotYet /\ Settled /\ Counted
  BY DEF DocInv
<1>2. Onward(t) \/ Counts(t) \/ Ends(t)
  BY <1>1, BeginMoves, CallMoves, DecrMoves, FinalizeMoves, CrashMoves DEF DocTypes
<1>3. NotYet' /\ Settled' /\ Counted'
  BY <1>1, <1>2, OnwardKeeps, CountsKeeps, EndsKeeps DEF DocTypes
<1>4. Seeded' /\ UNCHANGED <<row, parse, reading, seeds>>
  BY <1>1, <1>2, SeededKept DEF Onward, Counts, Ends, Untouched, docVars
<1>5. TasksOK'
  BY <1>2 DEF Onward, Counts, Ends, Moved
<1>6. posts' \in Nat /\ pending' \in Int /\ pending' <= NumImages
  BY <1>1, <1>2, ImageAssumption DEF Onward, Counts, Ends, DocTypes
<1> QED
  BY <1>1, <1>3, <1>4, <1>5, <1>6 DEF DocInv, DocTypes, ParseOK

\* The counter is set, and there are no more images than it says.
LEMMA SetCounterStep ==
    ASSUME DocInv, SetCounter
    PROVE  DocInv'
<1>1. DocTypes /\ Seeded /\ NotYet /\ Settled /\ Counted
  BY DEF DocInv
<1>2. /\ UNCHANGED <<row, task, posts, reading, seeds, lite>> /\ blame \subseteq blame'
      /\ parse.pc = "set" /\ parse' = [parse EXCEPT !.pc = "enqueue"]
      /\ pending' \in {pending, 0, NumImages}
      /\ "uncounted" \notin blame' /\ ~lite => pending' = NumImages
  BY DEF SetCounter, postVars, gateVars, Blame
<1>3. /\ ParseOK' /\ parse'.run = parse.run /\ parse'.next = parse.next
      /\ parse'.pc = "enqueue"
  BY <1>1, <1>2 DEF DocTypes, ParseOK
<1>4. DocTypes'
  BY <1>1, <1>2, <1>3, ImageAssumption DEF DocTypes, TasksOK
<1>5. Seeded' /\ NotYet'
  BY <1>1, <1>2, <1>3 DEF Seeded, NotYet, CanFinalize
<1>6. Clean' => Clean
  BY <1>2, CleanStays
<1>7. Settled'
  BY <1>1, <1>2, <1>3, <1>6 DEF Settled
<1>8. ASSUME Clean', CanFinalize(row)' PROVE CountHolds'
  <2>1. CountHolds
    BY <1>1, <1>2, <1>6, <1>8 DEF Counted, CanFinalize
  <2>2. \A i \in Images : Now(i)' = Now(i)
    BY <1>2, <1>3 DEF Now
  <2>3. Cardinality(Uncounted') <= NumImages
    <3>1. Uncounted' \subseteq Images
      BY DEF Uncounted
    <3>2. IsFiniteSet(Images) /\ Cardinality(Images) = NumImages
      BY ImageAssumption, FS_Interval DEF Images
    <3> QED
      BY <3>1, <3>2, FS_Subset
  <2>4. pending' = NumImages
    BY <1>2, <1>8 DEF Clean
  <2> QED
    BY <1>2, <2>1, <2>2, <2>3, <2>4 DEF CountHolds, AllOver
<1> QED
  BY <1>4, <1>5, <1>7, <1>8 DEF DocInv, Counted

LEMMA EnqueueStep ==
    ASSUME DocInv, EnqueueImage
    PROVE  DocInv'
<1> DEFINE n == <<parse.run, parse.next>>
<1>1. DocTypes /\ Seeded /\ NotYet /\ Settled /\ Counted
  BY DEF DocInv
<1>2. /\ UNCHANGED <<row, pending, posts, reading, seeds, lite>> /\ blame \subseteq blame'
      /\ parse.pc = "enqueue" /\ parse.next <= NumImages
      /\ parse' = [parse EXCEPT !.next = @ + 1]
      /\ Goto(n, "queued") \/ UNCHANGED task
  BY DEF EnqueueImage, postVars, gateVars, Blame
<1>3. parse.run \in Runs /\ parse.next \in Images /\ n \in Tasks
  BY <1>1, <1>2, ImageAssumption, ParseParts, TasksAre DEF DocTypes, Images
<1>4. /\ ParseOK' /\ parse'.run = parse.run /\ parse'.next = parse.next + 1
      /\ parse'.pc = "enqueue"
  BY <1>1, <1>2, <1>3, ImageAssumption DEF DocTypes, ParseOK, Images
<1>5. task[n].pc = "none" /\ task[n].live
  <2>1. n[1] = parse.run /\ n[2] = parse.next
    OBVIOUS
  <2>2. n[2] >= parse.next
    BY <1>3, <2>1 DEF Images
  <2> HIDE DEF n
  <2> QED
    BY <1>1, <1>2, <1>3, <2>1, <2>2 DEF NotYet
<1>6. /\ TasksOK'
      /\ task'[n].pc \in {"none", "queued"} /\ task'[n].live
      /\ \A u \in Tasks : u # n => task'[u] = task[u]
  <2>1. CASE Goto(n, "queued")
    <3>1. Moved(n, {"queued"})
      BY <1>1, <1>3, <2>1, GotoMoves DEF DocTypes, TaskStates
    <3> QED
      BY <1>5, <3>1 DEF Moved
  <2>2. CASE UNCHANGED task
    BY <1>1, <1>5, <2>2 DEF DocTypes, TasksOK
  <2> QED
    BY <1>2, <2>1, <2>2
<1>7. DocTypes'
  BY <1>1, <1>2, <1>4, <1>6 DEF DocTypes
<1>8. Seeded'
  BY <1>1, <1>2, <1>4 DEF Seeded, CanFinalize
<1>9. NotYet'
  <2> SUFFICES ASSUME NEW u \in Tasks
               PROVE  /\ u[1] > parse.run => task'[u].pc = "none"
                      /\ u[1] = parse.run /\ u[2] >= parse.next + 1 => task'[u].pc = "none"
                      /\ task'[u].pc = "none" => task'[u].live
    BY <1>4 DEF NotYet
  <2>0. u[2] \in Int /\ parse.run \in Int /\ parse.next \in Int
    BY <1>1, <1>3, TasksAre, ParseParts DEF Images, DocTypes
  <2>1. CASE u = n
    <3>1. u[1] = parse.run /\ u[2] = parse.next
      BY <2>1
    <3> HIDE DEF n
    <3> QED
      BY <1>6, <2>0, <2>1, <3>1
  <2>2. CASE u # n
    <3>1. task'[u] = task[u]
      BY <1>6, <2>2
    <3> QED
      BY <1>1, <1>2, <2>0, <3>1 DEF NotYet
  <2> QED
    BY <2>1, <2>2
<1>10. Clean' => Clean
  BY <1>2, CleanStays
<1>11. Settled'
  <2> SUFFICES ASSUME Clean', NEW u \in Tasks
               PROVE  /\ u[1] < parse.run => task'[u].pc \in {"none", "over"}
                      /\ task'[u].pc # "post"
    BY <1>4 DEF Settled
  <2>1. CASE u = n
    <3>1. u[1] = parse.run /\ parse.run \in Int
      BY <1>1, <2>1, ParseParts DEF DocTypes
    <3> HIDE DEF n
    <3> QED
      BY <1>6, <2>1, <3>1
  <2>2. CASE u # n
    <3>1. task'[u] = task[u]
      BY <1>6, <2>2
    <3> QED
      BY <1>1, <1>10, <3>1 DEF Settled
  <2> QED
    BY <2>1, <2>2
<1>12. ASSUME Clean', CanFinalize(row)' PROVE CountHolds'
  <2>1. CountHolds
    BY <1>1, <1>2, <1>10, <1>12 DEF Counted, CanFinalize
  <2>2. \A i \in Images : i # parse.next => Now(i)' = Now(i)
    BY <1>3, <1>4, <1>6, TasksAre DEF Now
  <2>3. \A i \in Images : i = parse.next =>
          Now(i).pc = "none" /\ Now(i)'.pc \in {"none", "queued"} /\ Now(i)'.live
    BY <1>4, <1>5, <1>6 DEF Now
  <2>4. Uncounted' = Uncounted
    BY <2>2, <2>3 DEF Uncounted
  <2>5. \A i \in Images : Now(i)'.live
    BY <2>1, <2>2, <2>3 DEF CountHolds
  <2>6. \A i \in Images : Now(i)'.pc # "zero"
    BY <1>3, <2>1, <2>2, <2>3 DEF CountHolds
  <2>7. ~(posts + reading > 0)
    BY <1>3, <2>1, <2>3 DEF CountHolds, AllOver
  <2> QED
    BY <1>2, <2>1, <2>4, <2>5, <2>6, <2>7 DEF CountHolds
<1> QED
  BY <1>7, <1>8, <1>9, <1>11, <1>12 DEF DocInv, Counted

LEMMA ProcessEndsStep ==
    ASSUME DocInv, ProcessEnds
    PROVE  DocInv'
<1>1. DocTypes /\ Seeded /\ NotYet /\ Settled /\ Counted
  BY DEF DocInv
<1>2. /\ UNCHANGED <<row, pending, task, posts, reading, seeds, lite, blame>>
      /\ parse.pc = "enqueue" /\ parse' = [parse EXCEPT !.pc = "done"]
  BY DEF ProcessEnds, postVars, gateVars
<1>3. /\ ParseOK' /\ parse'.run = parse.run /\ parse'.next = parse.next
      /\ parse'.pc = "done"
  BY <1>1, <1>2 DEF DocTypes, ParseOK
<1>4. DocTypes'
  BY <1>1, <1>2, <1>3 DEF DocTypes, TasksOK
<1>5. Seeded' /\ NotYet'
  BY <1>1, <1>2, <1>3 DEF Seeded, NotYet, CanFinalize
<1>6. Settled'
  BY <1>1, <1>2, <1>3 DEF Settled, Clean
<1>7. ASSUME Clean', CanFinalize(row)' PROVE CountHolds'
  <2>1. CountHolds
    BY <1>1, <1>2, <1>7 DEF Counted, CanFinalize, Clean
  <2>2. \A i \in Images : Now(i)' = Now(i)
    BY <1>2, <1>3 DEF Now
  <2>3. Uncounted' = Uncounted
    BY <2>2 DEF Uncounted
  <2> QED
    BY <1>2, <2>1, <2>2, <2>3 DEF CountHolds, AllOver
<1> QED
  BY <1>4, <1>5, <1>6, <1>7 DEF DocInv, Counted

LEMMA RowTypes ==
    ASSUME NEW r \in Rows
    PROVE  /\ \A s \in ParseStatuses :
                /\ SetStatus(r, s) \in Rows
                /\ SetStatusResetCount(r, s) \in Rows
                /\ s # "processing" => ~CanFinalize(SetStatusResetCount(r, s))
           /\ SetFinalizing(r, 1) \in Rows
           /\ CanFinalize(r) => SetFinalizing(r, 1) # r /\ ~CanFinalize(SetFinalizing(r, 1))
           /\ ~CanFinalize(r) => SetFinalizing(r, 1) = r
<1>1. \A s \in ParseStatuses :
        /\ SetStatus(r, s) \in Rows
        /\ SetStatusResetCount(r, s) \in Rows
        /\ s # "processing" => ~CanFinalize(SetStatusResetCount(r, s))
  BY DEF SetStatus, SetStatusResetCount, CanFinalize, Rows
<1>2. "finalizing" \in ParseStatuses
  BY DEF ParseStatuses
<1>3. CASE CanFinalize(r)
  <2> DEFINE q == [r EXCEPT !.status = "finalizing", !.count = 1]
  <2>1. q \in Rows /\ q.status = "finalizing"
    BY <1>2 DEF Rows
  <2>2. SetFinalizing(r, 1) = q
    BY <1>3 DEF SetFinalizing
  <2>3. r.status = "processing"
    BY <1>3 DEF CanFinalize
  <2> HIDE DEF q
  <2> QED
    BY <1>1, <1>3, <2>1, <2>2, <2>3 DEF CanFinalize
<1>4. CASE ~CanFinalize(r)
  BY <1>1, <1>4 DEF SetFinalizing
<1> QED
  BY <1>3, <1>4

LEMMA CompletedType ==
    ASSUME NEW r \in Rows, r.status = "finalizing"
    PROVE  Promote(Decrement(r)) \in Rows /\ ~CanFinalize(Promote(Decrement(r)))
<1>1. Decrement(r) \in Rows /\ Decrement(r).status = "finalizing"
  BY DEF Decrement, Rows
<1> DEFINE d == Decrement(r)
<1>2. d \in Rows /\ d.status = "finalizing"
  BY <1>1
<1> HIDE DEF d
<1>3. Promote(d) \in Rows /\ Promote(d).status \in {"finalizing", "completed"}
  BY <1>2 DEF Promote, Rows, ParseStatuses
<1> QED
  BY <1>3 DEF CanFinalize, d

\* A new run: what is left of the earlier ones is held against them.
LEMMA RunAgainStep ==
    ASSUME DocInv, RunAgain, row' \in Rows
    PROVE  DocInv'
<1>1. DocTypes /\ Seeded /\ NotYet /\ Settled /\ Counted
  BY DEF DocInv
<1>2. /\ UNCHANGED <<pending, task, posts, reading, seeds, lite>> /\ blame \subseteq blame'
      /\ parse.run < MaxRuns
      /\ parse' = [run |-> parse.run + 1, pc |-> "set", next |-> 1]
      /\ Leftovers => "leftovers" \in blame'
  BY DEF RunAgain, postVars, gateVars, Blame
<1>3. /\ ParseOK' /\ parse'.run = parse.run + 1 /\ parse'.next = 1
      /\ parse'.pc = "set" /\ parse.run \in Int /\ parse.run + 1 \in Runs
  BY <1>1, <1>2, ImageAssumption DEF DocTypes, ParseOK, Runs
<1>4. DocTypes'
  BY <1>1, <1>2, <1>3 DEF DocTypes, TasksOK
<1>5. Seeded'
  BY <1>1, <1>2, <1>3 DEF Seeded, DocTypes
<1>6. \A t \in Tasks : t[1] \in Int
  BY TasksAre, ImageAssumption DEF Runs
<1>7. NotYet'
  <2>1. \A t \in Tasks : t[1] >= parse.run + 1 => task[t].pc = "none"
    BY <1>1, <1>3, <1>6 DEF NotYet
  <2> QED
    BY <1>1, <1>2, <1>3, <1>6, <2>1 DEF NotYet
<1>8. Clean' => /\ posts + reading = 0
                /\ \A t \in Tasks : task[t].pc \in {"none", "over"}
  <2>1. Clean' => ~Leftovers
    BY <1>2 DEF Clean
  <2> QED
    BY <1>1, <2>1 DEF Leftovers, DocTypes
<1>9. Settled'
  BY <1>2, <1>8 DEF Settled
<1>10. ASSUME Clean' PROVE CountHolds'
  <2>1. \A i \in Images : Now(i)' = task[<<parse.run + 1, i>>]
    BY <1>2, <1>3 DEF Now
  <2>2. \A i \in Images : Now(i)'.pc = "none" /\ Now(i)'.live
    <3> SUFFICES ASSUME NEW i \in Images
                 PROVE  task[<<parse.run + 1, i>>].pc = "none" /\ task[<<parse.run + 1, i>>].live
      BY <2>1
    <3>1. <<parse.run + 1, i>> \in Tasks
      BY <1>3, TasksAre
    <3>2. task[<<parse.run + 1, i>>].pc = "none"
      BY <1>1, <1>3, <3>1 DEF NotYet
    <3> QED
      BY <1>1, <3>1, <3>2 DEF NotYet
  <2> QED
    BY <1>2, <1>3, <1>8, <1>10, <2>2 DEF CountHolds
<1> QED
  BY <1>4, <1>5, <1>7, <1>9, <1>10 DEF DocInv, Counted

LEMMA CancelStep ==
    ASSUME DocInv, Cancel
    PROVE  DocInv'
<1> DEFINE cancelled(t) ==
      [task[t] EXCEPT !.pc = IF @ = "queued" THEN "over" ELSE @,
                      !.live = task[t].pc \notin Active]
<1>1. DocTypes /\ Seeded /\ NotYet /\ Settled /\ Counted
  BY DEF DocInv
<1>2. /\ UNCHANGED <<parse, pending, reading, seeds, lite, blame>>
      /\ row' = SetStatusResetCount(row, "cancelled")
      /\ posts' \in {posts, 0}
      /\ task' = task \/ task' = [t \in Tasks |-> cancelled(t)]
  BY DEF Cancel, gateVars
<1>3. row' \in Rows /\ ~CanFinalize(row')
  BY <1>1, <1>2, RowTypes DEF DocTypes, ParseStatuses
<1>4. /\ TasksOK'
      /\ \A t \in Tasks : /\ \/ task'[t].pc = task[t].pc
                             \/ task[t].pc = "queued" /\ task'[t].pc = "over"
                          /\ task[t].pc = "none" /\ task[t].live => task'[t].live
  <2>1. ASSUME NEW t \in Tasks
        PROVE  /\ cancelled(t) \in TaskRecords
               /\ \/ cancelled(t).pc = task[t].pc
                  \/ task[t].pc = "queued" /\ cancelled(t).pc = "over"
               /\ task[t].pc = "none" => cancelled(t).live
    <3>1. task[t] \in TaskRecords
      BY <1>1 DEF DocTypes, TasksOK, TaskRecords
    <3> QED
      BY <3>1 DEF TaskRecords, TaskStates, Active
  <2> HIDE DEF cancelled
  <2>2. CASE task' = task
    <3>1. TasksOK'
      BY <1>1, <2>2 DEF DocTypes, TasksOK
    <3> QED
      BY <2>2, <3>1
  <2>3. CASE task' = [t \in Tasks |-> cancelled(t)]
    <3>1. \A t \in Tasks : task'[t] = cancelled(t)
      BY <2>3
    <3>2. TasksOK'
      BY <2>1, <2>3 DEF TasksOK, TaskRecords
    <3> QED
      BY <2>1, <3>1, <3>2
  <2> QED
    BY <1>2, <2>2, <2>3
<1>5. DocTypes'
  <2>1. TasksOK'
    BY <1>4
  <2>2. ParseOK'
    BY <1>1, <1>2 DEF DocTypes, ParseOK
  <2>3. posts' \in Nat
    <3>1. posts \in Nat
      BY <1>1 DEF DocTypes
    <3>2. CASE posts' = posts
      BY <3>1, <3>2
    <3>3. CASE posts' = 0
      BY <3>3
    <3> QED
      BY <1>2, <3>2, <3>3
  <2>4. /\ reading' \in Nat /\ seeds' \in Nat
        /\ pending' \in Int /\ pending' <= NumImages
    BY <1>1, <1>2 DEF DocTypes
  <2> QED
    BY <1>3, <2>1, <2>2, <2>3, <2>4 DEF DocTypes
<1>6. Seeded'
  BY <1>1, <1>2, <1>3 DEF Seeded, DocTypes
<1>7. NotYet'
  BY <1>1, <1>2, <1>4 DEF NotYet
<1>8. Settled'
  BY <1>1, <1>2, <1>4 DEF Settled, Clean
<1> QED
  BY <1>3, <1>5, <1>6, <1>7, <1>8 DEF DocInv, Counted

LEMMA HandedOver ==
    ASSUME NEW p \in Nat, NEW r \in Nat, p > 0, NEW q \in {r, r + 1}
    PROVE  p - 1 \in Nat /\ q \in Nat /\ (p - 1) + q <= p + r
OBVIOUS

LEMMA NoneBefore ==
    ASSUME NEW p \in Nat, NEW r \in Nat, NEW p1 \in Nat, NEW r1 \in Nat,
           p1 + r1 <= p + r
    PROVE  p1 + r1 > 0 => p + r > 0
OBVIOUS

\* Steps that leave the runs and their tasks alone.
LEMMA SameTasks ==
    ASSUME DocInv, UNCHANGED <<parse, pending, task, lite>>, blame \subseteq blame',
           row' \in Rows, posts' \in Nat, reading' \in Nat, seeds' \in Nat, Seeded',
           CanFinalize(row') => row' = row /\ posts' + reading' <= posts + reading
    PROVE  DocInv'
<1>1. DocTypes /\ NotYet /\ Settled /\ Counted
  BY DEF DocInv
<1>2. DocTypes'
  BY <1>1 DEF DocTypes, ParseOK, TasksOK
<1>3. Clean' => Clean
  BY CleanStays
<1>4. NotYet' /\ Settled'
  BY <1>1, <1>3 DEF NotYet, Settled
<1>5. ASSUME Clean', CanFinalize(row)' PROVE CountHolds'
  <2>1. CountHolds
    BY <1>1, <1>3, <1>5 DEF Counted, CanFinalize
  <2>2. \A i \in Images : Now(i)' = Now(i)
    BY DEF Now
  <2>3. Uncounted' = Uncounted
    BY <2>2 DEF Uncounted
  <2>4. posts' + reading' > 0 => posts + reading > 0
    <3>1. CanFinalize(row')
      BY <1>5 DEF CanFinalize
    <3>2. posts' + reading' <= posts + reading
      BY <3>1
    <3>3. posts \in Nat /\ reading \in Nat
      BY <1>1 DEF DocTypes
    <3> QED
      BY <3>2, <3>3, NoneBefore
  <2> QED
    BY <2>1, <2>2, <2>3, <2>4 DEF CountHolds, AllOver
<1> QED
  BY <1>2, <1>4, <1>5 DEF DocInv, Counted

LEMMA PostReadStep ==
    ASSUME DocInv, PostRead
    PROVE  DocInv'
<1>1. DocTypes /\ Seeded
  BY DEF DocInv
<1>2. /\ UNCHANGED <<row, parse, pending, task, lite, seeds, blame>>
      /\ posts > 0 /\ posts' = posts - 1 /\ reading' \in {reading, reading + 1}
  BY DEF PostRead, docVars, gateVars
<1>3. posts' \in Nat /\ reading' \in Nat /\ posts' + reading' <= posts + reading
  <2>1. posts \in Nat /\ reading \in Nat
    BY <1>1 DEF DocTypes
  <2> QED
    BY <1>2, <2>1, HandedOver
<1>4. Seeded'
  BY <1>1, <1>2, SeededKept
<1> QED
  BY <1>1, <1>2, <1>3, <1>4, SameTasks DEF DocTypes

LEMMA PostSeedStep ==
    ASSUME DocInv, PostSeed
    PROVE  DocInv'
<1>1. DocTypes /\ Seeded
  BY DEF DocInv
<1>2. /\ UNCHANGED <<parse, pending, task, posts, lite, blame>>
      /\ reading > 0 /\ reading' = reading - 1
      /\ row' = SetFinalizing(row, 1)
      /\ seeds' = IF row' # row THEN seeds + 1 ELSE seeds
  BY DEF PostSeed, gateVars
<1>3. /\ row' \in Rows /\ reading' \in Nat /\ posts' + reading' <= posts + reading
      /\ ~CanFinalize(row')
      /\ seeds' = IF CanFinalize(row) THEN seeds + 1 ELSE seeds
  BY <1>1, <1>2, RowTypes DEF DocTypes
<1>4. Seeded' /\ seeds' \in Nat
  <2>1. parse.run \in Int
    BY <1>1, ParseParts DEF DocTypes
  <2>2. Seeded'
    BY <1>1, <1>2, <1>3, <2>1 DEF Seeded, DocTypes
  <2> QED
    BY <1>1, <1>3, <2>2 DEF DocTypes
<1> QED
  BY <1>1, <1>2, <1>3, <1>4, SameTasks DEF DocTypes

LEMMA CompleteStep ==
    ASSUME DocInv, Complete
    PROVE  DocInv'
<1>1. DocTypes /\ Seeded
  BY DEF DocInv
<1>2. /\ UNCHANGED <<parse, pending, task, posts, reading, seeds, lite, blame>>
      /\ row.status = "finalizing" /\ row' = Promote(Decrement(row))
  BY DEF Complete, postVars, gateVars
<1>3. row' \in Rows /\ ~CanFinalize(row')
  BY <1>1, <1>2, CompletedType DEF DocTypes
<1>4. Seeded'
  BY <1>1, <1>2, <1>3 DEF Seeded
<1> QED
  BY <1>1, <1>2, <1>3, <1>4, SameTasks DEF DocTypes

LEMMA DocStutter ==
    ASSUME DocInv, UNCHANGED <<docVars, pending, task, postVars, lite>>, blame \subseteq blame'
    PROVE  DocInv'
<1>1. DocTypes /\ Seeded
  BY DEF DocInv
<1>2. UNCHANGED <<row, parse, pending, task, posts, reading, seeds, lite>>
  BY DEF docVars, postVars
<1>3. Seeded'
  BY <1>1, <1>2, SeededKept
<1>4. row' \in Rows /\ posts' \in Nat /\ reading' \in Nat /\ seeds' \in Nat
      /\ posts' + reading' <= posts + reading
  BY <1>1, <1>2 DEF DocTypes
<1> QED
  BY <1>2, <1>3, <1>4, SameTasks

\* What each action does to the gate.
LEMMA GateMoves ==
    ASSUME TasksOK, [Next]_vars
    PROVE  GateMove
<1>1. CASE UNCHANGED vars
  BY <1>1 DEF vars, gateVars, GateMove
<1>2. CASE Work \/ Complete \/ ProcessCrash \/ Reparse \/ Cancel
  BY <1>2 DEF Work, Complete, ProcessCrash, Reparse, Cancel, RunAgain, SetCounter,
     EnqueueImage, ProcessEnds, PostRead, PostSeed, GateMove, Blame
<1>3. CASE Retune
  BY <1>3 DEF Retune, GateMove
<1>4. ASSUME NEW t \in Tasks,
             \/ BeginFails(t) \/ Decr(t) \/ Finalize(t) \/ FinalizeFails(t)
      PROVE  GateMove
  BY <1>4 DEF BeginFails, Decr, Finalize, FinalizeFails, Leave, Blame, GateMove
<1>5. ASSUME NEW t \in Tasks,
             \/ Begin(t) \/ PassGate(t) \/ CallEnds(t) \/ SaveFails(t) \/ Crash(t)
      PROVE  GateMove
  <2>1. blame \subseteq blame'
    BY <1>5 DEF Begin, PassGate, CallEnds, SaveFails, Crash, Blame
  <2>2. Call(t) \in Calls
    BY CallIsCall
  <2>3. CASE Begin(t)
    BY <2>1, <2>2, <2>3 DEF Begin, GateMove, OneCall
  <2>4. CASE PassGate(t)
    <3>1. \/ Gate!Admit(Call(t)) \/ UNCHANGED gateVars
          \/ \E ran \in BOOLEAN : Gate!LetThrough(Call(t), ran)
      BY <2>4 DEF PassGate
    <3> QED
      BY <2>1, <2>2, <3>1 DEF GateMove, OneCall
  <2>5. CASE CallEnds(t) \/ SaveFails(t)
    <3>1. \E removed, late \in BOOLEAN : Gate!Release(Call(t), removed, late)
      BY <2>5 DEF CallEnds, GiveBack, SaveFails
    <3> QED
      BY <2>1, <2>2, <3>1 DEF GateMove, OneCall
  <2>6. CASE Crash(t)
    BY <2>1, <2>2, <2>6 DEF Crash, GateMove, OneCall
  <2> QED
    BY <1>5, <2>3, <2>4, <2>5, <2>6
<1>6. ASSUME NEW c \in Calls, Renew(c) \/ Lapse(c) \/ Stall(c) PROVE GateMove
  BY <1>6 DEF Renew, Lapse, Stall, GateMove, OneCall, Blame
<1> QED
  BY <1>1, <1>2, <1>3, <1>4, <1>5, <1>6 DEF Next, Step

LEMMA LiteStays ==
    ASSUME GateMove
    PROVE  lite' = lite
BY DEF GateMove, OneCall, gateVars, Gate!Enter, Gate!Admit, Gate!AdmitLocal,
   Gate!AdmitRemote, Gate!Die, Gate!Beat, Gate!Lapse, Gate!Stall, Gate!LetThrough,
   Gate!Release, Gate!SetGlobalLimit

LEMMA DocSteps ==
    ASSUME DocInv, [Next]_vars
    PROVE  DocInv'
<1>0. lite' = lite /\ blame \subseteq blame'
  BY GateMoves, LiteStays DEF DocInv, DocTypes, GateMove
<1>1. CASE UNCHANGED vars
  BY <1>0, <1>1, DocStutter DEF vars
<1>2. CASE Work
  BY <1>2, SetCounterStep, EnqueueStep, ProcessEndsStep, PostReadStep, PostSeedStep DEF Work
<1>3. CASE Complete \/ Cancel
  BY <1>3, CompleteStep, CancelStep
<1>4. CASE ProcessCrash \/ Reparse
  <2>1. row' \in Rows
    BY <1>4, RowTypes DEF ProcessCrash, Reparse, DocInv, DocTypes, ParseStatuses
  <2>2. RunAgain
    BY <1>4 DEF ProcessCrash, Reparse
  <2> QED
    BY <2>1, <2>2, RunAgainStep
<1>5. CASE Retune
  BY <1>0, <1>5, DocStutter DEF Retune
<1>6. ASSUME NEW t \in Tasks,
             Step(t) \/ BeginFails(t) \/ SaveFails(t) \/ FinalizeFails(t) \/ Crash(t)
      PROVE  DocInv'
  BY <1>0, <1>6, TaskStep DEF Step
<1>7. ASSUME NEW c \in Calls, Renew(c) \/ Lapse(c) \/ Stall(c) PROVE DocInv'
  BY <1>0, <1>7, DocStutter DEF Renew, Lapse, Stall
<1> QED
  BY <1>1, <1>2, <1>3, <1>4, <1>5, <1>6, <1>7 DEF Next

LEMMA InitIInv == Init => IInv
<1> SUFFICES ASSUME Init PROVE IInv
  OBVIOUS
<1> USE DEF Init
<1>1. DocTypes
  <2>1. row \in Rows
    BY DEF Rows, ParseStatuses
  <2>2. ParseOK
    BY ImageAssumption DEF ParseOK, Runs
  <2>3. TasksOK
    BY ImageAssumption DEF TasksOK, TaskStates
  <2> QED
    BY <2>1, <2>2, <2>3, ImageAssumption DEF DocTypes
<1>2. Seeded /\ NotYet /\ Settled
  BY DEF Seeded, NotYet, Settled
<1>3. Counted
  <2>1. \A i \in Images : <<1, i>> \in Tasks
    BY ImageAssumption DEF Tasks, Runs
  <2>2. \A i \in Images : Now(i).pc = "none" /\ Now(i).live
    BY <2>1 DEF Now
  <2> QED
    BY <2>2 DEF Counted, CountHolds
<1>4. Gate!GateTypeOK
  BY ImageAssumption DEF Gate!GateInit, Gate!GateTypeOK
<1>5. Leased
  BY DEF Gate!GateInit, Leased, Gate!Holders
<1> QED
  BY <1>1, <1>2, <1>3, <1>4, <1>5, Parts DEF DocInv

LEMMA StepIInv == IInv /\ [Next]_vars => IInv'
<1> SUFFICES ASSUME IInv, [Next]_vars PROVE IInv'
  OBVIOUS
<1>1. DocInv /\ Gate!GateTypeOK /\ Leased
  BY Parts
<1>2. GateMove
  BY <1>1, GateMoves DEF DocInv, DocTypes
<1>3. DocInv' /\ Gate!GateTypeOK' /\ Leased'
  BY <1>1, <1>2, DocSteps, GateType, LeasedKept
<1> QED
  BY <1>3 DEF IInv, TypeOK, DocInv, DocTypes, ParseOK, TasksOK, TaskStates

-----------------------------------------------------------------------------
(***************************************************************************)
(* The inductive invariant holds: the counter of an undisturbed run is     *)
(* never below the images that checkAndFinalizeAllImages has yet to count, *)
(* a row that waits for its fan-out has had none in this run, and every    *)
(* holder of a slot of the gate has a lease that its heartbeat renews.     *)
(***************************************************************************)
THEOREM Invariant == Spec => []IInv
<1>1. Init => IInv
  BY InitIInv
<1>2. IInv /\ [Next]_vars => IInv'
  BY StepIInv
<1> QED
  BY <1>1, <1>2, PTL DEF Spec

(***************************************************************************)
(* The state has its types, the gate's included: no task is retried past   *)
(* its budget, and the counter never exceeds the number of images.         *)
(***************************************************************************)
THEOREM TypeCorrect == Spec => []TypeOK
<1>1. IInv => TypeOK
  BY DEF IInv
<1> QED
  BY <1>1, Invariant, PTL

(***************************************************************************)
(* However many post-process tasks the images, their retries and the       *)
(* errors of Redis enqueue, a run of the document fans out once at most.   *)
(***************************************************************************)
THEOREM OneFanOut == Spec => []FanOutOnce
<1>1. IInv => FanOutOnce
  BY DEF IInv, Seeded, FanOutOnce
<1> QED
  BY <1>1, Invariant, PTL

LEMMA LastStep == IInv /\ [Next]_vars =>
    (seeds' > seeds /\ ~lite /\ blame \cap {"uncounted", "recounted", "leftovers"} = {}
       => \A i \in Images : task[<<parse.run, i>>].pc = "over")
<1> SUFFICES ASSUME IInv, [Next]_vars, seeds' > seeds, Clean
             PROVE  \A i \in Images : task[<<parse.run, i>>].pc = "over"
  BY DEF Clean
<1>1. DocInv
  BY Parts
<1>2. DocTypes /\ Seeded /\ Counted
  BY <1>1 DEF DocInv
<1>3. PostSeed
  <2>0. seeds' # seeds
    BY <1>2 DEF DocTypes
  <2>1. ASSUME NEW t \in Tasks,
               Step(t) \/ BeginFails(t) \/ SaveFails(t) \/ FinalizeFails(t) \/ Crash(t)
        PROVE  seeds' = seeds
    BY <1>2, <2>1, BeginMoves, CallMoves, DecrMoves, FinalizeMoves, CrashMoves
    DEF DocTypes, Step, Onward, Counts, Ends, Untouched
  <2>2. ASSUME NEW c \in Calls, Renew(c) \/ Lapse(c) \/ Stall(c) PROVE seeds' = seeds
    BY <2>2 DEF Renew, Lapse, Stall, postVars
  <2>3. Complete \/ Retune \/ ProcessCrash \/ Reparse \/ Cancel \/ UNCHANGED vars
          => seeds' = seeds
    BY DEF Complete, Retune, ProcessCrash, Reparse, RunAgain, Cancel, postVars, vars
  <2>4. SetCounter \/ EnqueueImage \/ ProcessEnds \/ PostRead => seeds' = seeds
    BY DEF SetCounter, EnqueueImage, ProcessEnds, PostRead, postVars
  <2> QED
    BY <2>0, <2>1, <2>2, <2>3, <2>4 DEF Next, Work
<1>4. reading > 0 /\ row' # row /\ row' = SetFinalizing(row, 1)
  BY <1>2, <1>3 DEF PostSeed, DocTypes
<1>5. CanFinalize(row)
  BY <1>4 DEF SetFinalizing
<1>6. AllOver
  BY <1>2, <1>4, <1>5 DEF Counted, CountHolds, DocTypes
<1> QED
  BY <1>6 DEF AllOver, Now

(***************************************************************************)
(* "For documents with multiple images we also wait until all images are   *)
(* processed": a step that seeds the fan-out finds every image of the run  *)
(* counted, unless what FanOutLast names has disturbed the count.          *)
(***************************************************************************)
THEOREM AllImagesFirst == Spec => FanOutLast
<1>1. IInv /\ [Next]_vars =>
        (seeds' > seeds /\ ~lite /\ blame \cap {"uncounted", "recounted", "leftovers"} = {}
           => \A i \in Images : task[<<parse.run, i>>].pc = "over")
  BY LastStep
<1> QED
  BY <1>1, Invariant, PTL DEF Spec, FanOutLast

LEMMA AdmissionOfStep == IInv /\ [Next]_vars =>
    (\A c \in Calls :
       gate[c] # "held" /\ gate'[c] = "held" /\ "stall" \notin blame
         => Cardinality(Gate!Holders') <= IF lite THEN cap ELSE asked[c])
<1> SUFFICES ASSUME IInv, [Next]_vars, NEW c \in Calls,
                    gate[c] # "held", gate'[c] = "held", "stall" \notin blame
             PROVE  Cardinality(Gate!Holders') <= IF lite THEN cap ELSE asked[c]
  OBVIOUS
<1>1. TasksOK /\ Gate!GateTypeOK /\ Leased
  BY Parts DEF DocInv, DocTypes
<1>2. Gate!Admit(c)
  BY <1>1, GateMoves, Admitted
<1> QED
  BY <1>1, <1>2, AdmissionStep

(***************************************************************************)
(* The model's concurrency limit is kept, whatever is released late,       *)
(* crashes or is set anew: an admitted call is one of at most as many as   *)
(* the limit it read, unless a process stood still for a whole lease.      *)
(***************************************************************************)
THEOREM LimitIsKept == Spec => Admission
<1>1. IInv /\ [Next]_vars =>
        (\A c \in Calls :
           gate[c] # "held" /\ gate'[c] = "held" /\ "stall" \notin blame
             => Cardinality(Gate!Holders') <= IF lite THEN cap ELSE asked[c])
  BY AdmissionOfStep
<1> QED
  BY <1>1, Invariant, PTL DEF Spec, Admission
=============================================================================
