----------------------------- MODULE ImageFanIn -----------------------------
(***************************************************************************)
(* The images of one document.  The tail of document:process sets a        *)
(* counter in Redis and enqueues a task per image; each task asks a vision *)
(* model, behind the concurrency gate, writes what it read as chunks, and  *)
(* counts itself; the last one enqueues the post-processing, whose fan-out *)
(* reads those chunks.                                                     *)
(*                                                                         *)
(* A document may be processed again: its task is redelivered after a      *)
(* crash, or the user reparses.  The image tasks of the earlier run are    *)
(* then still about.  Without Redis (Lite mode) there is no counter.       *)
(***************************************************************************)
EXTENDS KnowledgeRow, FiniteSets

CONSTANTS
  NumImages,   \* images of the document
  MaxRetry,    \* asynq's retry budget of an image task
  MaxRuns,     \* bound: how often the document is processed
  Default,     \* the limit of calls to the vision model
  Limits,      \* what an operator may set it to
  Scenarios    \* bound: sets of kinds of faults and interventions, one of
               \* which holds all those of a behaviour

ASSUME ImageAssumption ==
  /\ NumImages \in Nat \ {0} /\ MaxRuns \in Nat \ {0} /\ MaxRetry \in Nat
  /\ Default \in Int /\ Limits \subseteq Int

Kinds == {"redis", "enqueue", "db", "crash", "stall", "late",
          "redeliver", "reparse", "cancel", "retune"}

ASSUME ScenariosAssumption == Scenarios \subseteq SUBSET Kinds

Images == 1..NumImages
Runs   == 1..MaxRuns
Tasks  == Runs \X Images

\* One call per execution of a task stands for its one or two.
Calls  == Tasks \X (0..MaxRetry)

VARIABLES
  row,      \* the knowledges row
  parse,    \* the run of document:process, where it is, the next image
  pending,  \* multimodal:pending:<id>; a missing key counts as 0
  task,     \* image tasks: where, retries used, whether the context is live
  posts,    \* post-process tasks that wait
  reading,  \* those that have found the row processing
  lite, limit, cap, gate, asked, leases, beats,
  seeds,    \* ghost: fan-outs that have been seeded
  blame,    \* ghost: what has happened that may disturb the count
  events    \* ghost: the kinds of fault and intervention there have been

Gate == INSTANCE ModelLimiter

docVars  == <<row, parse>>
postVars == <<posts, reading, seeds>>
gateVars == <<lite, limit, cap, gate, asked, leases, beats>>

vars == <<docVars, pending, task, postVars, gateVars, blame, events>>

Event(k) ==
  /\ events' = events \cup {k}
  /\ \E S \in Scenarios : events' \subseteq S

Blame(f) == blame' = blame \cup {f}

Call(t) == <<t, task[t].tries>>
Goto(t, pc) == task' = [task EXCEPT ![t].pc = pc]

\* A worker has the task.
Active == {"gate", "call", "decr", "zero", "post"}

TypeOK ==
  /\ row \in Rows
  /\ parse \in [run : Runs, pc : {"set", "enqueue", "done"}, next : 1..(NumImages + 1)]
  /\ pending \in Int /\ pending <= NumImages
  /\ task \in [Tasks -> [pc : {"none", "queued"} \cup Active \cup {"over"},
                         tries : 0..MaxRetry, live : BOOLEAN]]
  /\ posts \in Nat /\ reading \in Nat /\ seeds \in Nat
  /\ Gate!GateTypeOK

\* processChunks has saved the row and comes to the images.
Init ==
  /\ row = [status |-> "processing", count |-> 0, deleted |-> FALSE]
  /\ parse = [run |-> 1, pc |-> "set", next |-> 1]
  /\ pending = 0
  /\ task = [t \in Tasks |-> [pc |-> "none", tries |-> 0, live |-> TRUE]]
  /\ posts = 0 /\ reading = 0 /\ seeds = 0
  /\ Gate!GateInit
  /\ blame = {} /\ events = {}

-----------------------------------------------------------------------------
(* document:process *)

\* Something of the runs so far is still about.
Leftovers ==
  posts + reading > 0 \/ \E t \in Tasks : task[t].pc \notin {"none", "over"}

\* The counter is set; an error is only logged.  Lite mode has none.
SetCounter ==
  /\ parse.pc = "set"
  /\ parse' = [parse EXCEPT !.pc = "enqueue"]
  /\ \/ /\ pending' = IF lite THEN 0 ELSE NumImages
        /\ UNCHANGED <<blame, events>>
     \/ ~lite /\ Event("redis") /\ Blame("uncounted") /\ UNCHANGED pending
  /\ UNCHANGED <<row, task, postVars, gateVars>>

\* An image whose task cannot be enqueued is skipped.
EnqueueImage ==
  /\ parse.pc = "enqueue" /\ parse.next <= NumImages
  /\ parse' = [parse EXCEPT !.next = @ + 1]
  /\ \/ Goto(<<parse.run, parse.next>>, "queued") /\ UNCHANGED <<blame, events>>
     \/ Event("enqueue") /\ Blame("lost") /\ UNCHANGED task
  /\ UNCHANGED <<row, pending, postVars, gateVars>>

ProcessEnds ==
  /\ parse.pc = "enqueue" /\ parse.next > NumImages
  /\ parse' = [parse EXCEPT !.pc = "done"]
  /\ UNCHANGED <<row, pending, task, postVars, gateVars, blame, events>>

\* The document is processed from the start.
RunAgain ==
  /\ parse.run < MaxRuns
  /\ parse' = [run |-> parse.run + 1, pc |-> "set", next |-> 1]
  /\ IF Leftovers THEN Blame("leftovers") ELSE UNCHANGED blame
  /\ UNCHANGED <<pending, task, postVars, gateVars>>

\* The worker dies before it acknowledges; the task is redelivered.
ProcessCrash ==
  /\ ~lite /\ parse.pc = "enqueue"
  /\ ~Aborted(row) /\ row.status # "completed"
  /\ Event("redeliver")
  /\ row' = SetStatus(row, "processing")
  /\ RunAgain

\* ReparseKnowledge, and document:process up to the images.
Reparse ==
  /\ parse.pc = "done"
  /\ row' = SetStatusResetCount(row, "processing")
  /\ Event("reparse")
  /\ RunAgain

\* CancelKnowledgeParse: the UPDATE, then (with Redis) what waits is removed
\* from the queue and the contexts of the running tasks are cancelled.
Cancel ==
  /\ row.status \in InProgress
  /\ row' = SetStatusResetCount(row, "cancelled")
  /\ IF lite THEN UNCHANGED <<task, posts>>
     ELSE /\ task' = [t \in Tasks |->
               [task[t] EXCEPT !.pc = IF @ = "queued" THEN "over" ELSE @,
                               !.live = task[t].pc \notin Active]]
          /\ posts' = 0
  /\ Event("cancel")
  /\ UNCHANGED <<parse, pending, reading, seeds, gateVars, blame>>

-----------------------------------------------------------------------------
(* ImageMultimodalService.Handle *)

\* isFinalAsynqAttempt: Lite mode's executor leaves no retry count behind.
IsFinal(t) == ~lite /\ task[t].tries = MaxRetry

Again(t) == task' = [task EXCEPT ![t] = [pc |-> "queued", tries |-> @.tries + 1, live |-> TRUE]]

\* Faulty variant: a failure that never counts.
FailNeverCounts(t) ==
  IF task[t].tries < MaxRetry THEN Again(t) ELSE Goto(t, "over")

\* The queue's answer to a handler that did not succeed.
Retry(t) ==
  IF task[t].tries < MaxRetry THEN Again(t) ELSE Goto(t, "over")

\* The deferred function on a failure: only the last attempt counts.
Fail(t) == IF IsFinal(t) THEN Goto(t, "decr") ELSE Retry(t)

\* The task is taken from the queue and the row is read.  An image that cannot
\* be read is skipped like one that is to be dropped.
Begin(t) ==
  /\ task[t].pc = "queued"
  /\ \/ Goto(t, "decr") /\ UNCHANGED gateVars
     \/ ~Aborted(row) /\ Goto(t, "gate") /\ Gate!Enter(Call(t))
  /\ UNCHANGED <<docVars, pending, postVars, blame, events>>

\* The row, or the model's configuration, cannot be read.  shouldDrop's error
\* returns before the deferred function is there, resolveVLM's after it.
BeginFails(t) ==
  /\ task[t].pc = "queued"
  /\ Event("db")
  /\ \/ Retry(t) /\ (IF task[t].tries < MaxRetry THEN UNCHANGED blame ELSE Blame("lost"))
     \/ ~Aborted(row) /\ Fail(t)
        /\ (IF lite /\ task[t].tries = MaxRetry THEN Blame("lost") ELSE UNCHANGED blame)
  /\ UNCHANGED <<docVars, pending, postVars, gateVars>>

\* The gate opens: a slot, no limit, or no way to ask for one.
PassGate(t) ==
  /\ task[t].pc = "gate"
  /\ \/ Gate!Admit(Call(t)) /\ UNCHANGED events
     \/ gate[Call(t)] = "open" /\ UNCHANGED <<gateVars, events>>
     \/ ~task[t].live /\ Gate!LetThrough(Call(t), FALSE) /\ UNCHANGED events
     \/ ~lite /\ Event("redis") /\ \E ran \in BOOLEAN : Gate!LetThrough(Call(t), ran)
  /\ Goto(t, "call")
  /\ UNCHANGED <<docVars, pending, postVars, blame>>

\* The slot is given back, in one of the ways release can go.
GiveBack(t) ==
  \/ Gate!Release(Call(t), TRUE, FALSE) /\ UNCHANGED events
  \/ Event("late") /\ Call(t) \in beats /\ Gate!Release(Call(t), TRUE, TRUE)
  \/ ~lite /\ Event("redis") /\ Gate!Release(Call(t), FALSE, FALSE)

\* The model answers, with or without a text, or fails, which is no error, and
\* what text there is has been saved.
CallEnds(t) ==
  /\ task[t].pc = "call"
  /\ GiveBack(t)
  /\ Goto(t, "decr")
  /\ UNCHANGED <<docVars, pending, postVars, blame>>

\* CreateChunks fails.
SaveFails(t) ==
  /\ task[t].pc = "call"
  /\ IF task[t].live THEN Event("db") ELSE UNCHANGED events
  /\ Gate!Release(Call(t), TRUE, FALSE)
  /\ Fail(t)
  /\ IF lite /\ task[t].tries = MaxRetry THEN Blame("lost") ELSE UNCHANGED blame
  /\ UNCHANGED <<docVars, pending, postVars>>

\* The handler has counted the image and returns.  A task whose context was
\* cancelled is retried, and one whose worker dies first is redelivered.
Leave(t) ==
  \/ (IF task[t].live THEN Goto(t, "over") ELSE Retry(t)) /\ UNCHANGED <<blame, events>>
  \/ ~lite /\ Event("crash") /\ Retry(t) /\ Blame("recounted")

\* Faulty variant: the last but one image takes itself for the last.
DecrOffByOne(t) ==
  /\ task[t].pc = "decr"
  /\ pending' = pending - 1
  /\ IF pending' <= 1 THEN Goto(t, "zero") /\ UNCHANGED <<blame, events>> ELSE Leave(t)
  /\ UNCHANGED <<docVars, postVars, gateVars>>

\* checkAndFinalizeAllImages: the decrement.  Without Redis, or when it fails,
\* the post-processing is enqueued by this image alone.
Decr(t) ==
  /\ task[t].pc = "decr"
  /\ \/ /\ ~lite /\ task[t].live
        /\ pending' = pending - 1
        /\ IF pending' <= 0 THEN Goto(t, "zero") /\ UNCHANGED <<blame, events>> ELSE Leave(t)
     \/ lite /\ Goto(t, "post") /\ UNCHANGED <<pending, blame, events>>
     \/ /\ ~lite
        /\ IF task[t].live THEN Event("redis") ELSE UNCHANGED events
        /\ Blame("uncounted") /\ Goto(t, "post") /\ UNCHANGED pending
  /\ UNCHANGED <<docVars, postVars, gateVars>>

\* The key is deleted, if there was one, and the post-processing enqueued.
Finalize(t) ==
  /\ task[t].pc \in {"zero", "post"}
  /\ pending' = IF task[t].pc = "zero" THEN 0 ELSE pending
  /\ posts' = posts + 1
  /\ Leave(t)
  /\ UNCHANGED <<docVars, reading, seeds, gateVars>>

\* That it could not be enqueued is only logged.
FinalizeFails(t) ==
  /\ task[t].pc \in {"zero", "post"}
  /\ Event("enqueue") /\ Blame("lost")
  /\ pending' = IF task[t].pc = "zero" THEN 0 ELSE pending
  /\ IF task[t].live THEN Goto(t, "over") ELSE Retry(t)
  /\ UNCHANGED <<docVars, postVars, gateVars>>

\* The worker dies before that; the queue delivers the task again, or gives it
\* up.
Crash(t) ==
  /\ ~lite /\ task[t].pc \in Active
  /\ Event("crash")
  /\ Retry(t)
  /\ IF gate[Call(t)] \in {"waiting", "held", "open"}
     THEN Gate!Die(Call(t)) ELSE UNCHANGED gateVars
  /\ blame' = blame \cup (IF task[t].pc \in {"zero", "post"} THEN {"recounted"} ELSE {})
                    \cup (IF task[t].tries = MaxRetry THEN {"lost"} ELSE {})
  /\ UNCHANGED <<docVars, pending, postVars>>

-----------------------------------------------------------------------------
(* KnowledgePostProcess.Handle, up to the fan-out, and the environment *)

PostRead ==
  /\ posts > 0
  /\ posts' = posts - 1
  /\ reading' = IF row.status = "processing" /\ ~row.deleted THEN reading + 1 ELSE reading
  /\ UNCHANGED <<docVars, pending, task, seeds, gateVars, blame, events>>

\* A document with images has text, so there is something to fan out.
PostSeed ==
  /\ reading > 0
  /\ reading' = reading - 1
  /\ row' = SetFinalizing(row, 1)
  /\ seeds' = IF row' # row THEN seeds + 1 ELSE seeds
  /\ UNCHANGED <<parse, pending, task, posts, gateVars, blame, events>>

\* The fan-out runs to its end (EnrichmentFanOut).
Complete ==
  /\ row.status = "finalizing"
  /\ row' = Promote(Decrement(row))
  /\ UNCHANGED <<parse, pending, task, postVars, gateVars, blame, events>>

Retune ==
  /\ Event("retune")
  /\ \E n \in Limits : Gate!SetGlobalLimit(n)
  /\ UNCHANGED <<docVars, pending, task, postVars, blame>>

Renew(c) == Gate!Beat(c) /\ UNCHANGED <<docVars, pending, task, postVars, blame, events>>
Lapse(c) == Gate!Lapse(c) /\ UNCHANGED <<docVars, pending, task, postVars, blame, events>>
Stall(c) ==
  /\ Event("stall") /\ Blame("stall") /\ Gate!Stall(c)
  /\ UNCHANGED <<docVars, pending, task, postVars>>

Step(t) == Begin(t) \/ PassGate(t) \/ CallEnds(t) \/ Decr(t) \/ Finalize(t)

Work == SetCounter \/ EnqueueImage \/ ProcessEnds \/ PostRead \/ PostSeed

Next ==
  \/ Work \/ Complete \/ Retune
  \/ ProcessCrash \/ Reparse \/ Cancel
  \/ \E t \in Tasks : Step(t) \/ BeginFails(t) \/ SaveFails(t) \/ FinalizeFails(t) \/ Crash(t)
  \/ \E c \in Calls : Renew(c) \/ Lapse(c) \/ Stall(c)

Spec == Init /\ [][Next]_vars

\* Workers take what is queued, a model call ends by its timeout, and time
\* passes.  The poll of a waiting call may miss a slot, but not for ever.
Fairness ==
  /\ WF_vars(Work)
  /\ \A t \in Tasks : WF_vars(Step(t))
  /\ \A c \in Calls : WF_vars(Renew(c)) /\ WF_vars(Lapse(c))

FairSpec == Spec /\ Fairness

-----------------------------------------------------------------------------
(***************************************************************************)
(* The comment of Handle: "for documents with multiple images we also wait *)
(* until all images are processed before triggering summary/question       *)
(* generation".  With Redis the fan-out of a run is seeded only when each  *)
(* of its images has been counted, retries, skipped images and dropped     *)
(* tasks included, unless a task was counted twice or not at all because   *)
(* of a crash or a Redis error, or an earlier run had left something.      *)
(***************************************************************************)
FanOutLast ==
  [][seeds' > seeds /\ ~lite /\ blame \cap {"uncounted", "recounted", "leftovers"} = {}
       => \A i \in Images : task[<<parse.run, i>>].pc = "over"]_vars

(***************************************************************************)
(* What makes a doubled post-process task harmless, in the words of        *)
(* checkAndFinalizeAllImages: however many are enqueued, by whatever       *)
(* fault, one run of the document fans out once at the most.               *)
(***************************************************************************)
FanOutOnce == seeds <= parse.run

(***************************************************************************)
(* No image can strand its document: the last run ends with its fan-out,   *)
(* or with the row in a state in which the user or the sweep has left it,  *)
(* also when calls wait behind the lease of a dead worker; unless a task   *)
(* or the whole post-processing was lost on the way to the queue.          *)
(***************************************************************************)
NotStranded ==
  <>[](\/ row.status # "processing"
       \/ "lost" \in blame)

(***************************************************************************)
(* The promise of the gate, whatever is released, crashed or set anew: a   *)
(* call that is given a slot is one of at most as many as the limit it     *)
(* read (acquireScript), in Lite mode as the channel holds; a process that *)
(* stands still for a whole lease is the exception.                        *)
(***************************************************************************)
Admission ==
  [][\A c \in Calls :
       gate[c] # "held" /\ gate'[c] = "held" /\ "stall" \notin blame
         => Cardinality(Gate!Holders') <= IF lite THEN cap ELSE asked[c]]_vars

(***************************************************************************)
(* "A crashed holder's lease simply expires and is reclaimed": no token    *)
(* stays in the set when its call is over, also when the release fails or  *)
(* a heartbeat puts the token back behind it.                              *)
(***************************************************************************)
SlotsReturn ==
  \A c \in Calls : []<>(c \in leases => gate[c] \in {"waiting", "held", "open"})
=============================================================================
