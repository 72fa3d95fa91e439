-------------------------- MODULE EnrichmentFanOut --------------------------
(***************************************************************************)
(* The enrichment fan-out of one parse: KnowledgePostProcess.Handle seeds  *)
(* pending_subtasks_count and enqueues the summary, question-batch, graph  *)
(* and wiki subtasks; each subtask drains its slot when it ends; the       *)
(* handler itself releases the slots whose task it could not enqueue.      *)
(*                                                                         *)
(* The row and its statements are those of KnowledgeRow.  A subtask drains *)
(* with two statements (FinalizeSubtask), so other workers run between the *)
(* decrement and the promotion.  The queue retries a failing task          *)
(* MaxRetry times; a worker may die, and the queue then delivers the task  *)
(* again, or archives it without running it when no retry is left.  What   *)
(* is assumed of the queue: a task whose subtask has drained is            *)
(* acknowledged, and not delivered once more.                              *)
(*                                                                         *)
(* There is one attempt here and no user: cancelling, deleting and         *)
(* reparsing are in KnowledgePipeline.                                     *)
(***************************************************************************)
EXTENDS KnowledgeRow, FiniteSets

CONSTANTS
    Subtask,    \* the slots a document may be given: summary, batches, wiki
    Wiki,       \* those enqueued fire-and-forget through the wiki queue
    MaxRetry    \* asynq's retry budget of a task

ASSUME SubtaskAssumption == IsFiniteSet(Subtask) /\ Wiki \subseteq Subtask
ASSUME MaxRetryAssumption == MaxRetry \in Nat

VARIABLES
    row,    \* the knowledges row
    post,   \* where Handle is
    plan,   \* the subtasks Handle decided to spawn
    slot,   \* the life of each subtask's slot in the counter
    tries,  \* retries used, per subtask and (under "post") by Handle
    fault   \* history: a drain, a release, a task or a probe has been lost

vars == <<row, post, plan, slot, tries, fault>>

PostStates == {"queued", "planned", "enqueueing", "releasing", "done"}

SlotStates ==
    {"none",       \* not planned
     "planned",    \* counted, not handed to a queue yet
     "short",      \* counted, enqueue failed: Handle must release it
     "queued", "running",
     "exiting",    \* the handler's body is over; its deferred drain is next
     "drained",    \* decremented by the subtask, promotion not yet tried
     "released",   \* decremented by Handle, promotion not yet tried
     "settled",
     "lost"}       \* counted, and nobody will ever drain it

\* The slots the counter counts.
Counted == {"planned", "short", "queued", "running", "exiting", "lost"}

\* A queue or a worker still holds the subtask.
Live == {"queued", "running", "exiting", "drained"}

Owed == {s \in Subtask : slot[s] \in Counted}

TypeOK ==
    /\ row \in Rows
    /\ post \in PostStates
    /\ plan \in SUBSET Subtask
    /\ slot \in [Subtask -> SlotStates]
    /\ tries \in [Subtask \cup {"post"} -> 0..MaxRetry]
    /\ fault \in BOOLEAN

\* processChunks has saved the row as "processing" and enqueued the task.
Init ==
    /\ row = [status |-> "processing", count |-> 0, deleted |-> FALSE]
    /\ post = "queued"
    /\ plan = {}
    /\ slot = [s \in Subtask |-> "none"]
    /\ tries = [t \in Subtask \cup {"post"} |-> 0]
    /\ fault = FALSE

CanRetry(t) == tries[t] < MaxRetry
Retry(t) == tries' = [tries EXCEPT ![t] = @ + 1]

-----------------------------------------------------------------------------
(* Faulty variants. *)

\* Seeding one slot for the whole fan-out instead of one per task.
SeedOnePerTask ==
    /\ post = "planned"
    /\ plan # {}
    /\ row' = SetFinalizing(row, 1)
    /\ post' = "enqueueing"
    /\ slot' = [s \in Subtask |-> IF s \in plan THEN "planned" ELSE slot[s]]
    /\ UNCHANGED <<plan, tries, fault>>

\* Draining on every exit, the failures that will be retried included.
DrainEveryFailure(s) ==
    /\ slot[s] = "running"
    /\ slot' = [slot EXCEPT ![s] = IF CanRetry(s) THEN "queued" ELSE "exiting"]
    /\ row' = Decrement(row)
    /\ IF CanRetry(s) THEN Retry(s) ELSE UNCHANGED tries
    /\ UNCHANGED <<post, plan, fault>>

\* Housekeeping without the span and queue gates.
SweepBacklogged ==
    /\ row.status \in InProgress
    /\ post = "done"
    /\ row' = SweepStuck(row)
    /\ UNCHANGED <<post, plan, slot, tries, fault>>

-----------------------------------------------------------------------------
(* KnowledgePostProcess.Handle *)

\* Read the row and the chunks; S is what the chunks and the configuration of
\* the knowledge base ask for (empty when the document has no text chunk).
PostPlan(S) ==
    /\ post = "queued"
    /\ IF row.status = "processing"
       THEN post' = "planned" /\ plan' = S
       ELSE post' = "done" /\ UNCHANGED plan
    /\ UNCHANGED <<row, slot, tries, fault>>

\* A read failed: asynq retries Handle, and after the last attempt the
\* dead-letter callback marks the document failed.
PostReadFails ==
    /\ post = "queued"
    /\ IF CanRetry("post")
       THEN Retry("post") /\ UNCHANGED <<row, post, fault>>
       ELSE /\ post' = "done"
            /\ row' = SetStatus(row, "failed")
            /\ fault' = TRUE
            /\ UNCHANGED tries
    /\ UNCHANGED <<plan, slot>>

\* Nothing to enrich: the row is completed on the spot.
PostComplete ==
    /\ post = "planned"
    /\ plan = {}
    /\ row' = SetStatus(row, "completed")
    /\ post' = "done"
    /\ UNCHANGED <<plan, slot, tries, fault>>

\* Seed the counter and enter "finalizing", before any task is enqueued.
PostSetFinalizing ==
    /\ post = "planned"
    /\ plan # {}
    /\ row' = SetFinalizing(row, Cardinality(plan))
    /\ IF CanFinalize(row)
       THEN /\ post' = "enqueueing"
            /\ slot' = [s \in Subtask |->
                          IF s \in plan THEN "planned" ELSE slot[s]]
       ELSE post' = "done" /\ UNCHANGED slot
    /\ UNCHANGED <<plan, tries, fault>>

\* The database refused either write: Handle logs it, reports success and
\* spawns nothing.
PostWriteFails ==
    /\ post = "planned"
    /\ post' = "done"
    /\ fault' = TRUE
    /\ UNCHANGED <<row, plan, slot, tries>>

PostEnqueue(s) ==
    /\ post = "enqueueing"
    /\ slot[s] = "planned"
    /\ slot' = [slot EXCEPT ![s] = "queued"]
    /\ UNCHANGED <<row, post, plan, tries, fault>>

\* Enqueueing reports failure (or NEO4J is off): the slot is a shortfall.
PostEnqueueFails(s) ==
    /\ post = "enqueueing"
    /\ slot[s] = "planned"
    /\ s \notin Wiki
    /\ slot' = [slot EXCEPT ![s] = "short"]
    /\ UNCHANGED <<row, post, plan, tries, fault>>

\* EnqueueWikiIngest swallows its failures: the gap the code documents.
PostLosesWiki(s) ==
    /\ post = "enqueueing"
    /\ slot[s] = "planned"
    /\ s \in Wiki
    /\ slot' = [slot EXCEPT ![s] = "lost"]
    /\ fault' = TRUE
    /\ UNCHANGED <<row, post, plan, tries>>

PostReconcile ==
    /\ post = "enqueueing"
    /\ \A s \in Subtask : slot[s] # "planned"
    /\ post' = "releasing"
    /\ UNCHANGED <<row, plan, slot, tries, fault>>

\* The shortfall loop calls FinalizeSubtask once per slot, one after the other.
PostRelease(s) ==
    /\ post = "releasing"
    /\ slot[s] = "short"
    /\ \A r \in Subtask : slot[r] # "released"
    /\ row' = Decrement(row)
    /\ slot' = [slot EXCEPT ![s] = "released"]
    /\ UNCHANGED <<post, plan, tries, fault>>

PostReleasePromote(s) ==
    /\ post = "releasing"
    /\ slot[s] = "released"
    /\ row' = Promote(row)
    /\ slot' = [slot EXCEPT ![s] = "settled"]
    /\ UNCHANGED <<post, plan, tries, fault>>

\* The slots a Handle that stops here leaves without an owner.
Abandon ==
    slot' = [s \in Subtask |->
               CASE slot[s] \in {"planned", "short"} -> "lost"
                 [] slot[s] = "released"             -> "settled"
                 [] OTHER                            -> slot[s]]

\* The first failing release ends the loop.
PostReleaseFails ==
    /\ post = "releasing"
    /\ \E s \in Subtask : slot[s] = "short"
    /\ \A s \in Subtask : slot[s] # "released"
    /\ Abandon
    /\ post' = "done"
    /\ fault' = TRUE
    /\ UNCHANGED <<row, plan, tries>>

PostFinish ==
    /\ post = "releasing"
    /\ \A s \in Subtask : slot[s] \notin {"short", "released"}
    /\ post' = "done"
    /\ UNCHANGED <<row, plan, slot, tries, fault>>

\* The worker dies inside Handle.  The redelivered task finds the row where
\* this one left it.
PostCrash ==
    /\ post \in {"planned", "enqueueing", "releasing"}
    /\ Abandon
    /\ IF CanRetry("post")
       THEN post' = "queued" /\ Retry("post")
       ELSE post' = "done" /\ UNCHANGED tries
    /\ fault' = TRUE
    /\ UNCHANGED <<row, plan>>

-----------------------------------------------------------------------------
(* A subtask's handler, and the drain it defers to its exit *)

Start(s) ==
    /\ slot[s] = "queued"
    /\ slot' = [slot EXCEPT ![s] = "running"]
    /\ UNCHANGED <<row, post, plan, tries, fault>>

\* The body returns nil: the work is done, or there was none to do.
Succeed(s) ==
    /\ slot[s] = "running"
    /\ slot' = [slot EXCEPT ![s] = "exiting"]
    /\ UNCHANGED <<row, post, plan, tries, fault>>

\* The body returns an error: only the last attempt drains.
Fail(s) ==
    /\ slot[s] = "running"
    /\ IF CanRetry(s)
       THEN slot' = [slot EXCEPT ![s] = "queued"] /\ Retry(s)
       ELSE slot' = [slot EXCEPT ![s] = "exiting"] /\ UNCHANGED tries
    /\ UNCHANGED <<row, post, plan, fault>>

Drain(s) ==
    /\ slot[s] = "exiting"
    /\ row' = Decrement(row)
    /\ slot' = [slot EXCEPT ![s] = "drained"]
    /\ UNCHANGED <<post, plan, tries, fault>>

\* The decrement failed: logged, swallowed, and the task is not retried.
DrainFails(s) ==
    /\ slot[s] = "exiting"
    /\ slot' = [slot EXCEPT ![s] = "lost"]
    /\ fault' = TRUE
    /\ UNCHANGED <<row, post, plan, tries>>

TryPromote(s) ==
    /\ slot[s] = "drained"
    /\ row' = Promote(row)
    /\ slot' = [slot EXCEPT ![s] = "settled"]
    /\ UNCHANGED <<post, plan, tries, fault>>

\* The decrement is committed and the promotion fails: also swallowed.
PromoteFails(s) ==
    /\ slot[s] = "drained"
    /\ slot' = [slot EXCEPT ![s] = "settled"]
    /\ fault' = TRUE
    /\ UNCHANGED <<row, post, plan, tries>>

\* The worker dies before the decrement: the queue delivers the task again, or
\* archives it without running it.
Crash(s) ==
    /\ slot[s] \in {"running", "exiting"}
    /\ IF CanRetry(s)
       THEN slot' = [slot EXCEPT ![s] = "queued"] /\ Retry(s) /\ UNCHANGED fault
       ELSE /\ slot' = [slot EXCEPT ![s] = "lost"]
            /\ fault' = TRUE
            /\ UNCHANGED tries
    /\ UNCHANGED <<row, post, plan>>

-----------------------------------------------------------------------------

\* A wiki operation waits in task_pending_ops, and the task that triggers its
\* batch names a knowledge base: the queue probe does not see it.
HiddenBacklog == {s \in Wiki : slot[s] = "queued"}

\* HousekeepingService.runSweep: the row has not moved and no span has been
\* written for longer than the threshold, and the probe finds no task.
Housekeeping ==
    /\ row.status \in InProgress
    /\ post = "done"
    /\ \A s \in Subtask \ HiddenBacklog : slot[s] \notin Live
    /\ row' = SweepStuck(row)
    /\ UNCHANGED <<post, plan, slot, tries, fault>>

\* The probe failed, which counts as finding nothing: a document whose tasks
\* all wait is taken for stuck.
HousekeepingBlind ==
    /\ row.status \in InProgress
    /\ post \in {"queued", "done"}
    /\ \A s \in Subtask : slot[s] \notin Live \ {"queued"}
    /\ row' = SweepStuck(row)
    /\ fault' = TRUE
    /\ UNCHANGED <<post, plan, slot, tries>>

PostStep ==
    \/ \E S \in SUBSET Subtask : PostPlan(S)
    \/ PostReadFails
    \/ PostComplete
    \/ PostSetFinalizing
    \/ PostWriteFails
    \/ \E s \in Subtask :
         \/ PostEnqueue(s)
         \/ PostEnqueueFails(s)
         \/ PostLosesWiki(s)
         \/ PostRelease(s)
         \/ PostReleasePromote(s)
    \/ PostReconcile
    \/ PostReleaseFails
    \/ PostFinish

SubtaskStep(s) ==
    \/ Start(s)
    \/ Succeed(s)
    \/ Fail(s)
    \/ Drain(s)
    \/ DrainFails(s)
    \/ TryPromote(s)
    \/ PromoteFails(s)

Next ==
    \/ PostStep
    \/ PostCrash
    \/ \E s \in Subtask : SubtaskStep(s) \/ Crash(s)
    \/ Housekeeping
    \/ HousekeepingBlind

Spec == Init /\ [][Next]_vars

(***************************************************************************)
(* A worker that holds a task goes on with it, a queued task is eventually *)
(* picked up (the queues are served by weight, none is starved), and the   *)
(* housekeeping cron keeps firing.  Nothing is assumed of crashes.         *)
(***************************************************************************)
Fairness ==
    /\ WF_vars(PostStep)
    /\ \A s \in Subtask : WF_vars(SubtaskStep(s))
    /\ WF_vars(Housekeeping)

FairSpec == Spec /\ Fairness

-----------------------------------------------------------------------------
(* What the fan-out must keep *)

(***************************************************************************)
(* While the row is finalizing, pending_subtasks_count is exactly the      *)
(* number of slots somebody still has to drain, whatever was enqueued,     *)
(* retried, lost or crashed (SetFinalizing, finalizeSubtaskDetached and    *)
(* the shortfall loop of KnowledgePostProcess.Handle agree on who owns a   *)
(* slot).                                                                  *)
(***************************************************************************)
CounterExact ==
    row.status = "finalizing" => row.count = Cardinality(Owed)

(***************************************************************************)
(* A document is completed only when every slot it was given has been      *)
(* drained: no summary, batch or wiki page is still on its way             *)
(* (FinalizeSubtask's guarded promotion).                                  *)
(***************************************************************************)
CompletedOnlyWhenDrained == row.status = "completed" => Owed = {}

(***************************************************************************)
(* A failing, retried or never enqueued subtask does not fail the          *)
(* document: it becomes failed only if a write or a whole task was lost,   *)
(* or the sweep found it with nothing but hidden wiki backlog              *)
(* (finalizeSubtaskDetached, runSweep).                                    *)
(***************************************************************************)
FailsForAReason ==
    [][row.status # "failed" /\ row'.status = "failed"
         => fault' \/ HiddenBacklog # {}]_vars

(***************************************************************************)
(* The document does not stay in progress for ever, whatever is lost on    *)
(* the way (subtask drains, the shortfall loop and, for the lost slots,    *)
(* HousekeepingService).                                                   *)
(***************************************************************************)
Settles == <>(row.status \in {"completed", "failed"})

(***************************************************************************)
(* Counter, queue and workers together implement the fan-in of a plain     *)
(* set of owed subtasks.                                                   *)
(***************************************************************************)
Fanned == INSTANCE SubtaskFanIn WITH
            phase <- IF row.status = "processing" THEN "parsing" ELSE row.status,
            owed  <- IF row.status = "finalizing" THEN Owed ELSE {}

Implements == Fanned!Spec
=============================================================================
