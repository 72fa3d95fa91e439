------------------------- MODULE KnowledgePipeline -------------------------
(***************************************************************************)
(* The life of one document: document:process, knowledge:post_process and  *)
(* the enrichment subtasks run as queued tasks while the user cancels,     *)
(* reparses or deletes the document and housekeeping sweeps stuck rows.    *)
(*                                                                         *)
(* Nothing but single SQL statements is atomic: between a checkpoint       *)
(* (isKnowledgeAborted) and the write it protects, and between the read of *)
(* a row and the full-row Save of that copy, everybody else runs.          *)
(*                                                                         *)
(* There are two parses, the one the upload asks for and the one a reparse *)
(* asks for, each with tasks of its own; a reparse leaves those of the     *)
(* upload in the queue.  A parse's tasks carry the number of its attempt,  *)
(* by which a later one supersedes them.                                   *)
(*                                                                         *)
(* Lost drains and redelivery after the drain are in EnrichmentFanOut.     *)
(* Not modelled: images, and a document:process that is delivered again    *)
(* although it has enqueued its post-process task.                         *)
(***************************************************************************)
EXTENDS KnowledgeRow, FiniteSets, FiniteSetsExt

CONSTANTS
    Subtask,        \* enrichment subtasks a parse with text spawns
    Summary,        \* those that Save the whole row (ProcessSummaryGeneration)
    MaxRetry,       \* asynq's retry budget of a task
    MaxFault,       \* bound: worker faults, clean-ups that fail or are skipped
    Ops,            \* the calls the user may make, each once
    MaxOps,         \* bound: how many of them in one behaviour
    QuietReparse    \* TRUE: the user reparses only when no handler runs

ASSUME PipelineAssumption ==
    /\ IsFiniteSet(Subtask) /\ Summary \subseteq Subtask
    /\ {"process", "post"} \cap Subtask = {}
    /\ MaxRetry \in Nat /\ MaxFault \in Nat
    /\ Ops \subseteq {"cancel", "reparse", "delete"}
    /\ MaxOps \in 0..Cardinality(Ops)
    /\ QuietReparse \in BOOLEAN

VARIABLES
    row,     \* the knowledges row
    doc,     \* does the file hold text, does the knowledge base embed chunks
    store,   \* what is persisted for the document outside its row
    attempt, \* the attempt number a parse's tasks carry (0: none opened)
    pc,      \* where each task of each parse is; "none": not in the queue
    snap,    \* the copy of the row a handler holds
    tries,   \* retries used
    op,      \* where each user call is
    opSnap,  \* the copy of the row a user call holds
    armed,   \* housekeeping has probed the row and is about to sweep it
    faults   \* history: faults so far

taskVars == <<pc, snap, tries>>
userVars == <<op, opSnap>>
vars == <<row, doc, store, attempt, taskVars, userVars, armed, faults>>

Parses == {"upload"} \cup (Ops \cap {"reparse"})
Task == {"process", "post"} \cup Subtask

Items == {"chunks", "index", "summary", "questions"}

TaskStates ==
    {"none", "queued",
     \* document:process
     "claimed", "marking", "opening", "parsing", "splitting", "writing", "chunked", "indexing",
     "indexed", "saving", "posting", "dropping", "deadletter",
     \* knowledge:post_process
     "listing", "planned", "spawning",
     \* a subtask ("planned": counted, not enqueued yet; "short": not enqueued)
     "short", "begun", "announcing", "lacking", "working", "storing", "exiting",
     "drained"}

OpStates == {"idle", "opening", "writing", "dequeue", "cleaning", "saving", "resetting",
             "enqueueing", "removing", "done"}

NoRow == [status |-> "pending", count |-> 0, deleted |-> FALSE]

TypeOK ==
    /\ row \in Rows
    /\ doc \in [text : BOOLEAN, embeds : BOOLEAN]
    /\ store \in SUBSET Items
    /\ attempt \in [Parses -> Nat]
    /\ pc \in [Parses -> [Task -> TaskStates]]
    /\ snap \in [Parses -> [Task -> Rows]]
    /\ tries \in [Parses -> [Task -> 0..MaxRetry]]
    /\ op \in [Ops -> OpStates]
    /\ opSnap \in [Ops -> Rows]
    /\ armed \in BOOLEAN
    /\ faults \in 0..MaxFault

\* The file has been uploaded: a pending row and, unless enqueueing failed, its
\* first task.  The calls the user does not make are done from the beginning.
Init ==
    /\ row = NoRow
    /\ doc \in [text : BOOLEAN, embeds : BOOLEAN]
    /\ store = {}
    /\ attempt = [p \in Parses |-> 0]
    /\ \E state \in {"queued", "none"} :
         pc = [p \in Parses |-> [t \in Task |->
                 IF p = "upload" /\ t = "process" THEN state ELSE "none"]]
    /\ snap = [p \in Parses |-> [t \in Task |-> NoRow]]
    /\ tries = [p \in Parses |-> [t \in Task |-> 0]]
    /\ \E calls \in kSubset(MaxOps, Ops) :
         op = [o \in Ops |-> IF o \in calls THEN "idle" ELSE "done"]
    /\ opSnap = [o \in Ops |-> NoRow]
    /\ armed = FALSE
    /\ faults = 0

-----------------------------------------------------------------------------
(* Moving a task *)

At(p, t, state) == pc[p][t] = state

Go(p, t, state) ==
    /\ pc' = [pc EXCEPT ![p][t] = state]
    /\ UNCHANGED <<snap, tries>>

\* The handler returns; its copy of the row goes out of scope.
Leave(p, t, state) ==
    /\ pc' = [pc EXCEPT ![p][t] = state]
    /\ snap' = [snap EXCEPT ![p][t] = NoRow]
    /\ UNCHANGED tries

End(p, t) ==
    /\ pc' = [pc EXCEPT ![p][t] = "none"]
    /\ snap' = [snap EXCEPT ![p][t] = NoRow]
    /\ tries' = [tries EXCEPT ![p][t] = 0]

\* The handler holds mem from here on.
Hold(p, t, state, mem) ==
    /\ pc' = [pc EXCEPT ![p][t] = state]
    /\ snap' = [snap EXCEPT ![p][t] = mem]
    /\ UNCHANGED tries

CanRetry(p, t) == tries[p][t] < MaxRetry

\* The queue takes the task back for its next attempt.
Requeue(p, t) ==
    /\ pc' = [pc EXCEPT ![p][t] = "queued"]
    /\ snap' = [snap EXCEPT ![p][t] = NoRow]
    /\ tries' = [tries EXCEPT ![p][t] = @ + 1]

WithStatus(mem, s) == [mem EXCEPT !.status = s]

LatestAttempt == Max({attempt[p] : p \in Parses})

\* OpenAttempt: its number and its root span, in one step here.
OpenAttempt(p) == attempt' = [attempt EXCEPT ![p] = LatestAttempt + 1]

\* What no task touches.
NotMine == UNCHANGED <<doc, attempt, userVars, armed, faults>>

\* The items are deleted.  An error is logged and the task goes on, with some
\* of them left.
Deletes(items) ==
    /\ \/ store' = store \ items /\ UNCHANGED faults
       \/ /\ faults < MaxFault /\ faults' = faults + 1
          /\ \E left \in SUBSET items : store' = store \ (items \ left)
    /\ UNCHANGED <<doc, attempt, userVars, armed>>

-----------------------------------------------------------------------------
(* Faulty variants. *)

\* The checkpoint after indexing treats a deleted document like a cancelled one.
AbortWithoutCleanup(p) ==
    /\ At(p, "process", "indexed")
    /\ IF Aborted(row) THEN End(p, "process") ELSE Go(p, "process", "saving")
    /\ UNCHANGED <<row, store>>
    /\ NotMine

\* Subtasks of older parses run on.
NeverSuperseded(p) == FALSE

-----------------------------------------------------------------------------
(* document:process: ProcessDocument and processChunks.  A checkpoint that     *)
(* cannot read the row takes it for deleted, so each may also end the task.    *)

\* The entry guards; the row read here is the copy the handler works on.
ProcessClaim(p) ==
    /\ At(p, "process", "queued")
    /\ IF Aborted(row) \/ row.status = "completed"
       THEN End(p, "process")
       ELSE Hold(p, "process", "claimed", WithStatus(row, "processing"))
    /\ UNCHANGED <<row, store>>
    /\ NotMine

\* The knowledge base is loaded, then the re-check before the row is marked.
ProcessRecheck(p) ==
    /\ At(p, "process", "claimed")
    /\ \/ ~Aborted(row) /\ Go(p, "process", "marking")
       \/ End(p, "process")
    /\ UNCHANGED <<row, store>>
    /\ NotMine

\* When this Save fails the task ends and reports success.
ProcessMark(p) ==
    /\ At(p, "process", "marking")
    /\ \/ /\ row' = SaveRow(row, snap[p]["process"])
          /\ Go(p, "process", IF p = "upload" THEN "opening" ELSE "parsing")
       \/ UNCHANGED row /\ End(p, "process")
    /\ UNCHANGED store
    /\ NotMine

\* The task of an upload carries no attempt number: every run opens a new one.
ProcessOpenAttempt(p) ==
    /\ At(p, "process", "opening")
    /\ OpenAttempt(p)
    /\ Go(p, "process", "parsing")
    /\ UNCHANGED <<row, doc, store, userVars, armed, faults>>

\* The document reader failed.  Only the last attempt writes the row, and the
\* dead-letter callback writes it once more.
ProcessFails(p) ==
    /\ At(p, "process", "parsing")
    /\ IF CanRetry(p, "process")
       THEN Requeue(p, "process") /\ UNCHANGED row
       ELSE /\ row' = SaveRow(row, WithStatus(snap[p]["process"], "failed"))
            /\ Leave(p, "process", "deadletter")
    /\ UNCHANGED store
    /\ NotMine

\* newDeadLetterKnowledgeFailer: a column write without any guard.
DeadLetter(p, t) ==
    /\ At(p, t, "deadletter")
    /\ row' = SetStatus(row, "failed")
    /\ End(p, t)
    /\ UNCHANGED store
    /\ NotMine

\* A failure nobody retries: no knowledge base, a file that cannot be parsed,
\* chunks or vectors that cannot be written.  The row is saved as failed, and
\* after a failed BatchIndex chunks and index are dropped.
ProcessGivesUp(p) ==
    /\ pc[p]["process"] \in {"claimed", "parsing", "writing", "indexing"}
    /\ row' = SaveRow(row, WithStatus(snap[p]["process"], "failed"))
    /\ Leave(p, "process",
             IF At(p, "process", "indexing") THEN "dropping" ELSE "none")
    /\ UNCHANGED store
    /\ NotMine

\* The storage quota is exhausted: the chunks just written stay behind, and the
\* checkpoint that follows is not reached.
ProcessOverQuota(p) ==
    /\ faults < MaxFault
    /\ At(p, "process", "chunked")
    /\ row' = SaveRow(row, WithStatus(snap[p]["process"], "failed"))
    /\ faults' = faults + 1
    /\ End(p, "process")
    /\ UNCHANGED <<doc, store, attempt, userVars, armed>>

ProcessDrop(p) ==
    /\ At(p, "process", "dropping")
    /\ Deletes(Items)
    /\ End(p, "process")
    /\ UNCHANGED row

\* Checkpoint, then the data of the previous parse is deleted.  The task also
\* ends here, and reports success, when the embedding model cannot be resolved.
ProcessClear(p) ==
    /\ At(p, "process", "parsing")
    /\ \/ ~Aborted(row) /\ Go(p, "process", "splitting") /\ Deletes(Items)
       \/ End(p, "process") /\ UNCHANGED store /\ NotMine
    /\ UNCHANGED row

\* Checkpoint before the chunks are written.
ProcessCheckWrite(p) ==
    /\ At(p, "process", "splitting")
    /\ \/ ~Aborted(row) /\ Go(p, "process", "writing")
       \/ End(p, "process")
    /\ UNCHANGED <<row, store>>
    /\ NotMine

\* CreateChunks.  Only a knowledge base that embeds has two checkpoints more.
ProcessWrite(p) ==
    /\ At(p, "process", "writing")
    /\ store' = IF doc.text THEN store \cup {"chunks"} ELSE store
    /\ Go(p, "process", IF doc.embeds THEN "chunked" ELSE "saving")
    /\ UNCHANGED row
    /\ NotMine

\* Checkpoint before indexing: a deleted document loses its chunks again, a
\* cancelled one keeps them.
ProcessCheckIndex(p) ==
    /\ At(p, "process", "chunked")
    /\ \/ ~Aborted(row) /\ Go(p, "process", "indexing") /\ UNCHANGED store /\ NotMine
       \/ Cancelled(row) /\ End(p, "process") /\ UNCHANGED store /\ NotMine
       \/ End(p, "process") /\ Deletes({"chunks"})
    /\ UNCHANGED row

ProcessIndex(p) ==
    /\ At(p, "process", "indexing")
    /\ store' = IF doc.text THEN store \cup {"index"} ELSE store
    /\ Go(p, "process", "indexed")
    /\ UNCHANGED row
    /\ NotMine

\* Checkpoint after indexing: a deleted document loses chunks and index.
ProcessCheckSave(p) ==
    /\ At(p, "process", "indexed")
    /\ \/ ~Aborted(row) /\ Go(p, "process", "saving") /\ UNCHANGED store /\ NotMine
       \/ Cancelled(row) /\ End(p, "process") /\ UNCHANGED store /\ NotMine
       \/ End(p, "process") /\ Deletes(Items)
    /\ UNCHANGED row

\* finalizeIndexedKnowledgeState and the Save of its result, whose failure is
\* logged and ignored.
ProcessSave(p) ==
    /\ At(p, "process", "saving")
    /\ \/ row' = SaveRow(row, WithStatus(snap[p]["process"],
                                IF doc.text THEN "processing" ELSE "completed"))
       \/ UNCHANGED row
    /\ Leave(p, "process", "posting")
    /\ UNCHANGED store
    /\ NotMine

\* Enqueue knowledge:post_process, which may fail; the task is over either way.
ProcessEnqueuePost(p) ==
    /\ At(p, "process", "posting")
    /\ \E state \in {"queued", "none"} :
         pc' = [pc EXCEPT ![p]["process"] = "none", ![p]["post"] = state]
    /\ tries' = [tries EXCEPT ![p]["process"] = 0]
    /\ UNCHANGED <<row, store, snap>>
    /\ NotMine

-----------------------------------------------------------------------------
(* knowledge:post_process *)

PostRead(p) ==
    /\ At(p, "post", "queued")
    /\ ~row.deleted
    /\ IF row.status # "processing"
       THEN End(p, "post") ELSE Go(p, "post", "listing")
    /\ UNCHANGED <<row, store>>
    /\ NotMine

\* A text-bearing document always gets a summary, so the plan is empty exactly
\* when no text chunk is listed; an empty plan completes the row at once and
\* without a guard.  Either write may fail, which ends the task.
PostDecide(p) ==
    /\ At(p, "post", "listing")
    /\ IF "chunks" \in store /\ Subtask # {}
       THEN Go(p, "post", "planned") /\ UNCHANGED row
       ELSE /\ \/ row' = SetStatus(row, "completed")
               \/ UNCHANGED row
            /\ End(p, "post")
    /\ UNCHANGED store
    /\ NotMine

\* A read failed; that of a deleted row always does.
PostFails(p) ==
    /\ pc[p]["post"] \in {"queued", "listing"}
    /\ IF CanRetry(p, "post") THEN Requeue(p, "post")
                              ELSE Go(p, "post", "deadletter")
    /\ UNCHANGED <<row, store>>
    /\ NotMine

PostSetFinalizing(p) ==
    /\ At(p, "post", "planned")
    /\ \/ /\ CanFinalize(row)
          /\ row' = SetFinalizing(row, Cardinality(Subtask))
          /\ pc' = [pc EXCEPT ![p] = [t \in Task |->
                      IF t \in Subtask THEN "planned"
                      ELSE IF t = "post" THEN "spawning" ELSE @[t]]]
          /\ UNCHANGED <<snap, tries>>
       \/ /\ row' = SetFinalizing(row, Cardinality(Subtask))
          /\ ~CanFinalize(row)
          /\ End(p, "post")
       \/ UNCHANGED row /\ End(p, "post")
    /\ UNCHANGED store
    /\ NotMine

PostEnqueue(p, s) ==
    /\ At(p, "post", "spawning")
    /\ At(p, s, "planned")
    /\ \E state \in {"queued", "short"} : Go(p, s, state)
    /\ UNCHANGED <<row, store>>
    /\ NotMine

Spawned(p) == \A s \in Subtask : ~At(p, s, "planned")

\* The shortfall loop: FinalizeSubtask for a slot without a task (the order of
\* the slots is not kept).
PostRelease(p, s) ==
    /\ At(p, "post", "spawning")
    /\ Spawned(p)
    /\ At(p, s, "short")
    /\ row' = Decrement(row)
    /\ Go(p, s, "drained")
    /\ UNCHANGED store
    /\ NotMine

PostFinish(p) ==
    /\ At(p, "post", "spawning")
    /\ \A s \in Subtask : ~At(p, s, "planned") /\ ~At(p, s, "short")
    /\ End(p, "post")
    /\ UNCHANGED <<row, store>>
    /\ NotMine

-----------------------------------------------------------------------------
(* Enrichment subtasks *)

attemptSuperseded(p) == attempt[p] > 0 /\ LatestAttempt > attempt[p]

\* A superseded subtask leaves before its drain is registered.
SubtaskStart(p, s) ==
    /\ At(p, s, "queued")
    /\ IF attemptSuperseded(p) THEN End(p, s) ELSE Go(p, s, "begun")
    /\ UNCHANGED <<row, store>>
    /\ NotMine

\* An aborted document is left alone, and one whose knowledge base or row cannot
\* be read, but the slot is drained.  A summary keeps the row it has read until
\* it returns.
SubtaskRead(p, s) ==
    /\ At(p, s, "begun")
    /\ \/ Go(p, s, "exiting")
       \/ ~Aborted(row) /\ s \in Summary /\ Hold(p, s, "announcing", row)
       \/ ~Aborted(row) /\ s \notin Summary /\ Go(p, s, "working")
    /\ UNCHANGED <<row, store>>
    /\ NotMine

\* The first Save of the copy, summary_status "processing", whose failure is
\* logged; then the chunks are listed.
SummaryAnnounce(p, s) ==
    /\ At(p, s, "announcing")
    /\ \/ row' = SaveRow(row, snap[p][s])
       \/ UNCHANGED row
    /\ Go(p, s, IF "chunks" \in store THEN "working" ELSE "lacking")
    /\ UNCHANGED store
    /\ NotMine

\* The model has answered: the second Save of the same copy.
SummarySave(p, s) ==
    /\ At(p, s, "working")
    /\ s \in Summary
    /\ row' = SaveRow(row, snap[p][s])
    /\ Leave(p, s, "storing")
    /\ UNCHANGED store
    /\ NotMine

\* No text chunk, or none that is usable: the copy is saved with a closing
\* summary_status and the task succeeds.
SummaryGivesUp(p, s) ==
    /\ pc[p][s] \in {"lacking", "working"}
    /\ s \in Summary
    /\ row' = SaveRow(row, snap[p][s])
    /\ Leave(p, s, "exiting")
    /\ UNCHANGED store
    /\ NotMine

\* The result is written without looking at the row again, and only if the
\* knowledge base embeds.
SubtaskStore(p, s) ==
    /\ At(p, s, IF s \in Summary THEN "storing" ELSE "working")
    /\ store' = IF ~doc.embeds THEN store
                ELSE store \cup {IF s \in Summary THEN "summary" ELSE "questions"}
    /\ Leave(p, s, "exiting")
    /\ UNCHANGED row
    /\ NotMine

SubtaskFails(p, s) ==
    /\ pc[p][s] \in {"working", "storing"}
    /\ IF CanRetry(p, s) THEN Requeue(p, s) ELSE Leave(p, s, "exiting")
    /\ UNCHANGED <<row, store>>
    /\ NotMine

Drain(p, s) ==
    /\ At(p, s, "exiting")
    /\ row' = Decrement(row)
    /\ Go(p, s, "drained")
    /\ UNCHANGED store
    /\ NotMine

TryPromote(p, s) ==
    /\ At(p, s, "drained")
    /\ row' = Promote(row)
    /\ End(p, s)
    /\ UNCHANGED store
    /\ NotMine

\* The worker dies: the task is delivered again, or archived without running.
\* A slot nobody holds yet dies with the Handle that was to enqueue it.
Crash(p, t) ==
    /\ faults < MaxFault
    /\ pc[p][t] \notin {"none", "queued", "short", "drained"}
    /\ t \in Subtask => ~At(p, t, "planned")
    /\ faults' = faults + 1
    /\ LET orphan == IF t = "post"
                     THEN {s \in Subtask : pc[p][s] \in {"planned", "short"}}
                     ELSE {}
       IN  /\ pc' = [pc EXCEPT ![p] = [u \in Task |->
                       CASE u = t /\ CanRetry(p, t) -> "queued"
                         [] u = t \/ u \in orphan   -> "none"
                         [] OTHER                   -> @[u]]]
           /\ tries' = [tries EXCEPT ![p][t] = IF CanRetry(p, t) THEN @ + 1 ELSE 0]
    /\ snap' = [snap EXCEPT ![p][t] = NoRow]
    /\ UNCHANGED <<row, doc, store, attempt, userVars, armed>>

-----------------------------------------------------------------------------
(* The user's calls *)

OpAt(o, state) == o \in Ops /\ op[o] = state

OpGo(o, state) == op' = [op EXCEPT ![o] = state] /\ UNCHANGED opSnap

OpHold(o, state, mem) ==
    /\ op' = [op EXCEPT ![o] = state]
    /\ opSnap' = [opSnap EXCEPT ![o] = mem]

OpEnd(o) == OpHold(o, "done", NoRow)

\* What no user call touches.
NotTheirs == UNCHANGED <<doc, snap, tries, armed, faults>>

\* CancelTasksForKnowledge: what waits in the queue is removed, or nothing when
\* there is no inspector or it fails.
Dequeue(o, state) ==
    /\ \/ /\ pc' = [p \in Parses |-> [t \in Task |->
                      IF At(p, t, "queued") THEN "none" ELSE pc[p][t]]]
          /\ tries' = [p \in Parses |-> [t \in Task |->
                         IF At(p, t, "queued") THEN 0 ELSE tries[p][t]]]
       \/ UNCHANGED <<pc, tries>>
    /\ OpGo(o, state)
    /\ UNCHANGED <<row, doc, store, attempt, snap, armed, faults>>

\* CancelKnowledgeParse.  Cancelling what is cancelled only dequeues again.
CancelRead ==
    /\ OpAt("cancel", "idle")
    /\ ~row.deleted
    /\ \/ row.status \in InProgress /\ OpGo("cancel", "writing")
       \/ row.status = "cancelled" /\ OpGo("cancel", "dequeue")
    /\ UNCHANGED <<row, store, attempt, pc>>
    /\ NotTheirs

CancelWrite ==
    /\ OpAt("cancel", "writing")
    /\ \/ row' = SetStatusResetCount(row, "cancelled") /\ OpGo("cancel", "dequeue")
       \/ UNCHANGED row /\ OpEnd("cancel")
    /\ UNCHANGED <<store, attempt, pc>>
    /\ NotTheirs

CancelDequeue == OpAt("cancel", "dequeue") /\ Dequeue("cancel", "done")

\* Nothing of the document is running or about to start.
Quiet ==
    /\ \A p \in Parses :
         /\ \A t \in {"process", "post"} : At(p, t, "none")
         /\ \A s \in Subtask : pc[p][s] \in {"none", "queued"}
    /\ ~armed

\* ReparseKnowledge: read the row, then open an attempt for the new task.
ReparseRead ==
    /\ OpAt("reparse", "idle")
    /\ ~row.deleted
    /\ QuietReparse => Quiet
    /\ OpHold("reparse", "opening", row)
    /\ UNCHANGED <<row, store, attempt, pc>>
    /\ NotTheirs

ReparseOpen ==
    /\ OpAt("reparse", "opening")
    /\ QuietReparse => Quiet
    /\ OpenAttempt("reparse")
    /\ OpGo("reparse", "cleaning")
    /\ UNCHANGED <<row, store, pc>>
    /\ NotTheirs

\* cleanupKnowledgeResources clears vectors, chunks and graph and goes on past an
\* error, which then ends the call with the attempt opened.
ReparseClean ==
    /\ OpAt("reparse", "cleaning")
    /\ \/ store' = {} /\ OpGo("reparse", "saving")
       \/ store' \in SUBSET store /\ OpEnd("reparse")
    /\ UNCHANGED <<row, attempt, pc>>
    /\ NotTheirs

ReparseSave ==
    /\ OpAt("reparse", "saving")
    /\ \/ /\ row' = SaveRow(row, WithStatus(opSnap["reparse"], "pending"))
          /\ OpHold("reparse", "resetting", NoRow)
       \/ UNCHANGED row /\ OpEnd("reparse")
    /\ UNCHANGED <<store, attempt, pc>>
    /\ NotTheirs

\* The counter needs a statement of its own: Save does not write it.
ReparseReset ==
    /\ OpAt("reparse", "resetting")
    /\ \/ row' = ResetCount(row) /\ OpGo("reparse", "enqueueing")
       \/ UNCHANGED row /\ OpEnd("reparse")
    /\ UNCHANGED <<store, attempt, pc>>
    /\ NotTheirs

\* An enqueue failure is logged, and the row stays pending.
ReparseEnqueue ==
    /\ OpAt("reparse", "enqueueing")
    /\ \E state \in {"queued", "none"} :
         pc' = [pc EXCEPT !["reparse"]["process"] = state]
    /\ OpEnd("reparse")
    /\ UNCHANGED <<row, store, attempt>>
    /\ NotTheirs

\* DeleteKnowledge.
DeleteRead ==
    /\ OpAt("delete", "idle")
    /\ ~row.deleted
    /\ OpHold("delete", "saving", row)
    /\ UNCHANGED <<row, store, attempt, pc>>
    /\ NotTheirs

\* The queue is purged only if the parse had not reached its fan-out when the
\* row was read.  A failing Save is logged and deleting goes on.
DeleteMark ==
    /\ OpAt("delete", "saving")
    /\ \/ row' = SaveRow(row, WithStatus(opSnap["delete"], "deleting"))
       \/ UNCHANGED row
    /\ OpHold("delete",
              IF opSnap["delete"].status \in {"pending", "processing"}
              THEN "dequeue" ELSE "cleaning", NoRow)
    /\ UNCHANGED <<store, attempt, pc>>
    /\ NotTheirs

DeleteDequeue == OpAt("delete", "dequeue") /\ Dequeue("delete", "cleaning")

\* Chunks, vectors and graph, concurrently; an error of one of them ends the
\* call with the row "deleting".
DeleteClean ==
    /\ OpAt("delete", "cleaning")
    /\ \/ store' = {} /\ OpGo("delete", "removing")
       \/ store' \in SUBSET store /\ OpEnd("delete")
    /\ UNCHANGED <<row, attempt, pc>>
    /\ NotTheirs

DeleteRemove ==
    /\ OpAt("delete", "removing")
    /\ row' = SoftDelete(row)
    /\ OpEnd("delete")
    /\ UNCHANGED <<store, attempt, pc>>
    /\ NotTheirs

-----------------------------------------------------------------------------
(* HousekeepingService.runSweep *)

InQueue == \E p \in Parses, t \in Task : ~At(p, t, "none")

\* The candidate query, the heartbeat and the queue probe: the row has been
\* still for longer than the threshold and nothing refers to it, so no call of
\* the user is half-way through either.
HousekeepingProbe ==
    /\ ~armed
    /\ ~row.deleted /\ row.status \in InProgress
    /\ ~InQueue
    /\ \A o \in Ops : op[o] \in {"idle", "done"}
    /\ armed' = TRUE
    /\ UNCHANGED <<row, doc, store, attempt, taskVars, userVars, faults>>

\* The UPDATE tests parse_status again, but not the age or the queue.
HousekeepingSweep ==
    /\ armed
    /\ armed' = FALSE
    /\ row' = SweepStuck(row)
    /\ UNCHANGED <<doc, store, attempt, taskVars, userVars, faults>>

-----------------------------------------------------------------------------

ProcessStep(p) ==
    \/ ProcessClaim(p) \/ ProcessRecheck(p) \/ ProcessMark(p) \/ ProcessOpenAttempt(p)
    \/ ProcessFails(p)
    \/ DeadLetter(p, "process") \/ ProcessGivesUp(p) \/ ProcessDrop(p)
    \/ ProcessOverQuota(p)
    \/ ProcessClear(p) \/ ProcessCheckWrite(p) \/ ProcessWrite(p)
    \/ ProcessCheckIndex(p) \/ ProcessIndex(p) \/ ProcessCheckSave(p)
    \/ ProcessSave(p) \/ ProcessEnqueuePost(p)

PostStep(p) ==
    \/ PostRead(p) \/ PostDecide(p) \/ PostFails(p) \/ DeadLetter(p, "post")
    \/ PostSetFinalizing(p) \/ PostFinish(p)
    \/ \E s \in Subtask : PostEnqueue(p, s) \/ PostRelease(p, s)

SubtaskStep(p, s) ==
    \/ SubtaskStart(p, s) \/ SubtaskRead(p, s) \/ SummaryAnnounce(p, s)
    \/ SummarySave(p, s) \/ SummaryGivesUp(p, s) \/ SubtaskStore(p, s)
    \/ SubtaskFails(p, s) \/ Drain(p, s) \/ TryPromote(p, s)

\* A call the user has begun.
CallStep ==
    \/ CancelWrite \/ CancelDequeue
    \/ ReparseOpen \/ ReparseClean \/ ReparseSave \/ ReparseReset \/ ReparseEnqueue
    \/ DeleteMark \/ DeleteDequeue \/ DeleteClean \/ DeleteRemove

Next ==
    \/ \E p \in Parses :
         \/ ProcessStep(p)
         \/ PostStep(p)
         \/ \E s \in Subtask : SubtaskStep(p, s)
         \/ \E t \in Task : Crash(p, t)
    \/ CancelRead \/ ReparseRead \/ DeleteRead
    \/ CallStep
    \/ HousekeepingProbe \/ HousekeepingSweep

Spec == Init /\ [][Next]_vars

(***************************************************************************)
(* Queued tasks are picked up and handlers go on, a call the user began is *)
(* carried through, and the housekeeping cron keeps firing.  Nothing is    *)
(* assumed of the user or of crashes.                                      *)
(***************************************************************************)
Fairness ==
    /\ \A p \in Parses :
         /\ WF_vars(ProcessStep(p))
         /\ WF_vars(PostStep(p))
         /\ \A s \in Subtask : WF_vars(SubtaskStep(p, s))
    /\ WF_vars(CallStep)
    /\ WF_vars(HousekeepingProbe)
    /\ WF_vars(HousekeepingSweep)

FairSpec == Spec /\ Fairness

-----------------------------------------------------------------------------
(* What the life of a document must keep *)

(***************************************************************************)
(* Workers save whole rows from copies minutes old; still, the counter     *)
(* rises only when a row is handed over to finalizing (SetFinalizing), so  *)
(* no drain is ever undone (omitFieldsOnUpdate).                           *)
(***************************************************************************)
CounterRisesOnlyAtHandover ==
    [][row'.count > row.count =>
         row.status = "processing" /\ row'.status = "finalizing"]_row

(***************************************************************************)
(* A deleted document is never brought back by the full-row Save of a      *)
(* handler that read the row before (UpdateKnowledge, DeleteKnowledge).    *)
(***************************************************************************)
DeletedForGood == [][row.deleted => row'.deleted]_row

\* The handlers that are past their last checkpoint and will write
\* parse_status without looking: a copy about to be saved, a failure about to
\* be recorded, an empty document about to be completed.
Unchecked ==
    \/ \E p \in Parses :
         \/ pc[p]["process"] \in {"claimed", "marking", "opening", "parsing", "writing",
                                  "chunked", "indexing", "saving", "deadletter"}
         \/ pc[p]["post"] \in {"listing", "deadletter"}
         \/ \E s \in Summary : pc[p][s] \in {"announcing", "lacking", "working"}
    \/ OpAt("reparse", "saving")
    \/ OpAt("delete", "saving")

(***************************************************************************)
(* Once the user has cancelled a parse, only a handler already past its    *)
(* last checkpoint, a reparse or a delete changes its status: the hand-    *)
(* over, a late promotion and the sweep do not (CancelKnowledgeParse,      *)
(* SetFinalizing, FinalizeSubtask, runSweep).                              *)
(***************************************************************************)
CancelSticks ==
    [][row.status = "cancelled" /\ row'.status # "cancelled" => Unchecked]_row

(***************************************************************************)
(* As long as nobody has overwritten the mark a delete made, none of the   *)
(* chunks and vectors document:process writes outlives the document,       *)
(* however delete and the task interleave: the checkpoints clean up after  *)
(* themselves (processChunks, DeleteKnowledge).  It needs a knowledge base *)
(* that embeds, a task that gets from writing to checking (no crash, and   *)
(* no exhausted quota), and a clean-up that succeeds: its failure is only  *)
(* logged, and nobody tries again.                                         *)
(***************************************************************************)
NoOrphans ==
    row.deleted /\ row.status = "deleting" /\ doc.embeds /\ faults = 0
      /\ (\A p \in Parses : pc[p]["process"] \in {"none", "queued"})
    => store \cap {"chunks", "index"} = {}

(***************************************************************************)
(* In the end a document is not in progress: it is completed, failed,      *)
(* cancelled, deleted, or waits for a delete to be repeated, whichever     *)
(* tasks were lost (runSweep).                                             *)
(***************************************************************************)
ComesToRest == <>[](row.deleted \/ row.status \notin InProgress)

\* The subtasks of the latest attempt that have not drained yet.
Outstanding ==
    {s \in Subtask : \E p \in Parses :
       attempt[p] = LatestAttempt /\ pc[p][s] \notin {"none", "drained"}}

(***************************************************************************)
(* A completed document has no subtask of its latest attempt outstanding:  *)
(* what older parses left in the queue does not drain the new counter      *)
(* (attemptSuperseded, FinalizeSubtask).                                   *)
(***************************************************************************)
CompletedOnlyWhenDrained == row.status = "completed" => Outstanding = {}

(***************************************************************************)
(* What attemptSuperseded says of stale subtasks: they do not promote the  *)
(* row to completed before the new attempt has finished.                   *)
(***************************************************************************)
NoStalePromotion ==
    [][\A p \in Parses, s \in Subtask :
         /\ attemptSuperseded(p)
         /\ At(p, s, "drained") /\ pc'[p][s] = "none"
         /\ row.status = "finalizing" /\ row'.status = "completed"
         => Outstanding = {}]_vars
=============================================================================
