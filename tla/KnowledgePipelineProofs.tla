---------------------- MODULE KnowledgePipelineProofs ----------------------
(***************************************************************************)
(* The theorems about KnowledgePipeline, for any subtasks, retries, faults *)
(* and calls of the user.                                                  *)
(*                                                                         *)
(* The action properties rest on one lemma: whatever a step does, it does  *)
(* to the row one of ten things (Written), and the two that put a status   *)
(* there without looking are done by handlers past their checkpoint only.  *)
(* NoOrphans is not inductive: it speaks of a moment when no task runs.    *)
(* HaveOwner says what holds on the way there - once the delete has        *)
(* cleared the store, whatever is in it has a task that will come to a     *)
(* checkpoint - and needs to know that the mark on the row is the one the  *)
(* delete has put there, and no copy of it.                                *)
(*                                                                         *)
(* CompletedOnlyWhenDrained, at the end, has an invariant of its own.      *)
(***************************************************************************)
EXTENDS KnowledgePipeline, FiniteSetTheorems, TLAPS

\* Only a summary announces itself.
SummaryOnly == \A p \in Parses, s \in Subtask \ Summary : ~At(p, s, "announcing")

\* No handler holds a copy of the mark a delete makes.
NoMarkedCopy == \A p \in Parses, t \in Task : snap[p][t].status # "deleting"

\* The mark on the row is the delete call's, which has cleared the store before
\* it removes the row.
MarkByDelete ==
    row.status = "deleting" =>
       "delete" \in Ops /\ op["delete"] \in {"dequeue", "cleaning", "removing", "done"}

DeletedAtTheEnd == row.deleted => "delete" \in Ops /\ op["delete"] = "done"

\* The task of a reparse does not run before it is enqueued.
ReparseWaits ==
    "reparse" \in Ops /\ op["reparse"] # "done" => At("reparse", "process", "none")

Cleared == row.deleted \/ OpAt("delete", "removing")

\* What is stored after that has a task on its way to a checkpoint.
HaveOwner ==
    Cleared /\ row.status = "deleting" /\ doc.embeds /\ faults = 0 =>
       /\ "chunks" \in store =>
             \E p \in Parses : pc[p]["process"] \in {"chunked", "indexing", "indexed"}
       /\ "index" \in store => \E p \in Parses : At(p, "process", "indexed")

IInv ==
    /\ TypeOK /\ SummaryOnly /\ NoMarkedCopy
    /\ MarkByDelete /\ DeletedAtTheEnd /\ ReparseWaits /\ HaveOwner

-----------------------------------------------------------------------------
(* Types *)

TasksOK ==
    /\ pc \in [Parses -> [Task -> TaskStates]]
    /\ snap \in [Parses -> [Task -> Rows]]
    /\ tries \in [Parses -> [Task -> 0..MaxRetry]]

OpsOK ==
    /\ op \in [Ops -> OpStates]
    /\ opSnap \in [Ops -> Rows]

LEMMA Members ==
    /\ "process" \in Task /\ "post" \in Task /\ Subtask \subseteq Task
    /\ "upload" \in Parses /\ NoRow \in Rows
    /\ Cardinality(Subtask) \in Nat
<1>1. "process" \in Task /\ "post" \in Task /\ Subtask \subseteq Task /\ "upload" \in Parses
  BY DEF Task, Parses
<1>2. NoRow \in Rows
  BY DEF NoRow, Rows, ParseStatuses
<1>3. Cardinality(Subtask) \in Nat
  BY PipelineAssumption, FS_CardinalityType
<1> QED
  BY <1>1, <1>2, <1>3

LEMMA MoveType ==
    ASSUME TasksOK, NEW p \in Parses, NEW t \in Task,
           NEW state \in TaskStates, NEW mem \in Rows, NEW n \in 0..MaxRetry,
           pc' = [pc EXCEPT ![p][t] = state],
           snap' = snap \/ snap' = [snap EXCEPT ![p][t] = mem],
           tries' = tries \/ tries' = [tries EXCEPT ![p][t] = n]
    PROVE  TasksOK'
<1>1. pc' \in [Parses -> [Task -> TaskStates]]
  BY DEF TasksOK
<1>2. snap' \in [Parses -> [Task -> Rows]]
  <2>1. CASE snap' = snap
    BY <2>1 DEF TasksOK
  <2>2. CASE snap' = [snap EXCEPT ![p][t] = mem]
    BY <2>2 DEF TasksOK
  <2> QED
    BY <2>1, <2>2
<1>3. tries' \in [Parses -> [Task -> 0..MaxRetry]]
  <2>1. CASE tries' = tries
    BY <2>1 DEF TasksOK
  <2>2. CASE tries' = [tries EXCEPT ![p][t] = n]
    BY <2>2 DEF TasksOK
  <2> QED
    BY <2>1, <2>2
<1> QED
  BY <1>1, <1>2, <1>3 DEF TasksOK

\* Moving a task keeps the types of all of them.
LEMMA HelpersType ==
    ASSUME TasksOK, NEW p \in Parses, NEW t \in Task
    PROVE  /\ \A state \in TaskStates : Go(p, t, state) => TasksOK'
           /\ \A state \in TaskStates : Leave(p, t, state) => TasksOK'
           /\ \A state \in TaskStates, mem \in Rows : Hold(p, t, state, mem) => TasksOK'
           /\ End(p, t) => TasksOK'
           /\ CanRetry(p, t) /\ Requeue(p, t) => TasksOK'
<1>1. ASSUME NEW state \in TaskStates, Go(p, t, state) PROVE TasksOK'
  <2>1. 0 \in 0..MaxRetry
    BY PipelineAssumption
  <2> QED
    BY <1>1, <2>1, Members, MoveType DEF Go
<1>2. ASSUME NEW state \in TaskStates, Leave(p, t, state) PROVE TasksOK'
  <2>1. 0 \in 0..MaxRetry
    BY PipelineAssumption
  <2> QED
    BY <1>2, <2>1, Members, MoveType DEF Leave
<1>3. ASSUME NEW state \in TaskStates, NEW mem \in Rows, Hold(p, t, state, mem) PROVE TasksOK'
  <2>1. 0 \in 0..MaxRetry
    BY PipelineAssumption
  <2> QED
    BY <1>3, <2>1, MoveType DEF Hold
<1>4. ASSUME End(p, t) PROVE TasksOK'
  <2>1. 0 \in 0..MaxRetry /\ "none" \in TaskStates
    BY PipelineAssumption DEF TaskStates
  <2> QED
    BY <1>4, <2>1, Members, MoveType DEF End
<1>5. ASSUME CanRetry(p, t), Requeue(p, t) PROVE TasksOK'
  <2>1. tries[p][t] + 1 \in 0..MaxRetry /\ "queued" \in TaskStates
    BY <1>5, PipelineAssumption DEF CanRetry, TasksOK, TaskStates
  <2>2. tries' = [tries EXCEPT ![p][t] = tries[p][t] + 1]
    BY <1>5 DEF Requeue
  <2> QED
    BY <1>5, <2>1, <2>2, Members, MoveType DEF Requeue
<1> QED
  BY <1>1, <1>2, <1>3, <1>4, <1>5

LEMMA StatesOfTasks ==
    /\ {"none", "queued", "claimed", "marking", "opening", "parsing", "splitting",
        "writing", "chunked", "indexing", "indexed", "saving", "posting", "dropping",
        "deadletter", "listing", "planned", "spawning", "short", "begun",
        "announcing", "lacking", "working", "storing", "exiting", "drained"}
       \subseteq TaskStates
    /\ {"idle", "opening", "writing", "dequeue", "cleaning", "saving", "resetting",
        "enqueueing", "removing", "done"} \subseteq OpStates
BY DEF TaskStates, OpStates

LEMMA WithStatusType ==
    ASSUME NEW mem \in Rows, NEW s \in ParseStatuses
    PROVE  /\ WithStatus(mem, s) \in Rows
           /\ WithStatus(mem, s).status = s
           /\ WithStatus(mem, s).count = mem.count
           /\ WithStatus(mem, s).deleted = mem.deleted
BY DEF WithStatus, Rows

LEMMA StatusNames ==
    {"pending", "processing", "finalizing", "completed", "failed", "deleting", "cancelled"}
      \subseteq ParseStatuses
BY DEF ParseStatuses

\* What each statement of the repository makes of a row.
LEMMA SaveRowIs ==
    ASSUME NEW r \in Rows, NEW mem \in Rows
    PROVE  /\ SaveRow(r, mem) \in Rows
           /\ SaveRow(r, mem).status = mem.status
           /\ SaveRow(r, mem).count = r.count
           /\ SaveRow(r, mem).deleted = r.deleted
BY DEF SaveRow, Rows

LEMMA SetStatusIs ==
    ASSUME NEW r \in Rows, NEW s \in ParseStatuses
    PROVE  /\ SetStatus(r, s) \in Rows
           /\ SetStatus(r, s).count = r.count
           /\ SetStatus(r, s).deleted = r.deleted
           /\ SetStatus(r, s).status \in {r.status, s}
BY DEF SetStatus, Rows

LEMMA ResetCountIs ==
    ASSUME NEW r \in Rows
    PROVE  /\ ResetCount(r) \in Rows
           /\ ResetCount(r).count \in {r.count, 0}
           /\ ResetCount(r).deleted = r.deleted
           /\ ResetCount(r).status = r.status
BY DEF ResetCount, Rows

LEMMA SetStatusResetCountIs ==
    ASSUME NEW r \in Rows, NEW s \in ParseStatuses
    PROVE  /\ SetStatusResetCount(r, s) \in Rows
           /\ SetStatusResetCount(r, s).count \in {r.count, 0}
           /\ SetStatusResetCount(r, s).deleted = r.deleted
           /\ SetStatusResetCount(r, s).status \in {r.status, s}
BY DEF SetStatusResetCount, Rows

LEMMA SetFinalizingIs ==
    ASSUME NEW r \in Rows, NEW n \in Nat
    PROVE  /\ SetFinalizing(r, n) \in Rows
           /\ SetFinalizing(r, n).deleted = r.deleted
           /\ CanFinalize(r) => /\ SetFinalizing(r, n).status = "finalizing"
                                /\ SetFinalizing(r, n).count = n
           /\ ~CanFinalize(r) => SetFinalizing(r, n) = r
BY StatusNames DEF SetFinalizing, Rows

LEMMA DecrementIs ==
    ASSUME NEW r \in Rows
    PROVE  /\ Decrement(r) \in Rows
           /\ Decrement(r).status = r.status
           /\ Decrement(r).deleted = r.deleted
           /\ Decrement(r).count <= r.count
           /\ Decrement(r).count >= r.count - 1
BY DEF Decrement, Rows

LEMMA PromoteIs ==
    ASSUME NEW r \in Rows
    PROVE  /\ Promote(r) \in Rows
           /\ Promote(r).count = r.count
           /\ Promote(r).deleted = r.deleted
           /\ Promote(r).status # r.status =>
                 r.status = "finalizing" /\ r.count = 0 /\ Promote(r).status = "completed"
BY StatusNames DEF Promote, Rows

LEMMA SweepStuckIs ==
    ASSUME NEW r \in Rows
    PROVE  /\ SweepStuck(r) \in Rows
           /\ SweepStuck(r).count \in {r.count, 0}
           /\ SweepStuck(r).deleted = r.deleted
           /\ SweepStuck(r).status # r.status =>
                 r.status \in InProgress /\ SweepStuck(r).status = "failed"
BY StatusNames DEF SweepStuck, Rows

LEMMA SoftDeleteIs ==
    ASSUME NEW r \in Rows
    PROVE  /\ SoftDelete(r) \in Rows
           /\ SoftDelete(r).count = r.count
           /\ SoftDelete(r).deleted = TRUE
           /\ SoftDelete(r).status = r.status
BY DEF SoftDelete, Rows

\* Every step of document:process moves its tasks within their states.
LEMMA ProcessMoves ==
    ASSUME TypeOK, NEW p \in Parses, ProcessStep(p)
    PROVE  TasksOK'
<1>1. TasksOK /\ row \in Rows /\ "process" \in Task /\ "post" \in Task
  BY Members DEF TypeOK, TasksOK
<1>2. ASSUME ProcessClaim(p) PROVE TasksOK'
  <2>1. WithStatus(row, "processing") \in Rows
    BY <1>1, WithStatusType, StatusNames
  <2> QED
    BY <1>1, <1>2, <2>1, HelpersType, StatesOfTasks DEF ProcessClaim
<1>3. ASSUME ProcessRecheck(p) \/ ProcessMark(p) \/ ProcessOpenAttempt(p) PROVE TasksOK'
  BY <1>1, <1>3, HelpersType, StatesOfTasks
  DEF ProcessRecheck, ProcessMark, ProcessOpenAttempt
<1>4. ASSUME ProcessFails(p) \/ DeadLetter(p, "process") PROVE TasksOK'
  BY <1>1, <1>4, HelpersType, StatesOfTasks DEF ProcessFails, DeadLetter
<1>5. ASSUME ProcessGivesUp(p) \/ ProcessDrop(p) \/ ProcessOverQuota(p) PROVE TasksOK'
  BY <1>1, <1>5, HelpersType, StatesOfTasks DEF ProcessGivesUp, ProcessDrop, ProcessOverQuota
<1>6. ASSUME ProcessClear(p) \/ ProcessCheckWrite(p) \/ ProcessWrite(p) PROVE TasksOK'
  BY <1>1, <1>6, HelpersType, StatesOfTasks
  DEF ProcessClear, ProcessCheckWrite, ProcessWrite
<1>7. ASSUME ProcessCheckIndex(p) \/ ProcessIndex(p) \/ ProcessCheckSave(p) \/ ProcessSave(p)
      PROVE  TasksOK'
  BY <1>1, <1>7, HelpersType, StatesOfTasks
  DEF ProcessCheckIndex, ProcessIndex, ProcessCheckSave, ProcessSave
<1>8. ASSUME ProcessEnqueuePost(p) PROVE TasksOK'
  <2>1. PICK state \in {"queued", "none"} :
          pc' = [pc EXCEPT ![p]["process"] = "none", ![p]["post"] = state]
    BY <1>8 DEF ProcessEnqueuePost
  <2>2. "none" \in TaskStates /\ state \in TaskStates
    BY StatesOfTasks
  <2>3. pc' \in [Parses -> [Task -> TaskStates]]
    BY <1>1, <2>1, <2>2 DEF TasksOK
  <2>4. tries' \in [Parses -> [Task -> 0..MaxRetry]] /\ snap' = snap
    BY <1>1, <1>8, PipelineAssumption DEF ProcessEnqueuePost, TasksOK
  <2> QED
    BY <1>1, <2>3, <2>4 DEF TasksOK
<1> QED
  BY <1>2, <1>3, <1>4, <1>5, <1>6, <1>7, <1>8 DEF ProcessStep

LEMMA PostMoves ==
    ASSUME TypeOK, NEW p \in Parses, PostStep(p)
    PROVE  TasksOK'
<1>1. TasksOK /\ row \in Rows /\ "post" \in Task /\ Subtask \subseteq Task
  BY Members DEF TypeOK, TasksOK
<1>2. ASSUME PostRead(p) \/ PostDecide(p) \/ PostFails(p) \/ DeadLetter(p, "post") \/ PostFinish(p)
      PROVE  TasksOK'
  BY <1>1, <1>2, HelpersType, StatesOfTasks
  DEF PostRead, PostDecide, PostFails, DeadLetter, PostFinish
<1>3. ASSUME PostSetFinalizing(p) PROVE TasksOK'
  <2>1. CASE End(p, "post")
    BY <1>1, <2>1, HelpersType
  <2>2. CASE /\ pc' = [pc EXCEPT ![p] = [t \in Task |->
                         IF t \in Subtask THEN "planned"
                         ELSE IF t = "post" THEN "spawning" ELSE @[t]]]
             /\ UNCHANGED <<snap, tries>>
    <3>1. "planned" \in TaskStates /\ "spawning" \in TaskStates
      BY StatesOfTasks
    <3>2. [t \in Task |-> IF t \in Subtask THEN "planned"
                          ELSE IF t = "post" THEN "spawning" ELSE pc[p][t]]
            \in [Task -> TaskStates]
      BY <1>1, <3>1 DEF TasksOK
    <3>3. pc' \in [Parses -> [Task -> TaskStates]]
      BY <1>1, <2>2, <3>2 DEF TasksOK
    <3> QED
      BY <1>1, <2>2, <3>3 DEF TasksOK
  <2> QED
    BY <1>3, <2>1, <2>2 DEF PostSetFinalizing
<1>4. ASSUME NEW s \in Subtask, PostEnqueue(p, s) \/ PostRelease(p, s) PROVE TasksOK'
  BY <1>1, <1>4, HelpersType, StatesOfTasks DEF PostEnqueue, PostRelease
<1> QED
  BY <1>2, <1>3, <1>4 DEF PostStep

LEMMA SubtaskMoves ==
    ASSUME TypeOK, NEW p \in Parses, NEW s \in Subtask, SubtaskStep(p, s)
    PROVE  TasksOK'
<1>1. TasksOK /\ row \in Rows /\ s \in Task
  BY Members DEF TypeOK, TasksOK
<1>2. ASSUME SubtaskStart(p, s) \/ SubtaskRead(p, s) \/ SummaryAnnounce(p, s) PROVE TasksOK'
  BY <1>1, <1>2, HelpersType, StatesOfTasks DEF SubtaskStart, SubtaskRead, SummaryAnnounce
<1>3. ASSUME SummarySave(p, s) \/ SummaryGivesUp(p, s) \/ SubtaskStore(p, s) PROVE TasksOK'
  BY <1>1, <1>3, HelpersType, StatesOfTasks DEF SummarySave, SummaryGivesUp, SubtaskStore
<1>4. ASSUME SubtaskFails(p, s) \/ Drain(p, s) \/ TryPromote(p, s) PROVE TasksOK'
  BY <1>1, <1>4, HelpersType, StatesOfTasks DEF SubtaskFails, Drain, TryPromote
<1> QED
  BY <1>2, <1>3, <1>4 DEF SubtaskStep

LEMMA CrashMoves ==
    ASSUME TypeOK, NEW p \in Parses, NEW t \in Task, Crash(p, t)
    PROVE  TasksOK'
<1> USE DEF TasksOK
<1>1. TasksOK
  BY DEF TypeOK
<1>2. PICK gone \in SUBSET Subtask :
        pc' = [pc EXCEPT ![p] = [u \in Task |->
                 CASE u = t /\ CanRetry(p, t) -> "queued"
                   [] u = t \/ u \in gone     -> "none"
                   [] OTHER                   -> pc[p][u]]]
  <2> DEFINE orphan == IF t = "post" THEN {s \in Subtask : pc[p][s] \in {"planned", "short"}}
                                     ELSE {}
  <2>1. orphan \in SUBSET Subtask
    OBVIOUS
  <2> QED
    BY <2>1 DEF Crash
<1>3. "queued" \in TaskStates /\ "none" \in TaskStates
  BY StatesOfTasks
<1>4. \A u \in Task : (CASE u = t /\ CanRetry(p, t) -> "queued"
                         [] u = t \/ u \in gone     -> "none"
                         [] OTHER                   -> pc[p][u]) \in TaskStates
  BY <1>1, <1>3
<1>5. pc' \in [Parses -> [Task -> TaskStates]]
  BY <1>1, <1>2, <1>4
<1>6. snap' \in [Parses -> [Task -> Rows]]
  BY <1>1, Members DEF Crash
<1>7. tries' \in [Parses -> [Task -> 0..MaxRetry]]
  <2>1. (IF CanRetry(p, t) THEN tries[p][t] + 1 ELSE 0) \in 0..MaxRetry
    BY <1>1, PipelineAssumption DEF CanRetry
  <2>2. tries' = [tries EXCEPT ![p][t] = IF CanRetry(p, t) THEN tries[p][t] + 1 ELSE 0]
    BY DEF Crash
  <2> QED
    BY <1>1, <2>1, <2>2
<1> QED
  BY <1>5, <1>6, <1>7

\* The user's calls: their own states, and the tasks they take from the queue.
LEMMA CallMoves ==
    ASSUME TypeOK
    PROVE  /\ \A o \in Ops, state \in OpStates : OpGo(o, state) => OpsOK'
           /\ \A o \in Ops, state \in OpStates, mem \in Rows : OpHold(o, state, mem) => OpsOK'
           /\ \A o \in Ops : OpEnd(o) => OpsOK'
           /\ \A o \in Ops, state \in OpStates : Dequeue(o, state) => OpsOK' /\ TasksOK'
<1>1. OpsOK
  BY DEF TypeOK, OpsOK
<1>2. ASSUME NEW o \in Ops, NEW state \in OpStates, OpGo(o, state) PROVE OpsOK'
  BY <1>1, <1>2 DEF OpGo, OpsOK
<1>3. ASSUME NEW o \in Ops, NEW state \in OpStates, NEW mem \in Rows, OpHold(o, state, mem)
      PROVE  OpsOK'
  BY <1>1, <1>3 DEF OpHold, OpsOK
<1>4. ASSUME NEW o \in Ops, OpEnd(o) PROVE OpsOK'
  BY <1>3, <1>4, Members, StatesOfTasks DEF OpEnd
<1>5. ASSUME NEW o \in Ops, NEW state \in OpStates, Dequeue(o, state) PROVE TasksOK'
  <2>1. "none" \in TaskStates /\ 0 \in 0..MaxRetry
    BY StatesOfTasks, PipelineAssumption
  <2>2. CASE UNCHANGED <<pc, tries>>
    BY <1>5, <2>2 DEF Dequeue, TypeOK, TasksOK
  <2>3. CASE /\ pc' = [p \in Parses |-> [t \in Task |->
                         IF At(p, t, "queued") THEN "none" ELSE pc[p][t]]]
             /\ tries' = [p \in Parses |-> [t \in Task |->
                            IF At(p, t, "queued") THEN 0 ELSE tries[p][t]]]
    BY <1>5, <2>1, <2>3 DEF Dequeue, TypeOK, TasksOK
  <2> QED
    BY <1>5, <2>2, <2>3 DEF Dequeue
<1> QED
  BY <1>2, <1>3, <1>4, <1>5 DEF Dequeue

-----------------------------------------------------------------------------
(* What a step may do to the row *)

\* A statement a step executes, and when it may do so without a look at the row.
Written(r) ==
    \/ r = row
    \/ /\ Unchecked
       /\ \E mem \in Rows : /\ r = SaveRow(row, mem)
                            /\ mem.status = "deleting" => DeleteMark
    \/ Unchecked /\ \E s \in {"failed", "completed"} : r = SetStatus(row, s)
    \/ r \in {SetStatusResetCount(row, "cancelled"), ResetCount(row),
              SetFinalizing(row, Cardinality(Subtask)), Decrement(row), Promote(row),
              SweepStuck(row)}
    \/ r = SoftDelete(row) /\ DeleteRemove

\* What the statements have in common: the counter rises only at the hand-over,
\* a deleted row stays deleted, and a cancelled one is left alone but unchecked.
LEMMA WrittenIs ==
    ASSUME TypeOK, NEW r, Written(r)
    PROVE  /\ r \in Rows
           /\ r.count > row.count => row.status = "processing" /\ r.status = "finalizing"
           /\ row.deleted => r.deleted
           /\ row.status = "cancelled" /\ r.status # "cancelled" => Unchecked
           /\ r.status = "deleting" => row.status = "deleting" \/ DeleteMark
           /\ r.deleted => row.deleted \/ DeleteRemove
<1>1. row \in Rows /\ row.count \in Nat /\ Cardinality(Subtask) \in Nat
  BY Members DEF TypeOK, Rows
<1>2. CASE r = row
  BY <1>1, <1>2
<1>3. CASE Unchecked /\ \E mem \in Rows : /\ r = SaveRow(row, mem)
                                          /\ mem.status = "deleting" => DeleteMark
  <2>1. PICK mem \in Rows : r = SaveRow(row, mem) /\ (mem.status = "deleting" => DeleteMark)
    BY <1>3
  <2>2. /\ r \in Rows /\ r.count = row.count /\ r.deleted = row.deleted
        /\ r.status = mem.status
    BY <1>1, <2>1, SaveRowIs
  <2> QED
    BY <1>1, <1>3, <2>1, <2>2
<1>4. CASE Unchecked /\ \E s \in {"failed", "completed"} : r = SetStatus(row, s)
  <2>1. PICK s \in {"failed", "completed"} : r = SetStatus(row, s)
    BY <1>4
  <2>2. s \in ParseStatuses
    BY StatusNames
  <2>3. /\ r \in Rows /\ r.count = row.count /\ r.deleted = row.deleted
        /\ r.status \in {row.status, s}
    BY <1>1, <2>1, <2>2, SetStatusIs
  <2> QED
    BY <1>1, <1>4, <2>3
<1>5. CASE r = SetStatusResetCount(row, "cancelled")
  <2>1. "cancelled" \in ParseStatuses
    BY StatusNames
  <2>2. /\ r \in Rows /\ r.count \in {row.count, 0} /\ r.deleted = row.deleted
        /\ r.status \in {row.status, "cancelled"}
    BY <1>1, <1>5, <2>1, SetStatusResetCountIs
  <2> QED
    BY <1>1, <2>2
<1>6. CASE r = ResetCount(row)
  BY <1>1, <1>6, ResetCountIs
<1>7. CASE r = SetFinalizing(row, Cardinality(Subtask))
  BY <1>1, <1>7, SetFinalizingIs, SMTT(30) DEF CanFinalize
<1>8. CASE r = Decrement(row)
  <2>1. r \in Rows /\ r.status = row.status /\ r.deleted = row.deleted /\ r.count <= row.count
    BY <1>1, <1>8, DecrementIs
  <2> QED
    BY <1>1, <2>1 DEF Rows
<1>9. CASE r = Promote(row)
  BY <1>1, <1>9, PromoteIs
<1>10. CASE r = SweepStuck(row)
  BY <1>1, <1>10, SweepStuckIs DEF InProgress
<1>11. CASE r = SoftDelete(row) /\ DeleteRemove
  <2>1. r \in Rows /\ r.count = row.count /\ r.deleted /\ r.status = row.status
    BY <1>1, <1>11, SoftDeleteIs
  <2> QED
    BY <1>1, <1>11, <2>1
<1> QED
  BY <1>2, <1>3, <1>4, <1>5, <1>6, <1>7, <1>8, <1>9, <1>10, <1>11 DEF Written

LEMMA ProcessWrites ==
    ASSUME TypeOK, NoMarkedCopy, NEW p \in Parses, ProcessStep(p)
    PROVE  Written(row')
<1>1. /\ "process" \in Task /\ snap[p]["process"] \in Rows
      /\ snap[p]["process"].status # "deleting"
  BY Members DEF TypeOK, NoMarkedCopy
<1>2. \A s \in {"failed", "processing", "completed"} :
        /\ WithStatus(snap[p]["process"], s) \in Rows
        /\ WithStatus(snap[p]["process"], s).status # "deleting"
  BY <1>1, WithStatusType, StatusNames
<1>3. CASE UNCHANGED row
  BY <1>3 DEF Written
<1>4. CASE ProcessMark(p)
  BY <1>1, <1>4 DEF ProcessMark, At, Unchecked, Written
<1>5. CASE ProcessFails(p)
  BY <1>2, <1>5 DEF ProcessFails, At, Unchecked, Written
<1>6. CASE DeadLetter(p, "process")
  BY <1>6 DEF DeadLetter, At, Unchecked, Written
<1>7. CASE ProcessGivesUp(p)
  BY <1>2, <1>7 DEF ProcessGivesUp, At, Unchecked, Written
<1>8. CASE ProcessOverQuota(p)
  BY <1>2, <1>8 DEF ProcessOverQuota, At, Unchecked, Written
<1>9. CASE ProcessSave(p)
  BY <1>2, <1>9 DEF ProcessSave, At, Unchecked, Written
<1> QED
  BY <1>3, <1>4, <1>5, <1>6, <1>7, <1>8, <1>9
  DEF ProcessStep, ProcessClaim, ProcessRecheck, ProcessOpenAttempt, ProcessDrop, ProcessClear,
      ProcessCheckWrite, ProcessWrite, ProcessCheckIndex, ProcessIndex, ProcessCheckSave,
      ProcessEnqueuePost

LEMMA PostWrites ==
    ASSUME NEW p \in Parses, PostStep(p)
    PROVE  Written(row')
<1>1. CASE UNCHANGED row
  BY <1>1 DEF Written
<1>2. CASE PostDecide(p)
  BY <1>2 DEF PostDecide, At, Unchecked, Written
<1>3. CASE DeadLetter(p, "post")
  BY <1>3 DEF DeadLetter, At, Unchecked, Written
<1>4. CASE PostSetFinalizing(p)
  BY <1>4 DEF PostSetFinalizing, Written
<1>5. CASE \E s \in Subtask : PostRelease(p, s)
  BY <1>5 DEF PostRelease, Written
<1> QED
  BY <1>1, <1>2, <1>3, <1>4, <1>5
  DEF PostStep, PostRead, PostFails, PostFinish, PostEnqueue

LEMMA SubtaskWrites ==
    ASSUME TypeOK, NoMarkedCopy, SummaryOnly, NEW p \in Parses, NEW s \in Subtask, SubtaskStep(p, s)
    PROVE  Written(row')
<1>1. snap[p][s] \in Rows /\ snap[p][s].status # "deleting"
  BY Members DEF TypeOK, NoMarkedCopy
<1>2. CASE UNCHANGED row
  BY <1>2 DEF Written
<1>3. CASE SummaryAnnounce(p, s)
  <2>1. s \in Summary
    BY <1>3 DEF SummaryAnnounce, SummaryOnly
  <2> QED
    BY <1>1, <1>3, <2>1 DEF SummaryAnnounce, At, Unchecked, Written
<1>4. CASE SummarySave(p, s) \/ SummaryGivesUp(p, s)
  BY <1>1, <1>4 DEF SummarySave, SummaryGivesUp, At, Unchecked, Written
<1>5. CASE Drain(p, s) \/ TryPromote(p, s)
  BY <1>5 DEF Drain, TryPromote, Written
<1> QED
  BY <1>2, <1>3, <1>4, <1>5 DEF SubtaskStep, SubtaskStart, SubtaskRead, SubtaskStore, SubtaskFails

LEMMA RowStep ==
    ASSUME TypeOK, NoMarkedCopy, SummaryOnly, [Next]_vars
    PROVE  Written(row')
<1>1. CASE UNCHANGED row
  BY <1>1 DEF Written
<1>2. ASSUME NEW o \in Ops
      PROVE  \A s \in ParseStatuses : /\ WithStatus(opSnap[o], s) \in Rows
                                       /\ WithStatus(opSnap[o], s).status = s
  BY <1>2, WithStatusType DEF TypeOK
<1>3. CASE CancelWrite
  BY <1>3 DEF CancelWrite, Written
<1>4. CASE ReparseSave
  BY <1>2, <1>4, StatusNames DEF ReparseSave, OpAt, Unchecked, Written
<1>5. CASE ReparseReset
  BY <1>5 DEF ReparseReset, Written
<1>6. CASE DeleteMark
  BY <1>2, <1>6, StatusNames DEF DeleteMark, OpAt, Unchecked, Written
<1>7. CASE DeleteRemove
  BY <1>7 DEF DeleteRemove, Written
<1>8. CASE HousekeepingSweep
  BY <1>8 DEF HousekeepingSweep, Written
<1>9. CASE CallStep
  BY <1>1, <1>3, <1>4, <1>5, <1>6, <1>7, <1>9
  DEF CallStep, CancelDequeue, ReparseOpen, ReparseClean, ReparseEnqueue,
      DeleteDequeue, DeleteClean, Dequeue
<1>10. CASE CancelRead \/ ReparseRead \/ DeleteRead \/ HousekeepingProbe \/ UNCHANGED vars
  BY <1>1, <1>10 DEF CancelRead, ReparseRead, DeleteRead, HousekeepingProbe, vars
<1>11. CASE \E p \in Parses, t \in Task : Crash(p, t)
  BY <1>1, <1>11 DEF Crash
<1> QED
  BY <1>8, <1>9, <1>10, <1>11, ProcessWrites, PostWrites, SubtaskWrites DEF Next

-----------------------------------------------------------------------------
(* Types, and where tasks are *)

\* Task t of parse p is at state now, and every other task where it was.
Moved(p, t, state) ==
    \A q \in Parses, u \in Task :
        pc'[q][u] = IF q = p /\ u = t THEN state ELSE pc[q][u]

LEMMA HelpersMove ==
    ASSUME TasksOK, NEW p \in Parses, NEW t \in Task
    PROVE  /\ \A state : Go(p, t, state) => Moved(p, t, state)
           /\ \A state : Leave(p, t, state) => Moved(p, t, state)
           /\ \A state, mem : Hold(p, t, state, mem) => Moved(p, t, state)
           /\ End(p, t) => Moved(p, t, "none")
           /\ Requeue(p, t) => Moved(p, t, "queued")
<1>1. ASSUME NEW state, pc' = [pc EXCEPT ![p][t] = state] PROVE Moved(p, t, state)
  BY <1>1 DEF TasksOK, Moved
<1> QED
  BY <1>1 DEF Go, Leave, Hold, End, Requeue

LEMMA SummaryOnlyStep ==
    ASSUME TypeOK, SummaryOnly, [Next]_vars
    PROVE  SummaryOnly'
<1>1. TasksOK /\ "process" \in Task /\ "post" \in Task /\ Subtask \subseteq Task
      /\ "process" \notin Subtask /\ "post" \notin Subtask
  BY Members, PipelineAssumption DEF TypeOK, TasksOK
<1> SUFFICES ASSUME NEW q \in Parses, NEW v \in Subtask \ Summary
             PROVE  pc[q][v] # "announcing" => pc'[q][v] # "announcing"
  BY DEF SummaryOnly, At
<1>2. CASE UNCHANGED pc
  BY <1>2
<1>3. ASSUME NEW p \in Parses, NEW t \in Task, NEW state,
             state # "announcing" \/ t \in Summary, Moved(p, t, state)
      PROVE  pc[q][v] # "announcing" => pc'[q][v] # "announcing"
  BY <1>1, <1>3 DEF Moved
<1>4. ASSUME NEW p \in Parses, NEW t \in Task,
             End(p, t) \/ Requeue(p, t)
      PROVE  pc[q][v] # "announcing" => pc'[q][v] # "announcing"
  BY <1>1, <1>3, <1>4, HelpersMove
<1>5. ASSUME NEW p \in Parses, NEW t \in Task, NEW state,
             state # "announcing" \/ t \in Summary,
             Go(p, t, state) \/ Leave(p, t, state)
      PROVE  pc[q][v] # "announcing" => pc'[q][v] # "announcing"
  BY <1>1, <1>3, <1>5, HelpersMove
<1>6. ASSUME NEW p \in Parses, ProcessStep(p)
      PROVE  pc[q][v] # "announcing" => pc'[q][v] # "announcing"
  <2>1. CASE ProcessEnqueuePost(p)
    BY <1>1, <2>1 DEF ProcessEnqueuePost, TasksOK
  <2>4. CASE ProcessClaim(p)
    <3>1. CASE End(p, "process")
      BY <1>1, <1>4, <3>1
    <3>2. CASE Hold(p, "process", "claimed", WithStatus(row, "processing"))
      BY <1>1, <1>3, <3>2, HelpersMove
    <3> QED
      BY <2>4, <3>1, <3>2 DEF ProcessClaim
  <2>2. CASE ProcessRecheck(p) \/ ProcessMark(p) \/ ProcessOpenAttempt(p)
             \/ ProcessFails(p) \/ DeadLetter(p, "process") \/ ProcessGivesUp(p) \/ ProcessDrop(p)
    BY <1>1, <1>4, <1>5, <2>2
    DEF ProcessRecheck, ProcessMark, ProcessOpenAttempt, ProcessFails,
        DeadLetter, ProcessGivesUp, ProcessDrop
  <2>3. CASE ProcessOverQuota(p) \/ ProcessClear(p) \/ ProcessCheckWrite(p) \/ ProcessWrite(p)
             \/ ProcessCheckIndex(p) \/ ProcessIndex(p) \/ ProcessCheckSave(p) \/ ProcessSave(p)
    BY <1>1, <1>4, <1>5, <2>3
    DEF ProcessOverQuota, ProcessClear, ProcessCheckWrite, ProcessWrite, ProcessCheckIndex,
        ProcessIndex, ProcessCheckSave, ProcessSave
  <2> QED
    BY <1>6, <2>1, <2>2, <2>3, <2>4 DEF ProcessStep
<1>7. ASSUME NEW p \in Parses, PostStep(p)
      PROVE  pc[q][v] # "announcing" => pc'[q][v] # "announcing"
  <2>1. CASE PostSetFinalizing(p)
    BY <1>1, <1>4, <2>1 DEF PostSetFinalizing, TasksOK
  <2>2. CASE PostRead(p) \/ PostDecide(p) \/ PostFails(p) \/ DeadLetter(p, "post") \/ PostFinish(p)
    BY <1>1, <1>4, <1>5, <2>2 DEF PostRead, PostDecide, PostFails, DeadLetter, PostFinish
  <2>3. ASSUME NEW s \in Subtask, PostEnqueue(p, s) \/ PostRelease(p, s)
        PROVE  pc[q][v] # "announcing" => pc'[q][v] # "announcing"
    BY <1>1, <1>5, <2>3 DEF PostEnqueue, PostRelease
  <2> QED
    BY <1>7, <2>1, <2>2, <2>3 DEF PostStep
<1>8. ASSUME NEW p \in Parses, NEW s \in Subtask, SubtaskStep(p, s)
      PROVE  pc[q][v] # "announcing" => pc'[q][v] # "announcing"
  <2>1. CASE SubtaskRead(p, s)
    <3>1. CASE s \in Summary /\ Hold(p, s, "announcing", row)
      BY <1>1, <1>3, <3>1, HelpersMove
    <3>2. CASE Go(p, s, "exiting") \/ Go(p, s, "working")
      BY <1>1, <1>5, <3>2
    <3> QED
      BY <2>1, <3>1, <3>2 DEF SubtaskRead
  <2>2. CASE SubtaskStart(p, s) \/ SummaryAnnounce(p, s) \/ SummarySave(p, s)
             \/ SummaryGivesUp(p, s)
    BY <1>1, <1>4, <1>5, <2>2
    DEF SubtaskStart, SummaryAnnounce, SummarySave, SummaryGivesUp
  <2>3. CASE SubtaskStore(p, s) \/ SubtaskFails(p, s) \/ Drain(p, s) \/ TryPromote(p, s)
    BY <1>1, <1>4, <1>5, <2>3 DEF SubtaskStore, SubtaskFails, Drain, TryPromote
  <2> QED
    BY <1>8, <2>1, <2>2, <2>3 DEF SubtaskStep
<1>9. ASSUME NEW p \in Parses, NEW t \in Task, Crash(p, t)
      PROVE  pc[q][v] # "announcing" => pc'[q][v] # "announcing"
  <2>1. pc'[q][v] \in {"queued", "none", pc[q][v]}
    BY <1>1, <1>9 DEF Crash, TasksOK
  <2> QED
    BY <2>1
<1>10. CASE CallStep
  <2>1. CASE CancelDequeue \/ DeleteDequeue
    BY <1>1, <2>1 DEF CancelDequeue, DeleteDequeue, Dequeue
  <2>2. CASE ReparseEnqueue
    <3>1. PICK state \in {"queued", "none"} :
            pc' = [pc EXCEPT !["reparse"]["process"] = state]
      BY <2>2 DEF ReparseEnqueue
    <3> QED
      BY <1>1, <3>1 DEF TasksOK
  <2> QED
    BY <1>2, <1>10, <2>1, <2>2
    DEF CallStep, CancelWrite, ReparseOpen, ReparseClean, ReparseSave, ReparseReset,
        DeleteMark, DeleteClean, DeleteRemove
<1> QED
  BY <1>2, <1>6, <1>7, <1>8, <1>9, <1>10
  DEF Next, CancelRead, ReparseRead, DeleteRead, HousekeepingProbe, HousekeepingSweep,
      vars, taskVars

\* Max of a function of the parses, for the attempts before and after a step.
LEMMA MaxIs ==
    ASSUME NEW f \in [Parses -> Nat]
    PROVE  LET m == Max({f[p] : p \in Parses}) IN
           m \in Nat /\ (\E p \in Parses : m = f[p]) /\ \A p \in Parses : f[p] <= m
<1> DEFINE S == {f[p] : p \in Parses}
<1>1. S \subseteq Nat /\ f["upload"] \in S
  BY Members
<1>2. \E x \in S : \A y \in S : y <= x
  <2>1. CASE "reparse" \in Parses /\ f["upload"] <= f["reparse"]
    BY <1>1, <2>1 DEF Parses
  <2>2. CASE "reparse" \in Parses /\ f["reparse"] < f["upload"]
    BY <1>1, <2>2 DEF Parses
  <2>3. CASE "reparse" \notin Parses
    BY <1>1, <2>3 DEF Parses
  <2> QED
    BY <1>1, <2>1, <2>2, <2>3
<1>3. \E x \in S : \A y \in S : x >= y
  BY <1>1, <1>2
<1>4. Max(S) \in S /\ \A y \in S : Max(S) >= y
  <2>1. Max(S) = CHOOSE x \in S : \A y \in S : x >= y
    BY DEF Max
  <2> QED
    BY <1>3, <2>1
<1> QED
  BY <1>1, <1>4

LEMMA LatestIs ==
    ASSUME attempt \in [Parses -> Nat]
    PROVE  /\ LatestAttempt \in Nat
           /\ \E p \in Parses : LatestAttempt = attempt[p]
           /\ \A p \in Parses : attempt[p] <= LatestAttempt
BY MaxIs DEF LatestAttempt

LEMMA LatestNext ==
    ASSUME attempt' \in [Parses -> Nat]
    PROVE  LatestAttempt' \in Nat /\ \A p \in Parses : attempt'[p] <= LatestAttempt'
BY MaxIs DEF LatestAttempt

LEMMA TypeStep ==
    ASSUME TypeOK, SummaryOnly, NoMarkedCopy, [Next]_vars
    PROVE  TypeOK'
<1>1. row' \in Rows
  BY RowStep, WrittenIs
<1>2. TasksOK /\ OpsOK /\ store \subseteq Items /\ attempt \in [Parses -> Nat]
      /\ doc \in [text : BOOLEAN, embeds : BOOLEAN] /\ armed \in BOOLEAN /\ faults \in 0..MaxFault
  BY DEF TypeOK, TasksOK, OpsOK
<1>3. TasksOK'
  <2>1. CASE UNCHANGED taskVars
    BY <1>2, <2>1 DEF taskVars, TasksOK
  <2>2. CASE CallStep \/ CancelRead \/ ReparseRead \/ DeleteRead
    <3>1. CASE CancelDequeue \/ DeleteDequeue
      BY <3>1, CallMoves, StatesOfTasks DEF CancelDequeue, DeleteDequeue, OpAt
    <3>2. CASE ReparseEnqueue
      <4>1. PICK state \in {"queued", "none"} :
              pc' = [pc EXCEPT !["reparse"]["process"] = state]
        BY <3>2 DEF ReparseEnqueue
      <4>2. state \in TaskStates
        BY StatesOfTasks
      <4> QED
        BY <1>2, <3>2, <4>1, <4>2 DEF ReparseEnqueue, NotTheirs, TasksOK
    <3> QED
      BY <2>1, <2>2, <3>1, <3>2
      DEF CallStep, CancelWrite, ReparseOpen, ReparseClean, ReparseSave, ReparseReset,
          DeleteMark, DeleteClean, DeleteRemove, CancelRead, ReparseRead, DeleteRead,
          NotTheirs, taskVars
  <2> QED
    BY <2>1, <2>2, ProcessMoves, PostMoves, SubtaskMoves, CrashMoves
    DEF Next, HousekeepingProbe, HousekeepingSweep, vars
<1>4. OpsOK'
  <2>1. CASE UNCHANGED userVars
    BY <1>2, <2>1 DEF userVars, OpsOK
  <2>2. ASSUME NEW p \in Parses, ProcessStep(p) PROVE UNCHANGED userVars
    BY <2>2
    DEF ProcessStep, ProcessClaim, ProcessRecheck, ProcessMark, ProcessOpenAttempt,
        ProcessFails, DeadLetter, ProcessGivesUp, ProcessDrop, Deletes, ProcessOverQuota, ProcessClear,
        ProcessCheckWrite, ProcessWrite, ProcessCheckIndex, ProcessIndex, ProcessCheckSave,
        ProcessSave, ProcessEnqueuePost, NotMine
  <2>3. ASSUME NEW p \in Parses, PostStep(p) PROVE UNCHANGED userVars
    BY <2>3
    DEF PostStep, PostRead, PostDecide, PostFails, DeadLetter, PostSetFinalizing, PostFinish,
        PostEnqueue, PostRelease, NotMine
  <2>4. ASSUME NEW p \in Parses, NEW s \in Subtask, SubtaskStep(p, s) PROVE UNCHANGED userVars
    BY <2>4
    DEF SubtaskStep, SubtaskStart, SubtaskRead, SummaryAnnounce, SummarySave, SummaryGivesUp,
        SubtaskStore, SubtaskFails, Drain, TryPromote, NotMine
  <2>5. CASE CallStep \/ CancelRead \/ ReparseRead \/ DeleteRead
    <3>1. row \in Rows
      BY DEF TypeOK
    <3>2. CASE CancelWrite \/ CancelDequeue \/ CancelRead
      BY <3>2, CallMoves, StatesOfTasks DEF CancelWrite, CancelDequeue, CancelRead, OpAt
    <3>3. CASE ReparseRead \/ ReparseOpen \/ ReparseClean \/ ReparseSave \/ ReparseReset
               \/ ReparseEnqueue
      BY <3>1, <3>3, CallMoves, StatesOfTasks, Members
      DEF ReparseRead, ReparseOpen, ReparseClean, ReparseSave, ReparseReset, ReparseEnqueue, OpAt
    <3>4. CASE DeleteRead \/ DeleteMark \/ DeleteDequeue \/ DeleteClean \/ DeleteRemove
      BY <3>1, <3>4, CallMoves, StatesOfTasks, Members
      DEF DeleteRead, DeleteMark, DeleteDequeue, DeleteClean, DeleteRemove, OpAt
    <3> QED
      BY <2>5, <3>2, <3>3, <3>4 DEF CallStep
  <2> QED
    BY <2>1, <2>2, <2>3, <2>4, <2>5
    DEF Next, Crash, HousekeepingProbe, HousekeepingSweep, vars
<1>5. store' \subseteq Items
  <2>1. {"chunks", "index", "summary", "questions"} \subseteq Items
    BY DEF Items
  <2>2. CASE UNCHANGED store
    BY <1>2, <2>2
  <2>3. ASSUME NEW p \in Parses, ProcessStep(p) PROVE store' \subseteq Items
    BY <1>2, <2>1, <2>3
    DEF ProcessStep, ProcessClaim, ProcessRecheck, ProcessMark, ProcessOpenAttempt,
        ProcessFails, DeadLetter, ProcessGivesUp, ProcessDrop, Deletes, ProcessOverQuota, ProcessClear,
        ProcessCheckWrite, ProcessWrite, ProcessCheckIndex, ProcessIndex, ProcessCheckSave,
        ProcessSave, ProcessEnqueuePost
  <2>4. ASSUME NEW p \in Parses, PostStep(p) PROVE UNCHANGED store
    BY <2>4
    DEF PostStep, PostRead, PostDecide, PostFails, DeadLetter, PostSetFinalizing, PostFinish,
        PostEnqueue, PostRelease
  <2>5. ASSUME NEW p \in Parses, NEW s \in Subtask, SubtaskStep(p, s) PROVE store' \subseteq Items
    BY <1>2, <2>1, <2>5
    DEF SubtaskStep, SubtaskStart, SubtaskRead, SummaryAnnounce, SummarySave, SummaryGivesUp,
        SubtaskStore, SubtaskFails, Drain, TryPromote
  <2>6. CASE CallStep \/ CancelRead \/ ReparseRead \/ DeleteRead
    BY <1>2, <2>6
    DEF CallStep, CancelWrite, CancelDequeue, CancelRead, Dequeue, ReparseRead, ReparseOpen,
        ReparseClean, ReparseSave, ReparseReset, ReparseEnqueue, DeleteRead, DeleteMark,
        DeleteDequeue, DeleteClean, DeleteRemove
  <2> QED
    BY <2>2, <2>3, <2>4, <2>5, <2>6
    DEF Next, Crash, HousekeepingProbe, HousekeepingSweep, vars
<1>6. attempt' \in [Parses -> Nat] /\ doc' = doc /\ armed' \in BOOLEAN /\ faults' \in 0..MaxFault
  <2>1. \A p \in Parses : OpenAttempt(p) => attempt' \in [Parses -> Nat]
    BY <1>2, LatestIs DEF OpenAttempt
  <2>2. faults < MaxFault => faults + 1 \in 0..MaxFault
    BY <1>2, PipelineAssumption
  <2>3. ASSUME NEW p \in Parses, ProcessStep(p)
        PROVE  /\ attempt' \in [Parses -> Nat] /\ doc' = doc /\ armed' = armed
               /\ faults' \in 0..MaxFault
    BY <1>2, <2>1, <2>2, <2>3
    DEF ProcessStep, ProcessClaim, ProcessRecheck, ProcessMark, ProcessOpenAttempt,
        ProcessFails, DeadLetter, ProcessGivesUp, ProcessDrop, Deletes, ProcessOverQuota, ProcessClear,
        ProcessCheckWrite, ProcessWrite, ProcessCheckIndex, ProcessIndex, ProcessCheckSave,
        ProcessSave, ProcessEnqueuePost, NotMine
  <2>4. ASSUME NEW p \in Parses, PostStep(p) PROVE UNCHANGED <<attempt, doc, armed, faults>>
    BY <2>4
    DEF PostStep, PostRead, PostDecide, PostFails, DeadLetter, PostSetFinalizing, PostFinish,
        PostEnqueue, PostRelease, NotMine
  <2>5. ASSUME NEW p \in Parses, NEW s \in Subtask, SubtaskStep(p, s)
        PROVE  UNCHANGED <<attempt, doc, armed, faults>>
    BY <2>5
    DEF SubtaskStep, SubtaskStart, SubtaskRead, SummaryAnnounce, SummarySave, SummaryGivesUp,
        SubtaskStore, SubtaskFails, Drain, TryPromote, NotMine
  <2>6. CASE CallStep \/ CancelRead \/ ReparseRead \/ DeleteRead
    <3>1. CASE ReparseOpen
      BY <1>2, <2>1, <3>1 DEF ReparseOpen, OpAt, Parses, NotTheirs
    <3> QED
      BY <1>2, <2>6, <3>1
      DEF CallStep, CancelWrite, CancelDequeue, CancelRead, Dequeue, ReparseRead,
          ReparseClean, ReparseSave, ReparseReset, ReparseEnqueue, DeleteRead, DeleteMark,
          DeleteDequeue, DeleteClean, DeleteRemove, NotTheirs
  <2>7. ASSUME NEW p \in Parses, NEW t \in Task, Crash(p, t)
        PROVE  UNCHANGED <<attempt, doc, armed>> /\ faults' \in 0..MaxFault
    BY <2>2, <2>7 DEF Crash
  <2> QED
    BY <1>2, <2>3, <2>4, <2>5, <2>6, <2>7
    DEF Next, HousekeepingProbe, HousekeepingSweep, vars
<1> QED
  BY <1>1, <1>2, <1>3, <1>4, <1>5, <1>6 DEF TypeOK, TasksOK, OpsOK

-----------------------------------------------------------------------------
(* Orphans *)

LEMMA HelpersCopy ==
    ASSUME TasksOK, NoMarkedCopy, NEW p \in Parses, NEW t \in Task
    PROVE  /\ \A state : Go(p, t, state) => NoMarkedCopy'
           /\ \A state : Leave(p, t, state) => NoMarkedCopy'
           /\ \A state, mem : Hold(p, t, state, mem) /\ mem.status # "deleting" => NoMarkedCopy'
           /\ End(p, t) => NoMarkedCopy'
           /\ Requeue(p, t) => NoMarkedCopy'
<1>1. ASSUME snap' = snap PROVE NoMarkedCopy'
  BY <1>1 DEF NoMarkedCopy
<1>2. ASSUME NEW mem, mem.status # "deleting", snap' = [snap EXCEPT ![p][t] = mem]
      PROVE  NoMarkedCopy'
  BY <1>2 DEF NoMarkedCopy, TasksOK
<1>3. NoRow.status # "deleting"
  BY DEF NoRow
<1> QED
  BY <1>1, <1>2, <1>3 DEF Go, Leave, Hold, End, Requeue

LEMMA NoMarkedCopyStep ==
    ASSUME TypeOK, NoMarkedCopy, [Next]_vars
    PROVE  NoMarkedCopy'
<1>1. /\ TasksOK /\ row \in Rows /\ "process" \in Task /\ "post" \in Task
      /\ Subtask \subseteq Task
  BY Members DEF TypeOK, TasksOK
<1>2. CASE UNCHANGED snap
  BY <1>2 DEF NoMarkedCopy
<1>3. ASSUME NEW p \in Parses, ProcessStep(p) PROVE NoMarkedCopy'
  <2>1. CASE ProcessClaim(p)
    <3>1. WithStatus(row, "processing").status # "deleting"
      BY <1>1, WithStatusType, StatusNames
    <3> QED
      BY <1>1, <2>1, <3>1, HelpersCopy DEF ProcessClaim
  <2>2. CASE ProcessRecheck(p) \/ ProcessMark(p) \/ ProcessOpenAttempt(p) \/ ProcessFails(p)
             \/ DeadLetter(p, "process") \/ ProcessGivesUp(p) \/ ProcessDrop(p)
             \/ ProcessOverQuota(p)
    BY <1>1, <2>2, HelpersCopy
    DEF ProcessRecheck, ProcessMark, ProcessOpenAttempt, ProcessFails, DeadLetter,
        ProcessGivesUp, ProcessDrop, ProcessOverQuota
  <2>3. CASE ProcessClear(p) \/ ProcessCheckWrite(p) \/ ProcessWrite(p) \/ ProcessCheckIndex(p)
             \/ ProcessIndex(p) \/ ProcessCheckSave(p) \/ ProcessSave(p)
    BY <1>1, <2>3, HelpersCopy
    DEF ProcessClear, ProcessCheckWrite, ProcessWrite, ProcessCheckIndex, ProcessIndex,
        ProcessCheckSave, ProcessSave
  <2>4. CASE ProcessEnqueuePost(p)
    BY <1>2, <2>4 DEF ProcessEnqueuePost
  <2> QED
    BY <1>3, <2>1, <2>2, <2>3, <2>4 DEF ProcessStep
<1>4. ASSUME NEW p \in Parses, PostStep(p) PROVE NoMarkedCopy'
  <2>1. CASE PostSetFinalizing(p)
    BY <1>1, <1>2, <2>1, HelpersCopy DEF PostSetFinalizing
  <2>2. CASE PostRead(p) \/ PostDecide(p) \/ PostFails(p) \/ DeadLetter(p, "post")
             \/ PostFinish(p)
    BY <1>1, <2>2, HelpersCopy DEF PostRead, PostDecide, PostFails, DeadLetter, PostFinish
  <2>3. ASSUME NEW s \in Subtask, PostEnqueue(p, s) \/ PostRelease(p, s) PROVE NoMarkedCopy'
    BY <1>1, <2>3, HelpersCopy DEF PostEnqueue, PostRelease
  <2> QED
    BY <1>4, <2>1, <2>2, <2>3 DEF PostStep
<1>5. ASSUME NEW p \in Parses, NEW s \in Subtask, SubtaskStep(p, s) PROVE NoMarkedCopy'
  <2>1. CASE SubtaskRead(p, s)
    <3>1. CASE ~Aborted(row) /\ Hold(p, s, "announcing", row)
      BY <1>1, <3>1, HelpersCopy DEF Aborted, AbortStatuses
    <3>2. CASE Go(p, s, "exiting") \/ Go(p, s, "working")
      BY <1>1, <3>2, HelpersCopy
    <3> QED
      BY <2>1, <3>1, <3>2 DEF SubtaskRead
  <2>2. CASE SubtaskStart(p, s) \/ SummaryAnnounce(p, s) \/ SummarySave(p, s)
             \/ SummaryGivesUp(p, s)
    BY <1>1, <2>2, HelpersCopy DEF SubtaskStart, SummaryAnnounce, SummarySave, SummaryGivesUp
  <2>3. CASE SubtaskStore(p, s) \/ SubtaskFails(p, s) \/ Drain(p, s) \/ TryPromote(p, s)
    BY <1>1, <2>3, HelpersCopy DEF SubtaskStore, SubtaskFails, Drain, TryPromote
  <2> QED
    BY <1>5, <2>1, <2>2, <2>3 DEF SubtaskStep
<1>6. ASSUME NEW p \in Parses, NEW t \in Task, Crash(p, t) PROVE NoMarkedCopy'
  <2>1. snap' = [snap EXCEPT ![p][t] = NoRow]
    BY <1>6 DEF Crash
  <2> QED
    BY <1>1, <2>1 DEF NoMarkedCopy, TasksOK, NoRow
<1>7. CASE CallStep \/ CancelRead \/ ReparseRead \/ DeleteRead
  BY <1>2, <1>7
  DEF CallStep, CancelWrite, CancelDequeue, CancelRead, Dequeue, ReparseRead, ReparseOpen,
      ReparseClean, ReparseSave, ReparseReset, ReparseEnqueue, DeleteRead, DeleteMark,
      DeleteDequeue, DeleteClean, DeleteRemove, NotTheirs
<1> QED
  BY <1>2, <1>3, <1>4, <1>5, <1>6, <1>7
  DEF Next, HousekeepingProbe, HousekeepingSweep, vars, taskVars

\* What the steps of the tasks leave alone.
LEMMA TasksLeave ==
    ASSUME NEW p \in Parses,
           \/ ProcessStep(p) \/ PostStep(p)
           \/ \E s \in Subtask : SubtaskStep(p, s)
           \/ \E t \in Task : Crash(p, t)
    PROVE  UNCHANGED <<userVars, armed, doc>>
BY DEF
  ProcessStep, ProcessClaim, ProcessRecheck, ProcessMark, ProcessOpenAttempt,
  ProcessFails, DeadLetter, ProcessGivesUp, ProcessDrop, Deletes, ProcessOverQuota, ProcessClear,
  ProcessCheckWrite, ProcessWrite, ProcessCheckIndex, ProcessIndex, ProcessCheckSave,
  ProcessSave, ProcessEnqueuePost, NotMine,
  PostStep, PostRead, PostDecide, PostFails, PostSetFinalizing, PostFinish,
  PostEnqueue, PostRelease,
  SubtaskStep, SubtaskStart, SubtaskRead, SummaryAnnounce, SummarySave, SummaryGivesUp,
  SubtaskStore, SubtaskFails, Drain, TryPromote, Crash, userVars

LEMMA DeleteMarkStep ==
    ASSUME TypeOK, SummaryOnly, NoMarkedCopy, MarkByDelete, DeletedAtTheEnd, [Next]_vars
    PROVE  MarkByDelete' /\ DeletedAtTheEnd'
<1>1. Written(row')
  BY RowStep
<1>2. /\ row'.status = "deleting" => row.status = "deleting" \/ DeleteMark
      /\ row'.deleted => row.deleted \/ DeleteRemove
  BY <1>1, WrittenIs
<1>3. op \in [Ops -> OpStates] /\ row.deleted \in BOOLEAN
  BY DEF TypeOK, Rows
<1>4. ASSUME "delete" \in Ops => op'["delete"] = op["delete"]
      PROVE  MarkByDelete' /\ DeletedAtTheEnd'
  <2>1. ~DeleteMark
    BY <1>3, <1>4 DEF DeleteMark, OpHold, OpAt
  <2>2. ~DeleteRemove
    BY <1>3, <1>4 DEF DeleteRemove, OpEnd, OpHold, OpAt
  <2> QED
    BY <1>2, <1>4, <2>1, <2>2 DEF MarkByDelete, DeletedAtTheEnd
<1>5. CASE UNCHANGED op
  BY <1>4, <1>5
<1>6. CASE CancelRead \/ CancelWrite \/ CancelDequeue
  BY <1>3, <1>4, <1>6
  DEF CancelRead, CancelWrite, CancelDequeue, Dequeue, OpGo, OpHold, OpEnd, OpAt
<1>7. CASE \/ ReparseRead \/ ReparseOpen \/ ReparseClean \/ ReparseSave \/ ReparseReset
           \/ ReparseEnqueue
  BY <1>3, <1>4, <1>7
  DEF ReparseRead, ReparseOpen, ReparseClean, ReparseSave, ReparseReset, ReparseEnqueue,
      OpGo, OpHold, OpEnd, OpAt
<1>8. CASE DeleteRead \/ DeleteMark \/ DeleteDequeue \/ DeleteClean
  <2>1. ~DeleteRemove
    BY <1>3, <1>8
    DEF DeleteRead, DeleteMark, DeleteDequeue, DeleteClean, DeleteRemove, OpAt
  <2>2. "delete" \in Ops /\ op["delete"] # "done"
    BY <1>8 DEF DeleteRead, DeleteMark, DeleteDequeue, DeleteClean, OpAt
  <2>3. ~row'.deleted
    BY <1>2, <2>1, <2>2 DEF DeletedAtTheEnd
  <2>4. CASE DeleteRead
    BY <1>2, <1>3, <2>3, <2>4
    DEF DeleteRead, DeleteMark, OpHold, OpAt, MarkByDelete, DeletedAtTheEnd
  <2>5. CASE DeleteMark
    BY <1>3, <2>2, <2>3, <2>5 DEF DeleteMark, OpHold, MarkByDelete, DeletedAtTheEnd
  <2>6. CASE DeleteDequeue \/ DeleteClean
    <3>1. op'["delete"] \in {"cleaning", "removing", "done"}
      BY <1>3, <2>2, <2>6
      DEF DeleteDequeue, Dequeue, DeleteClean, OpGo, OpEnd, OpHold
    <3> QED
      BY <2>2, <2>3, <3>1 DEF MarkByDelete, DeletedAtTheEnd
  <2> QED
    BY <1>8, <2>4, <2>5, <2>6
<1>9. CASE DeleteRemove
  <2>1. "delete" \in Ops /\ op'["delete"] = "done"
    BY <1>3, <1>9 DEF DeleteRemove, OpEnd, OpHold, OpAt
  <2> QED
    BY <2>1 DEF MarkByDelete, DeletedAtTheEnd
<1> QED
  BY <1>5, <1>6, <1>7, <1>8, <1>9, TasksLeave
  DEF Next, CallStep, HousekeepingProbe, HousekeepingSweep, vars, userVars

\* A task runs only if it is in the queue or taken from it.
LEMMA TaskRuns ==
    ASSUME NEW p \in Parses
    PROVE  /\ ProcessStep(p) => pc[p]["process"] # "none"
           /\ \A t \in Task : Crash(p, t) => pc[p][t] # "none"
<1>1. ASSUME ProcessStep(p) PROVE pc[p]["process"] # "none"
  BY <1>1 DEF
    ProcessStep, ProcessClaim, ProcessRecheck, ProcessMark, ProcessOpenAttempt,
    ProcessFails, DeadLetter, ProcessGivesUp, ProcessDrop, Deletes, ProcessOverQuota, ProcessClear,
    ProcessCheckWrite, ProcessWrite, ProcessCheckIndex, ProcessIndex, ProcessCheckSave,
    ProcessSave, ProcessEnqueuePost, At
<1> QED
  BY <1>1 DEF Crash

\* document:process is moved by its own steps, a crash, and the queue only.
LEMMA OthersKeepProcess ==
    ASSUME TypeOK, NEW p \in Parses,
           PostStep(p) \/ \E s \in Subtask : SubtaskStep(p, s)
    PROVE  \A q \in Parses : pc'[q]["process"] = pc[q]["process"]
<1>1. /\ TasksOK /\ "process" \in Task /\ "post" \in Task /\ "process" # "post"
      /\ Subtask \subseteq Task /\ "process" \notin Subtask
  BY Members, PipelineAssumption DEF TypeOK, TasksOK
<1>2. ASSUME NEW t \in Task, t # "process", NEW state, Moved(p, t, state)
      PROVE  \A q \in Parses : pc'[q]["process"] = pc[q]["process"]
  BY <1>1, <1>2 DEF Moved
<1>3. ASSUME NEW t \in Task, t # "process", End(p, t) \/ Requeue(p, t)
      PROVE  \A q \in Parses : pc'[q]["process"] = pc[q]["process"]
  BY <1>1, <1>2, <1>3, HelpersMove
<1>4. ASSUME NEW t \in Task, t # "process", NEW state, Go(p, t, state) \/ Leave(p, t, state)
      PROVE  \A q \in Parses : pc'[q]["process"] = pc[q]["process"]
  BY <1>1, <1>2, <1>4, HelpersMove
<1>5. ASSUME PostStep(p)
      PROVE  \A q \in Parses : pc'[q]["process"] = pc[q]["process"]
  <2>1. CASE PostSetFinalizing(p)
    <3>1. CASE End(p, "post")
      BY <1>1, <1>3, <3>1
    <3>2. CASE pc' = [pc EXCEPT ![p] = [t \in Task |->
                        IF t \in Subtask THEN "planned"
                        ELSE IF t = "post" THEN "spawning" ELSE @[t]]]
      BY <1>1, <3>2 DEF TasksOK
    <3> QED
      BY <2>1, <3>1, <3>2 DEF PostSetFinalizing
  <2>2. CASE PostRead(p) \/ PostDecide(p) \/ PostFails(p) \/ DeadLetter(p, "post")
             \/ PostFinish(p)
    BY <1>1, <1>3, <1>4, <2>2 DEF PostRead, PostDecide, PostFails, DeadLetter, PostFinish
  <2>3. ASSUME NEW s \in Subtask, PostEnqueue(p, s) \/ PostRelease(p, s)
        PROVE  \A q \in Parses : pc'[q]["process"] = pc[q]["process"]
    BY <1>1, <1>4, <2>3 DEF PostEnqueue, PostRelease
  <2> QED
    BY <1>5, <2>1, <2>2, <2>3 DEF PostStep
<1>6. ASSUME NEW s \in Subtask, SubtaskStep(p, s)
      PROVE  \A q \in Parses : pc'[q]["process"] = pc[q]["process"]
  <2>1. CASE SubtaskRead(p, s)
    <3>1. CASE Hold(p, s, "announcing", row)
      BY <1>1, <1>2, <3>1, HelpersMove
    <3>2. CASE Go(p, s, "exiting") \/ Go(p, s, "working")
      BY <1>1, <1>4, <3>2
    <3> QED
      BY <2>1, <3>1, <3>2 DEF SubtaskRead
  <2>2. CASE SubtaskStart(p, s) \/ SummaryAnnounce(p, s) \/ SummarySave(p, s)
             \/ SummaryGivesUp(p, s)
    BY <1>1, <1>3, <1>4, <2>2 DEF SubtaskStart, SummaryAnnounce, SummarySave, SummaryGivesUp
  <2>3. CASE SubtaskStore(p, s) \/ SubtaskFails(p, s) \/ Drain(p, s) \/ TryPromote(p, s)
    BY <1>1, <1>3, <1>4, <2>3 DEF SubtaskStore, SubtaskFails, Drain, TryPromote
  <2> QED
    BY <1>6, <2>1, <2>2, <2>3 DEF SubtaskStep
<1> QED
  BY <1>5, <1>6

LEMMA ProcessKeepsOthers ==
    ASSUME TypeOK, NEW p \in Parses, ProcessStep(p), NEW q \in Parses, q # p
    PROVE  pc'[q]["process"] = pc[q]["process"]
<1>1. TasksOK /\ "process" \in Task /\ "post" \in Task
  BY Members DEF TypeOK, TasksOK
<1>2. ASSUME NEW state, Moved(p, "process", state) PROVE pc'[q]["process"] = pc[q]["process"]
  BY <1>1, <1>2 DEF Moved
<1>3. CASE ProcessClaim(p)
  <2>1. CASE End(p, "process")
    BY <1>1, <1>2, <2>1, HelpersMove
  <2>2. CASE Hold(p, "process", "claimed", WithStatus(row, "processing"))
    BY <1>1, <1>2, <2>2, HelpersMove
  <2> QED
    BY <1>3, <2>1, <2>2 DEF ProcessClaim
<1>4. ASSUME \/ End(p, "process") \/ Requeue(p, "process")
             \/ \E state \in TaskStates : Go(p, "process", state) \/ Leave(p, "process", state)
      PROVE  pc'[q]["process"] = pc[q]["process"]
  BY <1>1, <1>2, <1>4, HelpersMove
<1>5. CASE ProcessRecheck(p) \/ ProcessMark(p) \/ ProcessOpenAttempt(p) \/ ProcessFails(p)
           \/ DeadLetter(p, "process") \/ ProcessGivesUp(p) \/ ProcessDrop(p)
           \/ ProcessOverQuota(p)
  BY <1>4, <1>5, StatesOfTasks
  DEF ProcessRecheck, ProcessMark, ProcessOpenAttempt, ProcessFails, DeadLetter,
      ProcessGivesUp, ProcessDrop, ProcessOverQuota
<1>6. CASE ProcessClear(p) \/ ProcessCheckWrite(p) \/ ProcessWrite(p) \/ ProcessCheckIndex(p)
           \/ ProcessIndex(p) \/ ProcessCheckSave(p) \/ ProcessSave(p)
  BY <1>4, <1>6, StatesOfTasks
  DEF ProcessClear, ProcessCheckWrite, ProcessWrite, ProcessCheckIndex, ProcessIndex,
      ProcessCheckSave, ProcessSave
<1>7. CASE ProcessEnqueuePost(p)
  BY <1>1, <1>7 DEF ProcessEnqueuePost, TasksOK
<1> QED
  BY <1>3, <1>5, <1>6, <1>7 DEF ProcessStep

\* What the user's calls do to the tasks: the queue is emptied, or gets one more.
LEMMA CallsKeepProcess ==
    ASSUME TypeOK, CallStep \/ CancelRead \/ ReparseRead \/ DeleteRead, NEW q \in Parses
    PROVE  \/ pc'[q]["process"] = pc[q]["process"]
           \/ pc[q]["process"] = "queued" /\ pc'[q]["process"] = "none"
           \/ q = "reparse" /\ OpAt("reparse", "enqueueing") /\ op'["reparse"] = "done"
<1>1. /\ TasksOK /\ "process" \in Task /\ op \in [Ops -> OpStates]
  BY Members DEF TypeOK, TasksOK
<1>2. CASE UNCHANGED pc
  BY <1>2
<1>3. CASE CancelDequeue \/ DeleteDequeue
  BY <1>1, <1>3 DEF CancelDequeue, DeleteDequeue, Dequeue, At, TasksOK
<1>4. CASE ReparseEnqueue
  <2>1. PICK state \in {"queued", "none"} :
          pc' = [pc EXCEPT !["reparse"]["process"] = state]
    BY <1>4 DEF ReparseEnqueue
  <2>2. q # "reparse" => pc'[q]["process"] = pc[q]["process"]
    BY <1>1, <2>1 DEF TasksOK
  <2>3. OpAt("reparse", "enqueueing") /\ op'["reparse"] = "done"
    BY <1>1, <1>4 DEF ReparseEnqueue, OpAt, OpEnd, OpHold
  <2> QED
    BY <2>2, <2>3
<1> QED
  BY <1>2, <1>3, <1>4
  DEF CallStep, CancelWrite, CancelRead, ReparseRead, ReparseOpen, ReparseClean,
      ReparseSave, ReparseReset, DeleteRead, DeleteMark, DeleteClean, DeleteRemove

LEMMA ReparseWaitsStep ==
    ASSUME TypeOK, ReparseWaits, [Next]_vars
    PROVE  ReparseWaits'
<1> SUFFICES ASSUME "reparse" \in Ops, op'["reparse"] # "done"
             PROVE  pc'["reparse"]["process"] = "none"
  BY DEF ReparseWaits, At
<1>1. /\ TasksOK /\ "process" \in Task /\ op \in [Ops -> OpStates] /\ "reparse" \in Parses
  BY Members DEF TypeOK, TasksOK, Parses
<1>2. ASSUME UNCHANGED op
      PROVE  pc["reparse"]["process"] = "none"
  BY <1>2 DEF ReparseWaits, At
<1>3. CASE UNCHANGED <<pc, op>>
  BY <1>2, <1>3
<1>4. ASSUME NEW p \in Parses, ProcessStep(p)
      PROVE  pc'["reparse"]["process"] = "none"
  BY <1>1, <1>2, <1>4, TaskRuns, TasksLeave, ProcessKeepsOthers DEF userVars
<1>5. ASSUME NEW p \in Parses, PostStep(p) \/ \E s \in Subtask : SubtaskStep(p, s)
      PROVE  pc'["reparse"]["process"] = "none"
  BY <1>1, <1>2, <1>5, TasksLeave, OthersKeepProcess DEF userVars
<1>6. ASSUME NEW p \in Parses, NEW t \in Task, Crash(p, t)
      PROVE  pc'["reparse"]["process"] = "none"
  <2>1. pc["reparse"]["process"] = "none"
    BY <1>2, <1>6, TasksLeave DEF userVars
  <2>2. p # "reparse" \/ t # "process"
    BY <1>6, <2>1, TaskRuns
  <2> QED
    BY <1>1, <1>6, <2>1, <2>2, PipelineAssumption DEF Crash, TasksOK
<1>7. CASE CallStep \/ CancelRead \/ ReparseRead \/ DeleteRead
  <2>1. op["reparse"] = "done" => op'["reparse"] = "done"
    BY <1>1, <1>7
    DEF CallStep, CancelWrite, CancelDequeue, CancelRead, Dequeue, ReparseRead, ReparseOpen,
        ReparseClean, ReparseSave, ReparseReset, ReparseEnqueue, DeleteRead, DeleteMark,
        DeleteDequeue, DeleteClean, DeleteRemove, OpGo, OpHold, OpEnd, OpAt
  <2>2. pc["reparse"]["process"] = "none"
    BY <2>1 DEF ReparseWaits, At
  <2> QED
    BY <1>1, <1>7, <2>2, CallsKeepProcess
<1> QED
  BY <1>3, <1>4, <1>5, <1>6, <1>7
  DEF Next, HousekeepingProbe, HousekeepingSweep, vars, taskVars, userVars

\* Owner, as a statement about the next state: what is stored has a task.
Owned ==
    /\ "chunks" \in store' =>
          \E q \in Parses : pc'[q]["process"] \in {"chunked", "indexing", "indexed"}
    /\ "index" \in store' => \E q \in Parses : pc'[q]["process"] = "indexed"

\* A deletion that does not fail takes what it is to take.
LEMMA DeletesAll ==
    ASSUME NEW items, Deletes(items), faults = 0, faults' = 0
    PROVE  store' = store \ items
<1>1. faults' # faults + 1
  OBVIOUS
<1> QED
  BY <1>1 DEF Deletes

\* A step of document:process while the mark stands: it goes to a checkpoint,
\* and there it takes back what it has stored.
LEMMA ProcessOwns ==
    ASSUME TypeOK, SummaryOnly, NoMarkedCopy, HaveOwner,
           NEW p \in Parses, ProcessStep(p),
           Cleared, row.status = "deleting", row'.status = "deleting", doc.embeds,
           faults = 0, faults' = 0
    PROVE  Owned
<1>1. /\ TasksOK /\ "process" \in Task /\ "post" \in Task /\ row \in Rows
      /\ \A q \in Parses : q # p => pc'[q]["process"] = pc[q]["process"]
  BY Members, ProcessKeepsOthers DEF TypeOK, TasksOK
<1>2. /\ Aborted(row) /\ ~Cancelled(row)
  BY DEF Aborted, AbortStatuses, Cancelled
<1>3. /\ "chunks" \in store =>
            \E q \in Parses : pc[q]["process"] \in {"chunked", "indexing", "indexed"}
      /\ "index" \in store => \E q \in Parses : pc[q]["process"] = "indexed"
  BY DEF HaveOwner, At
<1>4. /\ \A state : Go(p, "process", state) => pc'[p]["process"] = state
      /\ End(p, "process") => pc'[p]["process"] = "none"
  BY <1>1, HelpersMove DEF Moved
<1>5. ASSUME pc[p]["process"] \notin {"chunked", "indexing", "indexed"}, store' \subseteq store
      PROVE  Owned
  BY <1>1, <1>3, <1>5 DEF Owned
<1>6. CASE ProcessWrite(p)
  <2>1. pc[p]["process"] = "writing" /\ pc'[p]["process"] = "chunked"
    BY <1>4, <1>6 DEF ProcessWrite, At
  <2>2. store' \subseteq store \cup {"chunks"}
    BY <1>6 DEF ProcessWrite
  <2> QED
    BY <1>1, <1>3, <2>1, <2>2 DEF Owned
<1>7. CASE ProcessCheckIndex(p)
  <2>1. pc[p]["process"] = "chunked" /\ Deletes({"chunks"})
    BY <1>2, <1>7 DEF ProcessCheckIndex, At
  <2>2. store' = store \ {"chunks"}
    BY <2>1, DeletesAll
  <2> QED
    BY <1>1, <1>3, <2>1, <2>2 DEF Owned
<1>8. CASE ProcessIndex(p)
  <2>1. pc[p]["process"] = "indexing" /\ pc'[p]["process"] = "indexed"
    BY <1>4, <1>8 DEF ProcessIndex, At
  <2> QED
    BY <2>1 DEF Owned
<1>9. CASE ProcessCheckSave(p)
  <2>1. Deletes(Items)
    BY <1>2, <1>9 DEF ProcessCheckSave
  <2>2. store' = store \ Items /\ {"chunks", "index"} \subseteq Items
    BY <2>1, DeletesAll DEF Items
  <2> QED
    BY <2>2 DEF Owned
<1>10. CASE ProcessGivesUp(p)
  <2>1. WithStatus(snap[p]["process"], "failed") \in Rows
        /\ WithStatus(snap[p]["process"], "failed").status = "failed"
    BY <1>1, WithStatusType, StatusNames DEF TasksOK
  <2>2. row'.status = "failed"
    BY <1>1, <1>10, <2>1, SaveRowIs DEF ProcessGivesUp
  <2> QED
    BY <2>2
<1>11. CASE ProcessOverQuota(p)
  BY <1>11 DEF ProcessOverQuota
<1>12. CASE ProcessClaim(p) \/ ProcessRecheck(p) \/ ProcessMark(p) \/ ProcessOpenAttempt(p)
            \/ ProcessFails(p) \/ DeadLetter(p, "process") \/ ProcessDrop(p)
  BY <1>5, <1>12
  DEF ProcessClaim, ProcessRecheck, ProcessMark, ProcessOpenAttempt, ProcessFails,
      DeadLetter, ProcessDrop, Deletes, At
<1>13. CASE ProcessClear(p) \/ ProcessCheckWrite(p) \/ ProcessSave(p) \/ ProcessEnqueuePost(p)
  BY <1>5, <1>13 DEF ProcessClear, Deletes, ProcessCheckWrite, ProcessSave, ProcessEnqueuePost, At
<1> QED
  BY <1>6, <1>7, <1>8, <1>9, <1>10, <1>11, <1>12, <1>13 DEF ProcessStep

LEMMA HaveOwnerStep ==
    ASSUME IInv, [Next]_vars
    PROVE  HaveOwner'
<1> USE DEF IInv
<1> SUFFICES ASSUME Cleared', row'.status = "deleting", doc'.embeds, faults' = 0
             PROVE  Owned
  BY DEF HaveOwner, Owned, At
<1>1. /\ TasksOK /\ "process" \in Task /\ op \in [Ops -> OpStates] /\ faults \in Nat
      /\ row.deleted \in BOOLEAN
  BY Members, PipelineAssumption DEF TypeOK, TasksOK, Rows
<1>2. /\ row.status = "deleting" \/ DeleteMark
      /\ row'.deleted => row.deleted \/ DeleteRemove
  BY RowStep, WrittenIs
<1>3. ~DeleteMark
  <2> SUFFICES ASSUME DeleteMark PROVE FALSE
    OBVIOUS
  <2>1. "delete" \in Ops /\ op["delete"] = "saving" /\ op'["delete"] \in {"dequeue", "cleaning"}
    BY <1>1 DEF DeleteMark, OpAt, OpHold
  <2>2. ~row.deleted /\ ~DeleteRemove
    BY <2>1 DEF DeletedAtTheEnd, DeleteRemove, OpAt
  <2> QED
    BY <1>2, <2>1, <2>2 DEF Cleared, OpAt
<1>4. row.status = "deleting"
  BY <1>2, <1>3
<1>5. ASSUME UNCHANGED op PROVE Cleared
  <2>1. ~DeleteRemove
    BY <1>1, <1>5 DEF DeleteRemove, OpAt, OpEnd, OpHold
  <2> QED
    BY <1>2, <1>5, <2>1 DEF Cleared, OpAt
<1>6. ASSUME Cleared, doc.embeds, faults = 0, store' \cap {"chunks", "index"} \subseteq store,
             \A q \in Parses : \/ pc'[q]["process"] = pc[q]["process"]
                               \/ pc[q]["process"] \in {"queued", "none"}
      PROVE  Owned
  <2>1. /\ "chunks" \in store =>
              \E q \in Parses : pc[q]["process"] \in {"chunked", "indexing", "indexed"}
        /\ "index" \in store => \E q \in Parses : pc[q]["process"] = "indexed"
    BY <1>4, <1>6 DEF HaveOwner, At
  <2> QED
    BY <1>6, <2>1 DEF Owned
<1>7. ASSUME NEW p \in Parses, ProcessStep(p) PROVE Owned
  <2>1. Cleared /\ doc.embeds
    BY <1>5, <1>7, TasksLeave DEF userVars
  <2>2. faults = 0
    BY <1>1, <1>7
    DEF ProcessStep, ProcessClaim, ProcessRecheck, ProcessMark, ProcessOpenAttempt,
        ProcessFails, DeadLetter, ProcessGivesUp, ProcessDrop, Deletes, ProcessOverQuota, ProcessClear,
        ProcessCheckWrite, ProcessWrite, ProcessCheckIndex, ProcessIndex, ProcessCheckSave,
        ProcessSave, ProcessEnqueuePost, NotMine
  <2> QED
    BY <1>4, <1>7, <2>1, <2>2, ProcessOwns
<1>8. ASSUME NEW p \in Parses, PostStep(p) PROVE Owned
  <2>1. Cleared /\ doc.embeds
    BY <1>5, <1>8, TasksLeave DEF userVars
  <2>2. faults' = faults /\ store' = store
    BY <1>8
    DEF PostStep, PostRead, PostDecide, PostFails, DeadLetter, PostSetFinalizing, PostFinish,
        PostEnqueue, PostRelease, NotMine
  <2> QED
    BY <1>6, <1>8, <2>1, <2>2, OthersKeepProcess
<1>9. ASSUME NEW p \in Parses, NEW s \in Subtask, SubtaskStep(p, s) PROVE Owned
  <2>1. Cleared /\ doc.embeds
    BY <1>5, <1>9, TasksLeave DEF userVars
  <2>2. faults' = faults /\ store' \cap {"chunks", "index"} \subseteq store
    BY <1>9
    DEF SubtaskStep, SubtaskStart, SubtaskRead, SummaryAnnounce, SummarySave, SummaryGivesUp,
        SubtaskStore, SubtaskFails, Drain, TryPromote, NotMine
  <2> QED
    BY <1>6, <1>9, <2>1, <2>2, OthersKeepProcess
<1>10. ASSUME NEW p \in Parses, NEW t \in Task, Crash(p, t) PROVE Owned
  BY <1>1, <1>10 DEF Crash
<1>11. CASE CallStep \/ CancelRead \/ ReparseRead \/ DeleteRead
  <2>1. doc' = doc /\ faults' = faults
    BY <1>11
    DEF CallStep, CancelWrite, CancelDequeue, CancelRead, Dequeue, ReparseRead, ReparseOpen,
        ReparseClean, ReparseSave, ReparseReset, ReparseEnqueue, DeleteRead, DeleteMark,
        DeleteDequeue, DeleteClean, DeleteRemove, NotTheirs
  <2>2. \A q \in Parses : \/ pc'[q]["process"] = pc[q]["process"]
                          \/ pc[q]["process"] \in {"queued", "none"}
    <3>1. OpAt("reparse", "enqueueing") => pc["reparse"]["process"] = "none"
      BY DEF ReparseWaits, OpAt, At
    <3> QED
      BY <1>11, <3>1, CallsKeepProcess
  <2>3. store' \subseteq store
    BY <1>11
    DEF CallStep, CancelWrite, CancelDequeue, CancelRead, Dequeue, ReparseRead, ReparseOpen,
        ReparseClean, ReparseSave, ReparseReset, ReparseEnqueue, DeleteRead, DeleteMark,
        DeleteDequeue, DeleteClean, DeleteRemove
  <2>4. CASE DeleteClean /\ store' = {}
    BY <2>4 DEF Owned
  <2>5. CASE ~(DeleteClean /\ store' = {})
    <3>1. OpAt("delete", "removing")' => OpAt("delete", "removing")
      BY <1>1, <1>11, <2>5
      DEF CallStep, CancelWrite, CancelDequeue, CancelRead, Dequeue, ReparseRead, ReparseOpen,
          ReparseClean, ReparseSave, ReparseReset, ReparseEnqueue, DeleteRead, DeleteMark,
          DeleteDequeue, DeleteClean, DeleteRemove, OpGo, OpHold, OpEnd, OpAt
    <3>2. Cleared
      BY <1>2, <3>1 DEF Cleared, DeleteRemove
    <3> QED
      BY <1>6, <2>1, <2>2, <2>3, <3>2
  <2> QED
    BY <2>4, <2>5
<1>12. CASE HousekeepingProbe \/ HousekeepingSweep \/ UNCHANGED vars
  BY <1>5, <1>6, <1>12 DEF HousekeepingProbe, HousekeepingSweep, vars, taskVars, userVars
<1> QED
  BY <1>7, <1>8, <1>9, <1>10, <1>11, <1>12 DEF Next

-----------------------------------------------------------------------------
(* The theorems *)

LEMMA InitInv == Init => IInv
<1> SUFFICES ASSUME Init PROVE IInv
  OBVIOUS
<1>1. NoRow \in Rows /\ NoRow.status = "pending" /\ NoRow.deleted = FALSE
  BY Members DEF NoRow
<1>2. /\ row = NoRow /\ store = {} /\ armed = FALSE /\ faults = 0
      /\ doc \in [text : BOOLEAN, embeds : BOOLEAN]
      /\ snap = [p \in Parses |-> [t \in Task |-> NoRow]]
      /\ tries = [p \in Parses |-> [t \in Task |-> 0]]
      /\ attempt = [p \in Parses |-> 0]
      /\ opSnap = [o \in Ops |-> NoRow]
  BY DEF Init
<1>3. PICK state \in {"queued", "none"} :
        pc = [p \in Parses |-> [t \in Task |->
                IF p = "upload" /\ t = "process" THEN state ELSE "none"]]
  BY DEF Init
<1>4. PICK calls : op = [o \in Ops |-> IF o \in calls THEN "idle" ELSE "done"]
  BY Zenon DEF Init
<1>5. pc \in [Parses -> [Task -> TaskStates]]
  BY <1>3, StatesOfTasks
<1>6. op \in [Ops -> OpStates]
  BY <1>4, StatesOfTasks
<1>7. TypeOK
  <2>1. 0 \in 0..MaxRetry /\ 0 \in 0..MaxFault
    BY PipelineAssumption
  <2>2. /\ tries \in [Parses -> [Task -> 0..MaxRetry]]
        /\ snap \in [Parses -> [Task -> Rows]]
        /\ opSnap \in [Ops -> Rows] /\ attempt \in [Parses -> Nat]
    BY <1>1, <1>2, <2>1
  <2>3. row \in Rows /\ store \in SUBSET Items /\ armed \in BOOLEAN /\ faults \in 0..MaxFault
    BY <1>1, <1>2, <2>1
  <2> QED
    BY <1>2, <1>5, <1>6, <2>2, <2>3 DEF TypeOK
<1>8. SummaryOnly
  BY <1>3, Members, PipelineAssumption DEF SummaryOnly, At
<1>9. NoMarkedCopy
  BY <1>1, <1>2 DEF NoMarkedCopy
<1>10. ReparseWaits
  BY <1>3, Members DEF ReparseWaits, At, Parses
<1>11. MarkByDelete /\ DeletedAtTheEnd /\ HaveOwner
  BY <1>1, <1>2 DEF MarkByDelete, DeletedAtTheEnd, HaveOwner
<1> QED
  BY <1>7, <1>8, <1>9, <1>10, <1>11 DEF IInv

LEMMA StepInv == IInv /\ [Next]_vars => IInv'
<1> SUFFICES ASSUME IInv, [Next]_vars PROVE IInv'
  OBVIOUS
<1>1. TypeOK' /\ SummaryOnly' /\ NoMarkedCopy'
  BY TypeStep, SummaryOnlyStep, NoMarkedCopyStep DEF IInv
<1>2. MarkByDelete' /\ DeletedAtTheEnd' /\ ReparseWaits'
  BY DeleteMarkStep, ReparseWaitsStep DEF IInv
<1> QED
  BY <1>1, <1>2, HaveOwnerStep DEF IInv

\* The invariant of a document's life, for any subtasks, retries and faults.
THEOREM Invariant == Spec => []IInv
BY InitInv, StepInv, PTL DEF Spec

\* The row, the queue, the store and the copies the handlers hold keep their
\* types: the counter does not fall below zero.
THEOREM TypeCorrect == Spec => []TypeOK
<1>1. IInv => TypeOK
  BY DEF IInv
<1> QED
  BY <1>1, Invariant, PTL

LEMMA WriteStep ==
    ASSUME IInv, [Next]_vars
    PROVE  /\ row'.count > row.count => row.status = "processing" /\ row'.status = "finalizing"
           /\ row.deleted => row'.deleted
           /\ row.status = "cancelled" /\ row'.status # "cancelled" => Unchecked
BY RowStep, WrittenIs DEF IInv

\* Whatever copies the handlers save and however old they are, the counter of
\* outstanding subtasks rises only when a row is handed over to finalizing: a
\* drain is never undone (omitFieldsOnUpdate).
THEOREM DrainsArePermanent == Spec => CounterRisesOnlyAtHandover
<1>1. IInv /\ [Next]_vars =>
        [row'.count > row.count => row.status = "processing" /\ row'.status = "finalizing"]_row
  BY WriteStep
<1> QED
  BY <1>1, Invariant, PTL DEF Spec, CounterRisesOnlyAtHandover

\* A full-row Save never brings a deleted document back (UpdateKnowledge).
THEOREM DeletionIsPermanent == Spec => DeletedForGood
<1>1. IInv /\ [Next]_vars => [row.deleted => row'.deleted]_row
  BY WriteStep
<1> QED
  BY <1>1, Invariant, PTL DEF Spec, DeletedForGood

\* A cancelled row is overwritten only by a handler past its last checkpoint, a
\* reparse or a delete; the hand-over, promotions and the sweep leave it alone.
THEOREM CancellationSticks == Spec => CancelSticks
<1>1. IInv /\ [Next]_vars =>
        [row.status = "cancelled" /\ row'.status # "cancelled" => Unchecked]_row
  BY WriteStep
<1> QED
  BY <1>1, Invariant, PTL DEF Spec, CancelSticks

\* While the mark of a delete stands, what document:process writes behind its
\* back is taken back at the next checkpoint: nothing it wrote outlives the
\* document once its tasks have returned (processChunks, DeleteKnowledge).
THEOREM OrphansAreTakenBack == Spec => []NoOrphans
<1>1. IInv => NoOrphans
  BY DEF IInv, NoOrphans, HaveOwner, Cleared, At
<1> QED
  BY <1>1, Invariant, PTL

-----------------------------------------------------------------------------
(***************************************************************************)
(* Completion.  A parse is over when the counter of the row is zero, so    *)
(* CompletedOnlyWhenDrained rests on the counter being no smaller than the *)
(* set of outstanding subtasks (Covered) and on nobody writing a copy that *)
(* is completed, or processing again, while there are any (Waiting,        *)
(* Copies).  Both rest on whose turn it is: the tasks of one parse at a    *)
(* time do more than wait in the queue, and it is the latest one (Turns).  *)
(* That takes a user who reparses only when no handler runs, and who does  *)
(* not cancel: a cancel resets the counter under the subtasks.             *)
(***************************************************************************)
Calm == QuietReparse /\ "cancel" \notin Ops

\* The subtasks of parse p that have not drained.
Open(p) == {s \in Subtask : pc[p][s] \notin {"none", "drained"}}

\* Before an attempt is opened, document:process has not got far.
Early == {"none", "queued", "claimed", "marking", "opening"}

\* Parse p has no other task than its document:process.
Alone(p) == \A t \in Task \ {"process"} : At(p, t, "none")

Rested(p) ==
    /\ At(p, "process", "none") /\ At(p, "post", "none")
    /\ \A s \in Subtask : pc[p][s] \in {"none", "queued"}

\* The reparse opens its attempt when the upload rests, and it alone goes on.
Turns ==
    "reparse" \in Ops =>
       /\ op["reparse"] \in {"idle", "opening"} => attempt["reparse"] = 0
       /\ op["reparse"] \notin {"idle", "opening", "done"} => attempt["reparse"] # 0
       /\ op["reparse"] # "done" \/ attempt["reparse"] = 0 =>
             \A t \in Task : At("reparse", t, "none")
       /\ attempt["reparse"] # 0 => attempt["upload"] < attempt["reparse"] /\ Rested("upload")

Opened == \A p \in Parses : attempt[p] = 0 => pc[p]["process"] \in Early /\ Alone(p)

\* Housekeeping is about to sweep only what nobody works on.
ArmedIdle ==
    armed => ~InQueue /\ ("reparse" \in Ops => op["reparse"] \in {"idle", "done"})

\* The tasks of a parse come one after the other.
Stages ==
    \A p \in Parses :
       /\ ~At(p, "process", "none") => Alone(p)
       /\ pc[p]["post"] \in {"listing", "planned"} => Open(p) = {}

\* What a summary saves neither completes a row nor takes it back.
Copies ==
    \A p \in Parses, s \in Summary :
       pc[p][s] \in {"announcing", "lacking", "working"} =>
          snap[p][s].status \notin {"processing", "completed"}

Covered == Cardinality(Outstanding) <= row.count
Waiting == Outstanding # {} => row.status \notin {"processing", "completed"}

Course   == Turns /\ Opened /\ ArmedIdle /\ Stages
DrainInv == Course /\ Copies /\ Covered /\ Waiting

-----------------------------------------------------------------------------
(* Whose turn it is *)

\* It is the turn of parse p.
Leads(p) ==
    \/ p = "upload" /\ ("reparse" \in Parses => attempt["reparse"] = 0)
    \/ p = "reparse" /\ attempt["reparse"] # 0

\* Only the tasks of parse p change.
Only(p) == \A q \in Parses \ {p}, u \in Task : pc'[q][u] = pc[q][u]

LEMMA ParsesAre ==
    ASSUME NEW p \in Parses
    PROVE  /\ p \in {"upload", "reparse"} /\ "upload" # "reparse"
           /\ p = "reparse" => "reparse" \in Ops
           /\ "reparse" \in Parses <=> "reparse" \in Ops
BY DEF Parses

\* Who does anything but wait for a turn that is over has it.
LEMMA Leading ==
    ASSUME TypeOK, Turns, Opened, NEW p \in Parses, NEW t \in Task, pc[p][t] # "none",
           ~Rested(p) \/ ~attemptSuperseded(p)
    PROVE  Leads(p) /\ (t # "process" => attempt[p] # 0)
<1>1. /\ attempt \in [Parses -> Nat] /\ \A q \in Parses : attempt[q] <= LatestAttempt
      /\ LatestAttempt \in Nat
  BY LatestIs DEF TypeOK
<1>2. t # "process" => attempt[p] # 0
  BY DEF Opened, Alone, At
<1>3. CASE p = "reparse"
  BY <1>3, ParsesAre DEF Turns, At, Leads
<1>4. CASE p = "upload"
  <2> SUFFICES ASSUME "reparse" \in Parses, attempt["reparse"] # 0 PROVE FALSE
    BY <1>2, <1>4 DEF Leads
  <2>1. attempt["upload"] < attempt["reparse"] /\ Rested("upload")
    BY ParsesAre DEF Turns
  <2>2. t # "process"
    BY <1>4, <2>1 DEF Rested, At
  <2>3. attempt[p] > 0 /\ LatestAttempt > attempt[p]
    BY <1>1, <1>2, <1>4, <2>1, <2>2
  <2> QED
    BY <1>4, <2>1, <2>3 DEF attemptSuperseded
<1> QED
  BY <1>2, <1>3, <1>4, ParsesAre

\* Then what is outstanding is its own.
LEMMA OutstandingIs ==
    ASSUME TypeOK, Turns, Opened, NEW p \in Parses, Leads(p)
    PROVE  /\ attempt[p] = LatestAttempt /\ Outstanding = Open(p)
           /\ attempt' = attempt /\ Only(p) => Outstanding' = Open(p)'
<1>1. /\ attempt \in [Parses -> Nat] /\ \A q \in Parses : attempt[q] <= LatestAttempt
      /\ LatestAttempt \in Nat /\ \E q \in Parses : LatestAttempt = attempt[q]
      /\ Subtask \subseteq Task /\ "process" \notin Subtask
  BY LatestIs, Members, PipelineAssumption DEF TypeOK
<1>2. ASSUME NEW q \in Parses, q # p
      PROVE  /\ attempt[q] <= attempt[p]
             /\ attempt[q] = attempt[p] => \A s \in Subtask : pc[q][s] = "none"
  <2>1. CASE p = "upload"
    <3>1. q = "reparse" /\ attempt[q] = 0
      BY <1>2, <2>1, ParsesAre DEF Leads
    <3> QED
      BY <1>1, <1>2, <3>1, ParsesAre DEF Turns, At
  <2>2. CASE p = "reparse"
    <3>1. q = "upload" /\ attempt[q] < attempt[p]
      BY <1>2, <2>2, ParsesAre DEF Leads, Turns
    <3> QED
      BY <1>1, <3>1
  <2> QED
    BY <2>1, <2>2, ParsesAre
<1>3. attempt[p] = LatestAttempt
  <2>1. PICK q \in Parses : LatestAttempt = attempt[q]
    BY <1>1
  <2>2. attempt[q] <= attempt[p] /\ attempt[p] <= LatestAttempt
    BY <1>1, <1>2
  <2> QED
    BY <1>1, <2>1, <2>2
<1>4. Outstanding = Open(p)
  BY <1>2, <1>3 DEF Outstanding, Open
<1>5. ASSUME attempt' = attempt, Only(p) PROVE Outstanding' = Open(p)'
  <2>1. LatestAttempt' = LatestAttempt
    BY <1>5 DEF LatestAttempt
  <2>2. \A q \in Parses, s \in Subtask : q # p /\ attempt[q] = attempt[p] => pc'[q][s] = "none"
    BY <1>1, <1>2, <1>5 DEF Only
  <2> QED
    BY <1>3, <1>5, <2>1, <2>2 DEF Outstanding, Open
<1> QED
  BY <1>3, <1>4, <1>5

LEMMA OpenFinite ==
    ASSUME NEW p
    PROVE  IsFiniteSet(Open(p)) /\ Cardinality(Open(p)) \in Nat
BY PipelineAssumption, FS_Subset, FS_CardinalityType DEF Open

\* A step of a task of the parse that leads keeps the turns.
LEMMA TurnsStep ==
    ASSUME TypeOK, Turns, ArmedIdle, NEW p \in Parses, NEW t \in Task, pc[p][t] # "none",
           Leads(p), Only(p), UNCHANGED <<op, armed>>,
           attempt' = attempt \/ OpenAttempt(p)
    PROVE  Turns' /\ ArmedIdle'
<1>1. attempt \in [Parses -> Nat] /\ LatestAttempt \in Nat
      /\ \A q \in Parses : attempt[q] <= LatestAttempt
      /\ "process" \in Task /\ "post" \in Task /\ Subtask \subseteq Task
  BY LatestIs, Members DEF TypeOK
<1>2. ArmedIdle'
  BY DEF ArmedIdle, InQueue, At
<1>3. /\ \A q \in Parses \ {p} : attempt'[q] = attempt[q]
      /\ attempt'[p] = attempt[p] \/ attempt'[p] = LatestAttempt + 1
  BY <1>1 DEF OpenAttempt
<1>4. ASSUME "reparse" \in Ops, p = "upload" PROVE Turns'
  <2>1. "reparse" \in Parses \ {p} /\ attempt["reparse"] = 0
    BY <1>4, ParsesAre DEF Leads
  <2>2. attempt'["reparse"] = 0 /\ \A u \in Task : pc'["reparse"][u] = "none"
    BY <1>3, <1>4, <2>1 DEF Turns, At, Only
  <2> QED
    BY <1>4, <2>1, <2>2 DEF Turns, At
<1>5. ASSUME "reparse" \in Ops, p = "reparse" PROVE Turns'
  <2>1. op["reparse"] = "done" /\ attempt["reparse"] # 0
    BY <1>5 DEF Turns, At
  <2>2. attempt["upload"] < attempt["reparse"] /\ Rested("upload")
    BY <1>5, <2>1 DEF Turns
  <2>3. "upload" \in Parses \ {p}
    BY <1>5, Members
  <2>4. attempt'["upload"] < attempt'["reparse"] /\ attempt'["reparse"] # 0
    BY <1>1, <1>3, <1>5, <2>1, <2>2, <2>3
  <2>5. Rested("upload")'
    BY <1>1, <2>2, <2>3 DEF Rested, At, Only
  <2> QED
    BY <2>1, <2>4, <2>5 DEF Turns
<1> QED
  BY <1>2, <1>4, <1>5, ParsesAre DEF Turns

-----------------------------------------------------------------------------
(* What the tasks do to each other *)

LEMMA HelpersSnap ==
    ASSUME TasksOK, NEW p \in Parses, NEW t \in Task,
           \/ End(p, t) \/ Requeue(p, t)
           \/ \E state : Go(p, t, state) \/ Leave(p, t, state)
           \/ \E state, mem : Hold(p, t, state, mem)
    PROVE  \A q \in Parses, u \in Task : q # p \/ u # t => snap'[q][u] = snap[q][u]
BY DEF End, Requeue, Go, Leave, Hold, TasksOK

LEMMA ProcessGoes ==
    ASSUME TypeOK, NEW p \in Parses, ProcessStep(p)
    PROVE  /\ pc[p]["process"] # "none" /\ Only(p)
           /\ \A s \in Subtask : pc'[p][s] = pc[p][s]
           /\ \/ pc'[p]["post"] = pc[p]["post"]
              \/ /\ pc'[p]["process"] = "none" /\ pc[p]["process"] \notin Early
                 /\ pc'[p]["post"] \in {"queued", "none"}
           /\ \/ /\ attempt' = attempt
                 /\ p = "upload" /\ pc[p]["process"] \in Early => pc'[p]["process"] \in Early
              \/ OpenAttempt(p)
           /\ \A q \in Parses, s \in Subtask : snap'[q][s] = snap[q][s]
<1> DEFINE Effect ==
             /\ Only(p)
             /\ \A s \in Subtask : pc'[p][s] = pc[p][s]
             /\ \/ pc'[p]["post"] = pc[p]["post"]
                \/ /\ pc'[p]["process"] = "none" /\ pc[p]["process"] \notin Early
                   /\ pc'[p]["post"] \in {"queued", "none"}
             /\ p = "upload" /\ pc[p]["process"] \in Early /\ attempt' = attempt
                  => pc'[p]["process"] \in Early
             /\ \A q \in Parses, s \in Subtask : snap'[q][s] = snap[q][s]
<1>1. /\ TasksOK /\ "process" \in Task /\ "post" \in Task /\ "process" # "post"
      /\ Subtask \subseteq Task /\ "process" \notin Subtask /\ "post" \notin Subtask
  BY Members, PipelineAssumption DEF TypeOK, TasksOK
<1>2. ASSUME NEW state, Moved(p, "process", state),
             \A q \in Parses, u \in Task : q # p \/ u # "process" => snap'[q][u] = snap[q][u],
             state \in Early \/ p # "upload" \/ attempt' # attempt \/ pc[p]["process"] \notin Early
      PROVE  Effect
  BY <1>1, <1>2 DEF Moved, Only
<1> HIDE DEF Effect
<1>3. ASSUME End(p, "process") \/ Requeue(p, "process") PROVE Effect
  <2>1. "none" \in Early /\ "queued" \in Early
    BY DEF Early
  <2> QED
    BY <1>1, <1>2, <1>3, <2>1, HelpersMove, HelpersSnap
<1>4. ASSUME NEW state, Go(p, "process", state) \/ Leave(p, "process", state),
             state \in Early \/ p # "upload" \/ attempt' # attempt \/ pc[p]["process"] \notin Early
      PROVE  Effect
  <2>1. Moved(p, "process", state)
    BY <1>1, <1>4, HelpersMove
  <2>2. \A q \in Parses, u \in Task : q # p \/ u # "process" => snap'[q][u] = snap[q][u]
    BY <1>1, <1>4, HelpersSnap
  <2> QED
    BY <1>2, <1>4, <2>1, <2>2
<1>5. ASSUME ProcessClaim(p) PROVE Effect
  <2>1. CASE End(p, "process")
    BY <1>3, <2>1
  <2>2. CASE Hold(p, "process", "claimed", WithStatus(row, "processing"))
    <3>1. Moved(p, "process", "claimed") /\ "claimed" \in Early
      BY <1>1, <2>2, HelpersMove DEF Early
    <3> QED
      BY <1>1, <1>2, <2>2, <3>1, HelpersSnap
  <2>3. attempt' = attempt
    BY <1>5 DEF ProcessClaim, NotMine
  <2> QED
    BY <1>5, <2>1, <2>2, <2>3 DEF ProcessClaim
<1>6. ASSUME ProcessRecheck(p) \/ ProcessMark(p) \/ ProcessFails(p) \/ DeadLetter(p, "process") PROVE Effect
  BY <1>3, <1>4, <1>6 DEF ProcessRecheck, ProcessMark, ProcessFails, DeadLetter, At, Early
<1>7. ASSUME ProcessOpenAttempt(p) PROVE Effect
  <2>1. attempt' # attempt
    <3>1. attempt \in [Parses -> Nat] /\ attempt[p] <= LatestAttempt /\ LatestAttempt \in Nat
      BY LatestIs DEF TypeOK
    <3>2. attempt'[p] = LatestAttempt + 1
      BY <1>7, <3>1 DEF ProcessOpenAttempt, OpenAttempt
    <3> QED
      BY <3>1, <3>2
  <2> QED
    BY <1>4, <1>7, <2>1 DEF ProcessOpenAttempt
<1>8. ASSUME ProcessGivesUp(p) PROVE Effect
  BY <1>4, <1>8 DEF ProcessGivesUp, At, Early
<1>9. ASSUME ProcessDrop(p) \/ ProcessOverQuota(p) PROVE Effect
  BY <1>3, <1>9 DEF ProcessDrop, ProcessOverQuota
<1>10. ASSUME ProcessClear(p) \/ ProcessCheckWrite(p) \/ ProcessWrite(p) PROVE Effect
  BY <1>3, <1>4, <1>10 DEF ProcessClear, ProcessCheckWrite, ProcessWrite, At, Early
<1>11. ASSUME ProcessCheckIndex(p) \/ ProcessIndex(p) \/ ProcessCheckSave(p) \/ ProcessSave(p) PROVE Effect
  BY <1>3, <1>4, <1>11
  DEF ProcessCheckIndex, ProcessIndex, ProcessCheckSave, ProcessSave, At, Early
<1>12. ASSUME ProcessEnqueuePost(p) PROVE Effect
  BY <1>1, <1>12 DEF ProcessEnqueuePost, At, Early, TasksOK, Only, Effect
<1>13. Effect
  BY <1>5, <1>6, <1>7, <1>8, <1>9, <1>10, <1>11, <1>12 DEF ProcessStep
<1>14. attempt' = attempt \/ OpenAttempt(p)
  BY DEF
    ProcessStep, ProcessClaim, ProcessRecheck, ProcessMark, ProcessOpenAttempt,
    ProcessFails, DeadLetter, ProcessGivesUp, ProcessDrop, Deletes, ProcessOverQuota, ProcessClear,
    ProcessCheckWrite, ProcessWrite, ProcessCheckIndex, ProcessIndex, ProcessCheckSave,
    ProcessSave, ProcessEnqueuePost, NotMine
<1> QED
  BY <1>13, <1>14, TaskRuns DEF Effect

LEMMA ProcessKeepsCount ==
    ASSUME TypeOK, NEW p \in Parses, ProcessStep(p)
    PROVE  row'.count = row.count
<1>1. row \in Rows /\ snap[p]["process"] \in Rows
  BY Members DEF TypeOK
<1>2. \A s \in {"failed", "processing", "completed"} :
        /\ WithStatus(snap[p]["process"], s) \in Rows /\ s \in ParseStatuses
  BY <1>1, WithStatusType, StatusNames
<1>3. CASE UNCHANGED row
  BY <1>3
<1>4. CASE ProcessMark(p)
  BY <1>1, <1>4, SaveRowIs DEF ProcessMark
<1>5. CASE ProcessFails(p)
  BY <1>1, <1>2, <1>5, SaveRowIs DEF ProcessFails
<1>6. CASE DeadLetter(p, "process")
  BY <1>1, <1>2, <1>6, SetStatusIs DEF DeadLetter
<1>7. CASE ProcessGivesUp(p) \/ ProcessOverQuota(p)
  BY <1>1, <1>2, <1>7, SaveRowIs DEF ProcessGivesUp, ProcessOverQuota
<1>8. CASE ProcessSave(p)
  BY <1>1, <1>2, <1>8, SaveRowIs DEF ProcessSave
<1> QED
  BY <1>3, <1>4, <1>5, <1>6, <1>7, <1>8
  DEF ProcessStep, ProcessClaim, ProcessRecheck, ProcessOpenAttempt, ProcessDrop, ProcessClear,
      ProcessCheckWrite, ProcessWrite, ProcessCheckIndex, ProcessIndex, ProcessCheckSave,
      ProcessEnqueuePost

\* While document:process is at work there is nothing to drain.
LEMMA ProcessDrains ==
    ASSUME IInv, DrainInv, NEW p \in Parses, ProcessStep(p)
    PROVE  DrainInv'
<1>1. /\ TypeOK /\ Turns /\ Opened /\ ArmedIdle /\ Stages /\ Copies
      /\ TasksOK /\ "process" \in Task /\ "post" \in Task /\ "process" # "post"
      /\ Subtask \subseteq Task /\ "process" \notin Subtask /\ "post" \notin Subtask
      /\ Summary \subseteq Subtask /\ attempt \in [Parses -> Nat]
  BY Members, PipelineAssumption DEF IInv, DrainInv, Course, TypeOK, TasksOK
<1>2. pc[p]["process"] # "none" /\ Only(p) /\ (attempt' = attempt \/ OpenAttempt(p))
  <2>1. pc[p]["process"] # "none"
    BY TaskRuns
  <2>2. Only(p)
    BY <1>1, ProcessGoes
  <2>3. attempt' = attempt \/ OpenAttempt(p)
    BY <1>1, ProcessGoes
  <2> QED
    BY <2>1, <2>2, <2>3
<1>3. Leads(p) /\ Alone(p)
  BY <1>1, <1>2, Leading DEF Rested, At, Stages
<1>4. Turns' /\ ArmedIdle'
  BY <1>1, <1>2, <1>3, TasksLeave, TurnsStep DEF userVars
<1>5. \A s \in Subtask : pc'[p][s] = "none"
  BY <1>1, <1>3, ProcessGoes DEF Alone, At
<1>6. \A q \in Parses \ {p}, u \in Task : pc'[q][u] = pc[q][u]
  BY <1>2 DEF Only
<1>7. pc[p]["post"] = "none"
  BY <1>1, <1>3 DEF Alone, At
<1>8. Opened'
  <2> SUFFICES ASSUME NEW q \in Parses, attempt'[q] = 0
               PROVE  pc'[q]["process"] \in Early /\ Alone(q)'
    BY DEF Opened
  <2>1. CASE q # p
    <3>1. attempt[q] = 0
      BY <1>1, <1>2, <2>1 DEF OpenAttempt
    <3> QED
      BY <1>1, <1>6, <2>1, <3>1 DEF Opened, Alone, At
  <2>2. CASE q = p
    <3>1. attempt' = attempt
      <4>1. LatestAttempt \in Nat
        BY <1>1, LatestIs
      <4>2. OpenAttempt(p) => attempt'[p] = LatestAttempt + 1
        BY <1>1 DEF OpenAttempt
      <4> QED
        BY <1>2, <2>2, <4>1, <4>2
    <3>2. attempt[p] = 0 /\ p = "upload"
      BY <1>3, <2>2, <3>1 DEF Leads
    <3>3. pc[p]["process"] \in Early
      BY <1>1, <3>2 DEF Opened
    <3>4. ~OpenAttempt(p)
      <4>1. LatestAttempt \in Nat /\ LatestAttempt + 1 # 0
        BY <1>1, LatestIs
      <4> QED
        BY <1>1, <2>2, <4>1 DEF OpenAttempt
    <3>5. pc'[p]["process"] \in Early
      BY <1>1, <3>2, <3>3, <3>4, ProcessGoes
    <3>6. pc'[p]["post"] = "none"
      BY <1>1, <1>7, <3>3, ProcessGoes
    <3> QED
      BY <1>5, <2>2, <3>5, <3>6 DEF Alone, At, Task
  <2> QED
    BY <2>1, <2>2
<1>9. Stages'
  <2>1. \A q \in Parses : q # p => (/\ ~At(q, "process", "none") => Alone(q)
                                    /\ pc[q]["post"] \in {"listing", "planned"} => Open(q) = {})'
    BY <1>1, <1>6 DEF Stages, Alone, At, Open
  <2>2. pc'[p]["process"] # "none" => pc'[p]["post"] = "none"
    BY <1>1, <1>7, ProcessGoes
  <2> QED
    BY <1>5, <2>1, <2>2 DEF Stages, Alone, At, Task, Open
<1>10. Copies'
  <2>1. \A q \in Parses, s \in Summary : snap'[q][s] = snap[q][s]
    BY <1>1, ProcessGoes
  <2>2. \A q \in Parses, s \in Summary : pc'[q][s] = pc[q][s]
    BY <1>1, <1>3, <1>5, <1>6 DEF Alone, At
  <2> QED
    BY <1>1, <2>1, <2>2 DEF Copies
<1>11. Outstanding' = {}
  <2>1. CASE attempt' = attempt
    BY <1>1, <1>2, <1>3, <1>5, <2>1, OutstandingIs DEF Open
  <2>2. CASE OpenAttempt(p)
    <3>1. CASE p = "upload"
      <4>1. \A q \in Parses, s \in Subtask : pc'[q][s] = "none"
        BY <1>1, <1>3, <1>5, <1>6, <3>1, ParsesAre DEF Leads, Turns, At
      <4> QED
        BY <4>1 DEF Outstanding
    <3>2. CASE p = "reparse"
      <4>1. LatestAttempt' \in Nat /\ \A q \in Parses : attempt'[q] <= LatestAttempt'
        <5>1. TypeOK'
          BY TypeStep DEF IInv, Next
        <5> QED
          BY <5>1, LatestNext DEF TypeOK
      <4>2. "upload" \in Parses \ {p} /\ p \in Parses
        BY <3>2, Members
      <4>3. attempt' \in [Parses -> Nat] /\ attempt'["upload"] < attempt'[p]
        <5>1. LatestAttempt \in Nat /\ attempt["upload"] <= LatestAttempt
          BY <1>1, <4>2, LatestIs
        <5>2. attempt' = [attempt EXCEPT ![p] = LatestAttempt + 1]
          BY <2>2 DEF OpenAttempt
        <5> QED
          BY <1>1, <4>2, <5>1, <5>2
      <4>4. attempt'["upload"] # LatestAttempt'
        BY <4>1, <4>2, <4>3
      <4> QED
        BY <1>5, <3>2, <4>4, ParsesAre DEF Outstanding
    <3> QED
      BY <3>1, <3>2, ParsesAre
  <2> QED
    BY <1>2, <2>1, <2>2
<1>12. Covered' /\ Waiting'
  <2>1. Cardinality({}) = 0 /\ row'.count \in Nat
    BY <1>1, FS_EmptySet, ProcessKeepsCount DEF TypeOK, Rows
  <2> QED
    BY <1>11, <2>1 DEF Covered, Waiting
<1> QED
  BY <1>4, <1>8, <1>9, <1>10, <1>12 DEF DrainInv, Course

\* Tasks that only leave the queue disturb nothing.
LEMMA ShrinkKeeps ==
    ASSUME TypeOK, Course, Copies,
           \A q \in Parses, u \in Task : pc'[q][u] \in {pc[q][u], "none"},
           \A q \in Parses, u \in Task : pc'[q][u] # "none" => snap'[q][u] = snap[q][u],
           attempt' = attempt, armed' => armed,
           "reparse" \in Ops => op'["reparse"] = op["reparse"]
    PROVE  Course' /\ Copies' /\ Outstanding' \subseteq Outstanding
<1>1. /\ "process" \in Task /\ "post" \in Task /\ "process" # "post" /\ Subtask \subseteq Task
      /\ Summary \subseteq Subtask /\ "upload" \in Parses
  BY Members, PipelineAssumption
<1>2. Turns /\ Opened /\ ArmedIdle /\ Stages
  BY DEF Course
<1>3. Turns'
  <2> SUFFICES ASSUME "reparse" \in Ops PROVE Turns'
    BY DEF Turns
  <2>1. "reparse" \in Parses /\ attempt' = attempt /\ op'["reparse"] = op["reparse"]
    BY ParsesAre DEF Parses
  <2>2. Rested("upload") => Rested("upload")'
    BY <1>1 DEF Rested, At
  <2>3. (\A t \in Task : At("reparse", t, "none")) => (\A t \in Task : At("reparse", t, "none"))'
    BY <2>1 DEF At
  <2> QED
    BY <1>2, <2>1, <2>2, <2>3 DEF Turns
<1>4. Opened'
  BY <1>1, <1>2 DEF Opened, Alone, At, Early
<1>5. ArmedIdle'
  BY <1>2 DEF ArmedIdle, InQueue, At
<1>6. Stages'
  BY <1>1, <1>2 DEF Stages, Alone, At, Open
<1>7. Copies'
  BY <1>1 DEF Copies
<1>8. Outstanding' \subseteq Outstanding
  <2>1. LatestAttempt' = LatestAttempt
    BY DEF LatestAttempt
  <2> QED
    BY <1>1, <2>1 DEF Outstanding
<1> QED
  BY <1>3, <1>4, <1>5, <1>6, <1>7, <1>8 DEF Course

\* One task of the parse that leads goes on.
LEMMA LeaderKeeps ==
    ASSUME TypeOK, Course, Copies, NEW p \in Parses, NEW t \in Task, NEW state,
           t # "process", pc[p][t] # "none", Leads(p), attempt[p] # 0,
           Moved(p, t, state), UNCHANGED <<attempt, op, armed>>,
           \A q \in Parses, u \in Task : q # p \/ u # t => snap'[q][u] = snap[q][u],
           state \in {"listing", "planned"} => t = "post" /\ Open(p) = {},
           t \in Subtask /\ pc[p][t] = "drained" => state \in {"none", "drained"},
           t \in Summary /\ state \in {"announcing", "lacking", "working"} =>
              snap'[p][t].status \notin {"processing", "completed"}
    PROVE  /\ Course' /\ Copies'
           /\ Outstanding = Open(p) /\ Outstanding' = Open(p)'
<1>1. /\ "process" \in Task /\ "post" \in Task /\ "process" # "post" /\ Subtask \subseteq Task
      /\ Summary \subseteq Subtask /\ "post" \notin Subtask /\ "process" \notin Subtask
  BY Members, PipelineAssumption
<1>2. Turns /\ Opened /\ ArmedIdle /\ Stages
  BY DEF Course
<1>3. Only(p)
  BY DEF Only, Moved
<1>4. Turns' /\ ArmedIdle'
  BY <1>2, <1>3, TurnsStep
<1>5. pc[p]["process"] = "none"
  BY <1>2 DEF Stages, Alone, At
<1>6. Opened'
  BY <1>1, <1>2, <1>3 DEF Opened, Only, Alone, At
<1>7. Stages'
  <2> SUFFICES ASSUME NEW q \in Parses
               PROVE  (/\ ~At(q, "process", "none") => Alone(q)
                       /\ pc[q]["post"] \in {"listing", "planned"} => Open(q) = {})'
    BY DEF Stages
  <2>1. CASE q # p
    BY <1>1, <1>2, <1>3, <2>1 DEF Stages, Only, Alone, At, Open
  <2>2. CASE q = p /\ t = "post"
    <3>1. /\ pc'[p]["process"] = "none" /\ pc'[p]["post"] = state
          /\ \A s \in Subtask : pc'[p][s] = pc[p][s]
      BY <1>1, <1>5, <2>2 DEF Moved
    <3> QED
      BY <2>2, <3>1 DEF At, Open
  <2>3. CASE q = p /\ t # "post"
    <3>1. t \in Subtask /\ pc'[p]["process"] = "none" /\ pc'[p]["post"] = pc[p]["post"]
      BY <1>1, <1>5, <2>3 DEF Moved, Task
    <3>2. pc[p]["post"] \in {"listing", "planned"} => Open(p)' = {}
      <4> SUFFICES ASSUME Open(p) = {} PROVE Open(p)' = {}
        BY <1>2 DEF Stages
      <4>1. pc[p][t] = "drained" /\ pc'[p][t] \in {"none", "drained"}
        BY <3>1 DEF Open, Moved
      <4> QED
        BY <1>1, <3>1, <4>1 DEF Open, Moved
    <3> QED
      BY <2>3, <3>1, <3>2 DEF At
  <2> QED
    BY <2>1, <2>2, <2>3
<1>8. Copies'
  BY <1>1 DEF Copies, Moved
<1> QED
  BY <1>2, <1>3, <1>4, <1>6, <1>7, <1>8, OutstandingIs DEF Course

\* What is left of a set of subtasks is covered by what was left of the counter.
LEMMA FewerKeeps ==
    ASSUME TypeOK, Covered, Waiting, Outstanding' \subseteq Outstanding,
           row'.count = row.count,
           row'.status \in {"processing", "completed"} =>
              row'.status = row.status \/ Outstanding' = {}
    PROVE  Covered' /\ Waiting'
<1>1. Outstanding \subseteq Subtask /\ IsFiniteSet(Outstanding) /\ IsFiniteSet(Outstanding')
  BY PipelineAssumption, FS_Subset DEF Outstanding
<1>2. /\ Cardinality(Outstanding') <= Cardinality(Outstanding)
      /\ Cardinality(Outstanding) \in Nat /\ Cardinality(Outstanding') \in Nat
  BY <1>1, FS_Subset, FS_CardinalityType
<1>3. row.count \in Nat
  BY DEF TypeOK, Rows
<1>4. Covered'
  BY <1>2, <1>3 DEF Covered
<1>5. Waiting'
  BY DEF Waiting
<1> QED
  BY <1>4, <1>5

\* A subtask drains, or a slot without a task is released.
LEMMA DrainKeeps ==
    ASSUME TypeOK, Covered, Waiting, NEW p \in Parses, NEW s \in Subtask,
           Outstanding = Open(p), Outstanding' = Open(p)',
           pc[p][s] \notin {"none", "drained"}, Moved(p, s, "drained"), row' = Decrement(row)
    PROVE  Covered' /\ Waiting'
<1>1. s \in Task /\ Subtask \subseteq Task /\ row \in Rows /\ row.count \in Nat
  BY Members DEF TypeOK, Rows
<1>2. s \in Open(p) /\ Open(p)' = Open(p) \ {s}
  BY <1>1 DEF Open, Moved
<1>3. /\ IsFiniteSet(Open(p)) /\ Cardinality(Open(p)) \in Nat
      /\ Cardinality(Open(p)') = Cardinality(Open(p)) - 1
  BY <1>2, OpenFinite, FS_RemoveElement
<1>4. Cardinality(Open(p)') \in Nat
  BY <1>2, <1>3, FS_Subset, FS_CardinalityType
<1>5. row'.status = row.status /\ (row'.count = row.count \/ row'.count = row.count - 1)
  BY <1>1 DEF Decrement, Rows
<1>6. Covered'
  BY <1>1, <1>3, <1>4, <1>5 DEF Covered
<1>7. Waiting'
  BY <1>2, <1>5 DEF Waiting
<1> QED
  BY <1>6, <1>7

LEMMA PostDrains ==
    ASSUME IInv, DrainInv, NEW p \in Parses, PostStep(p)
    PROVE  DrainInv'
<1>1. /\ TypeOK /\ Course /\ Turns /\ Opened /\ ArmedIdle /\ Stages /\ Copies
      /\ Covered /\ Waiting
      /\ TasksOK /\ "process" \in Task /\ "post" \in Task /\ "process" # "post"
      /\ Subtask \subseteq Task /\ "process" \notin Subtask /\ "post" \notin Subtask
      /\ Summary \subseteq Subtask /\ row \in Rows
  BY Members, PipelineAssumption DEF IInv, DrainInv, Course, TypeOK, TasksOK
<1>2. pc[p]["post"] # "none" /\ attempt' = attempt
  BY DEF PostStep, PostRead, PostDecide, PostFails, DeadLetter, PostSetFinalizing, PostFinish,
         PostEnqueue, PostRelease, At, NotMine
<1>3. Leads(p) /\ attempt[p] # 0 /\ UNCHANGED <<op, armed>>
  BY <1>1, <1>2, Leading, TasksLeave DEF Rested, At, userVars
<1>4. ASSUME NEW state, Moved(p, "post", state),
             \A q \in Parses, u \in Task : q # p \/ u # "post" => snap'[q][u] = snap[q][u],
             state \in {"listing", "planned"} => Open(p) = {},
             row'.count = row.count,
             \/ row'.status \in {row.status, "failed"}
             \/ Open(p) = {}
      PROVE  DrainInv'
  <2>1. Course' /\ Copies' /\ Outstanding = Open(p) /\ Outstanding' = Open(p)'
    BY <1>1, <1>2, <1>3, <1>4, LeaderKeeps
  <2>2. Open(p)' = Open(p)
    BY <1>1, <1>4 DEF Open, Moved
  <2>3. Covered' /\ Waiting'
    BY <1>1, <1>4, <2>1, <2>2, FewerKeeps
  <2> QED
    BY <2>1, <2>3 DEF DrainInv
<1>5. ASSUME End(p, "post") \/ Requeue(p, "post"),
             row'.count = row.count,
             \/ row'.status \in {row.status, "failed"}
             \/ Open(p) = {}
      PROVE  DrainInv'
  <2>1. Moved(p, "post", "none") \/ Moved(p, "post", "queued")
    BY <1>1, <1>5, HelpersMove
  <2> QED
    BY <1>1, <1>4, <1>5, <2>1, HelpersSnap
<1>6. ASSUME NEW state, Go(p, "post", state), UNCHANGED row,
             state \in {"listing", "planned"} => Open(p) = {}
      PROVE  DrainInv'
  BY <1>1, <1>4, <1>6, HelpersMove, HelpersSnap
<1>7. CASE PostRead(p)
  <2>1. row.status = "processing" => Open(p) = {}
    BY <1>1, <1>3, OutstandingIs DEF Waiting
  <2> QED
    BY <1>5, <1>6, <1>7, <2>1 DEF PostRead
<1>8. CASE PostDecide(p)
  <2>1. Open(p) = {}
    BY <1>1, <1>8 DEF PostDecide, Stages, At
  <2>2. SetStatus(row, "completed").count = row.count
    BY <1>1, StatusNames, SetStatusIs
  <2> QED
    BY <1>5, <1>6, <1>8, <2>1, <2>2 DEF PostDecide
<1>9. CASE PostFails(p)
  BY <1>5, <1>6, <1>9 DEF PostFails
<1>10. CASE DeadLetter(p, "post")
  <2>1. SetStatus(row, "failed").count = row.count
        /\ SetStatus(row, "failed").status \in {row.status, "failed"}
    BY <1>1, StatusNames, SetStatusIs
  <2> QED
    BY <1>5, <1>10, <2>1 DEF DeadLetter
<1>11. CASE PostFinish(p)
  BY <1>5, <1>11 DEF PostFinish
<1>12. CASE PostSetFinalizing(p)
  <2>1. CASE End(p, "post") /\ (UNCHANGED row \/ (row' = SetFinalizing(row, Cardinality(Subtask)) /\ ~CanFinalize(row)))
    <3>1. row' = row
      BY <2>1 DEF SetFinalizing
    <3> QED
      BY <1>5, <2>1, <3>1
  <2>2. CASE /\ CanFinalize(row) /\ row' = SetFinalizing(row, Cardinality(Subtask))
             /\ pc' = [pc EXCEPT ![p] = [t \in Task |->
                         IF t \in Subtask THEN "planned"
                         ELSE IF t = "post" THEN "spawning" ELSE @[t]]]
             /\ UNCHANGED <<snap, tries>>
    <3>1. /\ \A s \in Subtask : pc'[p][s] = "planned"
          /\ pc'[p]["post"] = "spawning" /\ pc'[p]["process"] = pc[p]["process"]
          /\ Only(p)
      BY <1>1, <2>2 DEF TasksOK, Only
    <3>2. Turns' /\ ArmedIdle'
      BY <1>1, <1>2, <1>3, <3>1, TurnsStep
    <3>3. pc[p]["process"] = "none"
      BY <1>1, <1>2 DEF Stages, Alone, At
    <3>4. Opened'
      BY <1>1, <1>2, <1>3, <3>1 DEF Opened, Only, Alone, At
    <3>5. Stages'
      <4>1. \A q \in Parses : q # p => (/\ ~At(q, "process", "none") => Alone(q)
                                        /\ pc[q]["post"] \in {"listing", "planned"} => Open(q) = {})'
        BY <1>1, <3>1 DEF Stages, Alone, At, Only, Open
      <4> QED
        BY <3>1, <3>3, <4>1 DEF Stages, At
    <3>6. Copies'
      BY <1>1, <2>2, <3>1 DEF Copies, Only
    <3>7. Outstanding' = Subtask
      <4>1. Outstanding' = Open(p)'
        BY <1>1, <1>2, <1>3, <3>1, OutstandingIs
      <4> QED
        BY <3>1, <4>1 DEF Open
    <3>8. row'.status = "finalizing" /\ row'.count = Cardinality(Subtask)
          /\ Cardinality(Subtask) \in Nat
      BY <1>1, <2>2, Members, SetFinalizingIs
    <3> QED
      BY <3>2, <3>4, <3>5, <3>6, <3>7, <3>8 DEF DrainInv, Course, Covered, Waiting
  <2> QED
    BY <1>12, <2>1, <2>2 DEF PostSetFinalizing
<1>13. ASSUME NEW s \in Subtask, PostEnqueue(p, s) PROVE DrainInv'
  <2>1. PICK state \in {"queued", "short"} : Go(p, s, state)
    BY <1>13 DEF PostEnqueue
  <2>2. pc[p][s] = "planned" /\ UNCHANGED row
    BY <1>13 DEF PostEnqueue, At
  <2>3. Moved(p, s, state) /\ \A q \in Parses, u \in Task : q # p \/ u # s => snap'[q][u] = snap[q][u]
    BY <1>1, <2>1, HelpersMove, HelpersSnap
  <2>4. Course' /\ Copies' /\ Outstanding = Open(p) /\ Outstanding' = Open(p)'
    BY <1>1, <1>2, <1>3, <2>2, <2>3, LeaderKeeps
  <2>5. Open(p)' \subseteq Open(p)
    BY <1>1, <2>2, <2>3 DEF Open, Moved
  <2> QED
    BY <1>1, <2>2, <2>4, <2>5, FewerKeeps DEF DrainInv
<1>14. ASSUME NEW s \in Subtask, PostRelease(p, s) PROVE DrainInv'
  <2>1. pc[p][s] = "short" /\ row' = Decrement(row) /\ Go(p, s, "drained")
    BY <1>14 DEF PostRelease, At
  <2>2. Moved(p, s, "drained")
        /\ \A q \in Parses, u \in Task : q # p \/ u # s => snap'[q][u] = snap[q][u]
    BY <1>1, <2>1, HelpersMove, HelpersSnap
  <2>3. Course' /\ Copies' /\ Outstanding = Open(p) /\ Outstanding' = Open(p)'
    BY <1>1, <1>2, <1>3, <2>1, <2>2, LeaderKeeps
  <2> QED
    BY <1>1, <2>1, <2>2, <2>3, DrainKeeps DEF DrainInv
<1> QED
  BY <1>7, <1>8, <1>9, <1>10, <1>11, <1>12, <1>13, <1>14 DEF PostStep

LEMMA SubtaskDrains ==
    ASSUME IInv, DrainInv, NEW p \in Parses, NEW s \in Subtask, SubtaskStep(p, s)
    PROVE  DrainInv'
<1>1. /\ TypeOK /\ Course /\ Turns /\ Opened /\ Copies /\ Covered /\ Waiting /\ SummaryOnly
      /\ TasksOK /\ s \in Task /\ Subtask \subseteq Task /\ s # "process" /\ s # "post"
      /\ Summary \subseteq Subtask /\ row \in Rows /\ row.count \in Nat /\ snap[p][s] \in Rows
  BY Members, PipelineAssumption DEF IInv, DrainInv, Course, TypeOK, TasksOK, Rows
<1>2. pc[p][s] # "none" /\ attempt' = attempt /\ UNCHANGED <<op, armed>>
  <2>1. pc[p][s] # "none" /\ attempt' = attempt
    BY DEF SubtaskStep, SubtaskStart, SubtaskRead, SummaryAnnounce, SummarySave, SummaryGivesUp,
           SubtaskStore, SubtaskFails, Drain, TryPromote, At, NotMine
  <2> QED
    BY <2>1, TasksLeave DEF userVars
<1>3. CASE SubtaskStart(p, s) /\ attemptSuperseded(p)
  <2>1. Moved(p, s, "none") /\ UNCHANGED row
        /\ \A q \in Parses, u \in Task : q # p \/ u # s => snap'[q][u] = snap[q][u]
    BY <1>1, <1>3, HelpersMove, HelpersSnap DEF SubtaskStart
  <2>2. /\ \A q \in Parses, u \in Task : pc'[q][u] \in {pc[q][u], "none"}
        /\ \A q \in Parses, u \in Task : pc'[q][u] # "none" => snap'[q][u] = snap[q][u]
    BY <2>1 DEF Moved
  <2>3. Course' /\ Copies' /\ Outstanding' \subseteq Outstanding
    BY <1>1, <1>2, <2>2, ShrinkKeeps
  <2> QED
    BY <1>1, <2>1, <2>3, FewerKeeps DEF DrainInv
<1>4. ASSUME ~(SubtaskStart(p, s) /\ attemptSuperseded(p)) PROVE Leads(p) /\ attempt[p] # 0
  <2>1. CASE SubtaskStart(p, s)
    BY <1>1, <1>2, <1>4, <2>1, Leading
  <2>2. CASE ~SubtaskStart(p, s)
    <3>1. pc[p][s] # "queued"
      BY <2>2 DEF SubtaskStep, SubtaskRead, SummaryAnnounce, SummarySave, SummaryGivesUp,
                  SubtaskStore, SubtaskFails, Drain, TryPromote, At
    <3> QED
      BY <1>1, <1>2, <3>1, Leading DEF Rested
  <2> QED
    BY <2>1, <2>2
<1>5. ASSUME NEW state, Moved(p, s, state), ~(SubtaskStart(p, s) /\ attemptSuperseded(p)),
             \A q \in Parses, u \in Task : q # p \/ u # s => snap'[q][u] = snap[q][u],
             state \notin {"listing", "planned"}, pc[p][s] = "drained" => state = "none",
             s \in Summary /\ state \in {"announcing", "lacking", "working"} =>
                snap'[p][s].status \notin {"processing", "completed"},
             row'.count = row.count,
             row'.status \in {"processing", "completed"} =>
                row'.status = row.status \/ Outstanding = {}
      PROVE  DrainInv'
  <2>1. Course' /\ Copies' /\ Outstanding = Open(p) /\ Outstanding' = Open(p)'
    BY <1>1, <1>2, <1>4, <1>5, LeaderKeeps
  <2>2. Open(p)' \subseteq Open(p)
    BY <1>1, <1>2, <1>5 DEF Open, Moved
  <2>3. row'.status \in {"processing", "completed"} =>
           row'.status = row.status \/ Outstanding' = {}
    BY <1>5, <2>1, <2>2
  <2> QED
    BY <1>1, <1>5, <2>1, <2>2, <2>3, FewerKeeps DEF DrainInv
<1>6. ASSUME NEW state, Go(p, s, state) \/ Leave(p, s, state), pc[p][s] \notin {"drained", "queued"},
             state \notin {"listing", "planned"},
             state \in {"announcing", "lacking", "working"} =>
                s \notin Summary \/
                (Go(p, s, state) /\ snap[p][s].status \notin {"processing", "completed"}),
             UNCHANGED row \/
             (row' = SaveRow(row, snap[p][s])
                /\ snap[p][s].status \notin {"processing", "completed"})
      PROVE  DrainInv'
  <2>1. Moved(p, s, state)
        /\ \A q \in Parses, u \in Task : q # p \/ u # s => snap'[q][u] = snap[q][u]
    BY <1>1, <1>6, HelpersMove, HelpersSnap
  <2>2. ~SubtaskStart(p, s)
    BY <1>6 DEF SubtaskStart, At
  <2>3. s \in Summary /\ state \in {"announcing", "lacking", "working"} =>
           snap'[p][s].status \notin {"processing", "completed"}
    BY <1>6 DEF Go
  <2>4. row'.count = row.count
        /\ (row'.status \in {"processing", "completed"} => row'.status = row.status)
    BY <1>1, <1>6, SaveRowIs
  <2> QED
    BY <1>5, <1>6, <2>1, <2>2, <2>3, <2>4
<1>7. ASSUME SubtaskStart(p, s), ~attemptSuperseded(p) PROVE DrainInv'
  <2>1. Go(p, s, "begun") /\ UNCHANGED row /\ pc[p][s] = "queued"
    BY <1>7 DEF SubtaskStart, At
  <2>2. Moved(p, s, "begun")
        /\ \A q \in Parses, u \in Task : q # p \/ u # s => snap'[q][u] = snap[q][u]
    BY <1>1, <2>1, HelpersMove, HelpersSnap
  <2> QED
    BY <1>5, <1>7, <2>1, <2>2
<1>8. CASE SubtaskRead(p, s)
  <2>1. pc[p][s] = "begun" /\ UNCHANGED row
    BY <1>8 DEF SubtaskRead, At
  <2>2. CASE Go(p, s, "exiting") \/ (s \notin Summary /\ Go(p, s, "working"))
    BY <1>6, <2>1, <2>2
  <2>3. CASE Hold(p, s, "announcing", row)
    <3>1. Moved(p, s, "announcing") /\ snap'[p][s] = row
          /\ \A q \in Parses, u \in Task : q # p \/ u # s => snap'[q][u] = snap[q][u]
      BY <1>1, <2>3, HelpersMove, HelpersSnap DEF Hold, TasksOK
    <3>2. ~SubtaskStart(p, s)
      BY <2>1 DEF SubtaskStart, At
    <3>3. row.status \notin {"processing", "completed"}
      <4>1. s \in Outstanding
        BY <1>1, <1>4, <2>1, <3>2, OutstandingIs DEF Open
      <4> QED
        BY <1>1, <4>1 DEF Waiting
    <3> QED
      BY <1>5, <2>1, <3>1, <3>2, <3>3
  <2> QED
    BY <1>8, <2>2, <2>3 DEF SubtaskRead
<1>9. CASE SummaryAnnounce(p, s)
  <2>1. pc[p][s] = "announcing" /\ s \in Summary
    BY <1>1, <1>9 DEF SummaryAnnounce, SummaryOnly, At
  <2>2. snap[p][s].status \notin {"processing", "completed"}
    BY <1>1, <2>1 DEF Copies
  <2> QED
    BY <1>6, <1>9, <2>1, <2>2 DEF SummaryAnnounce
<1>10. CASE SummarySave(p, s) \/ SummaryGivesUp(p, s)
  <2>1. pc[p][s] \in {"lacking", "working"} /\ s \in Summary
    BY <1>10 DEF SummarySave, SummaryGivesUp, At
  <2>2. snap[p][s].status \notin {"processing", "completed"}
    BY <1>1, <2>1 DEF Copies
  <2> QED
    BY <1>6, <1>10, <2>1, <2>2 DEF SummarySave, SummaryGivesUp
<1>11. CASE SubtaskStore(p, s)
  BY <1>6, <1>11 DEF SubtaskStore, At
<1>12. CASE SubtaskFails(p, s)
  <2>1. CASE Requeue(p, s)
    <3>1. Moved(p, s, "queued") /\ ~SubtaskStart(p, s) /\ UNCHANGED row /\ pc[p][s] # "drained"
          /\ \A q \in Parses, u \in Task : q # p \/ u # s => snap'[q][u] = snap[q][u]
      BY <1>1, <1>12, <2>1, HelpersMove, HelpersSnap DEF SubtaskFails, SubtaskStart, At
    <3> QED
      BY <1>5, <3>1
  <2> QED
    BY <1>6, <1>12, <2>1 DEF SubtaskFails
<1>13. CASE Drain(p, s)
  <2>1. pc[p][s] = "exiting" /\ row' = Decrement(row) /\ Go(p, s, "drained")
    BY <1>13 DEF Drain, At
  <2>2. Moved(p, s, "drained") /\ ~SubtaskStart(p, s)
        /\ \A q \in Parses, u \in Task : q # p \/ u # s => snap'[q][u] = snap[q][u]
    BY <1>1, <2>1, HelpersMove, HelpersSnap DEF SubtaskStart, At
  <2>3. Course' /\ Copies' /\ Outstanding = Open(p) /\ Outstanding' = Open(p)'
    BY <1>1, <1>2, <1>4, <2>1, <2>2, LeaderKeeps
  <2> QED
    BY <1>1, <2>1, <2>2, <2>3, DrainKeeps DEF DrainInv
<1>14. CASE TryPromote(p, s)
  <2>1. pc[p][s] = "drained" /\ row' = Promote(row) /\ End(p, s)
    BY <1>14 DEF TryPromote, At
  <2>2. Moved(p, s, "none") /\ ~SubtaskStart(p, s)
        /\ \A q \in Parses, u \in Task : q # p \/ u # s => snap'[q][u] = snap[q][u]
    BY <1>1, <2>1, HelpersMove, HelpersSnap DEF SubtaskStart, At
  <2>3. row'.count = row.count /\ (row'.status # row.status => row.count = 0)
    BY <1>1, <2>1, PromoteIs
  <2>4. row.count = 0 => Outstanding = {}
    <3>1. Outstanding \subseteq Subtask /\ IsFiniteSet(Outstanding)
      BY PipelineAssumption, FS_Subset DEF Outstanding
    <3>2. Cardinality(Outstanding) \in Nat /\ (Cardinality(Outstanding) = 0 <=> Outstanding = {})
      BY <3>1, FS_CardinalityType, FS_EmptySet
    <3> QED
      BY <1>1, <3>2 DEF Covered
  <2> QED
    BY <1>5, <2>1, <2>2, <2>3, <2>4
<1> QED
  BY <1>3, <1>7, <1>8, <1>9, <1>10, <1>11, <1>12, <1>13, <1>14 DEF SubtaskStep

LEMMA CrashDrains ==
    ASSUME IInv, DrainInv, NEW p \in Parses, NEW t \in Task, Crash(p, t)
    PROVE  DrainInv'
<1>1. /\ TypeOK /\ Turns /\ Opened /\ ArmedIdle /\ Stages /\ Copies /\ Covered /\ Waiting
      /\ TasksOK /\ "process" \in Task /\ "post" \in Task /\ Subtask \subseteq Task
      /\ "process" \notin Subtask /\ "post" \notin Subtask /\ Summary \subseteq Subtask
  BY Members, PipelineAssumption DEF IInv, DrainInv, Course, TypeOK, TasksOK
<1>2. /\ pc[p][t] \notin {"none", "queued", "short", "drained"}
      /\ Only(p) /\ attempt' = attempt /\ row' = row
      /\ pc'[p][t] \in {"queued", "none"}
      /\ \A u \in Task : u # t => pc'[p][u] \in {pc[p][u], "none"} /\ snap'[p][u] = snap[p][u]
      /\ \A q \in Parses, u \in Task : q # p => snap'[q][u] = snap[q][u]
  BY <1>1 DEF Crash, TasksOK, Only
<1>3. Leads(p) /\ (t # "process" => attempt[p] # 0)
  <2>1. t \in Subtask \/ t = "process" \/ t = "post"
    BY DEF Task
  <2>2. ~Rested(p)
    BY <1>1, <1>2, <2>1 DEF Rested, At
  <2> QED
    BY <1>1, <1>2, <2>2, Leading
<1>4. Turns' /\ ArmedIdle'
  BY <1>1, <1>2, <1>3, TasksLeave, TurnsStep DEF userVars
<1>5. Opened'
  <2> SUFFICES ASSUME NEW q \in Parses, attempt[q] = 0
               PROVE  pc'[q]["process"] \in Early /\ Alone(q)'
    BY <1>2 DEF Opened
  <2>1. pc[q]["process"] \in Early /\ \A u \in Task \ {"process"} : pc[q][u] = "none"
    BY <1>1 DEF Opened, Alone, At
  <2>2. CASE q # p
    BY <1>1, <1>2, <2>1, <2>2 DEF Only, Alone, At
  <2>3. CASE q = p
    <3>1. t = "process" /\ \A u \in Task \ {"process"} : pc'[p][u] = "none"
      BY <1>2, <1>3, <2>1, <2>3
    <3> QED
      BY <1>2, <2>3, <3>1 DEF Alone, At, Early
  <2> QED
    BY <2>2, <2>3
<1>6. Open(p)' \subseteq Open(p)
  BY <1>1, <1>2 DEF Open
<1>7. Stages'
  <2> SUFFICES ASSUME NEW q \in Parses
               PROVE  (/\ ~At(q, "process", "none") => Alone(q)
                       /\ pc[q]["post"] \in {"listing", "planned"} => Open(q) = {})'
    BY DEF Stages
  <2>1. CASE q # p
    BY <1>1, <1>2, <2>1 DEF Stages, Only, Alone, At, Open
  <2>2. CASE q = p
    <3>1. pc'[p]["process"] # "none" => pc[p]["process"] # "none"
      BY <1>1, <1>2
    <3>2. pc'[p]["process"] # "none" => \A u \in Task \ {"process"} : pc'[p][u] = "none"
      <4> SUFFICES ASSUME pc'[p]["process"] # "none", NEW u \in Task \ {"process"}
                   PROVE  pc'[p][u] = "none"
        OBVIOUS
      <4>1. pc[p][u] = "none"
        BY <1>1, <3>1 DEF Stages, Alone, At
      <4> QED
        BY <1>2, <4>1
    <3>3. pc'[p]["post"] \in {"listing", "planned"} => pc[p]["post"] \in {"listing", "planned"}
      BY <1>1, <1>2
    <3>4. pc'[p]["post"] \in {"listing", "planned"} => Open(p)' = {}
      BY <1>1, <1>6, <3>3 DEF Stages
    <3> QED
      BY <2>2, <3>2, <3>4 DEF Alone, At
  <2> QED
    BY <2>1, <2>2
<1>8. Copies'
  <2> SUFFICES ASSUME NEW q \in Parses, NEW u \in Summary,
                      pc'[q][u] \in {"announcing", "lacking", "working"}
               PROVE  snap'[q][u].status \notin {"processing", "completed"}
    BY DEF Copies
  <2>1. pc'[q][u] = pc[q][u] /\ snap'[q][u] = snap[q][u]
    BY <1>1, <1>2 DEF Only
  <2> QED
    BY <1>1, <2>1 DEF Copies
<1>9. Outstanding' \subseteq Outstanding
  BY <1>1, <1>2, <1>3, <1>6, OutstandingIs
<1> QED
  BY <1>1, <1>2, <1>4, <1>5, <1>7, <1>8, <1>9, FewerKeeps DEF DrainInv, Course

\* Between its attempt and its enqueueing a reparse has the row to itself.
LEMMA ReparseAlone ==
    ASSUME TypeOK, Course, Copies, "reparse" \in Ops,
           op["reparse"] \notin {"idle", "opening", "done"},
           NEW state \in {"saving", "resetting", "enqueueing", "done"}, op'["reparse"] = state,
           UNCHANGED <<attempt, armed, snap>>,
           \A q \in Parses, t \in Task : q # "reparse" \/ t # "process" => pc'[q][t] = pc[q][t],
           state # "done" => pc'["reparse"]["process"] = "none"
    PROVE  Course' /\ Copies' /\ Outstanding' = {}
<1>1. /\ "reparse" \in Parses /\ "upload" \in Parses /\ "process" \in Task /\ "post" \in Task
      /\ Subtask \subseteq Task /\ Summary \subseteq Subtask /\ "process" \notin Subtask
      /\ "post" # "process"
  BY Members, PipelineAssumption DEF Parses
<1>2. Turns /\ Opened /\ ArmedIdle /\ Stages
  BY DEF Course
<1>3. /\ attempt["reparse"] # 0 /\ attempt["upload"] < attempt["reparse"] /\ Rested("upload")
      /\ \A t \in Task : pc["reparse"][t] = "none"
      /\ ~armed
  BY <1>2 DEF Turns, ArmedIdle, At
<1>4. /\ \A t \in Task \ {"process"} : pc'["reparse"][t] = "none"
      /\ \A t \in Task : pc'["upload"][t] = pc["upload"][t]
  BY <1>1, <1>3
<1>5. Turns'
  <2>1. Rested("upload")'
    BY <1>1, <1>3, <1>4 DEF Rested, At
  <2>2. op'["reparse"] # "done" => \A t \in Task : pc'["reparse"][t] = "none"
    BY <1>4
  <2> QED
    BY <1>3, <2>1, <2>2 DEF Turns, At
<1>6. Opened'
  BY <1>1, <1>2, <1>3, <1>4, ParsesAre DEF Opened, Alone, At
<1>7. ArmedIdle'
  BY <1>3 DEF ArmedIdle
<1>8. Stages'
  <2> SUFFICES ASSUME NEW q \in Parses
               PROVE  (/\ ~At(q, "process", "none") => Alone(q)
                       /\ pc[q]["post"] \in {"listing", "planned"} => Open(q) = {})'
    BY DEF Stages
  <2>1. CASE q = "upload"
    BY <1>1, <1>2, <1>4, <2>1 DEF Stages, Alone, At, Open
  <2>2. CASE q = "reparse"
    BY <1>1, <1>4, <2>2 DEF Alone, At
  <2> QED
    BY <2>1, <2>2, ParsesAre
<1>9. Copies'
  BY <1>1, <1>4, ParsesAre DEF Copies
<1>10. Outstanding' = {}
  <2>1. Leads("reparse") /\ Only("reparse")
    BY <1>1, <1>3 DEF Leads, Only
  <2>2. Outstanding' = Open("reparse")'
    BY <1>1, <1>2, <2>1, OutstandingIs
  <2> QED
    BY <1>1, <1>4, <2>2 DEF Open
<1> QED
  BY <1>5, <1>6, <1>7, <1>8, <1>9, <1>10 DEF Course

\* Where nothing is outstanding the row may say anything.
LEMMA NothingLeft ==
    ASSUME TypeOK', Outstanding' = {}
    PROVE  Covered' /\ Waiting'
<1>1. row'.count \in Nat /\ Cardinality({}) = 0
  BY FS_EmptySet DEF TypeOK, Rows
<1> QED
  BY <1>1 DEF Covered, Waiting

LEMMA ReparseDrains ==
    ASSUME IInv, DrainInv, Calm, TypeOK',
           \/ ReparseRead \/ ReparseOpen \/ ReparseClean
           \/ ReparseSave \/ ReparseReset \/ ReparseEnqueue
    PROVE  DrainInv'
<1>1. /\ TypeOK /\ Course /\ Turns /\ Opened /\ ArmedIdle /\ Stages /\ Copies
      /\ Covered /\ Waiting /\ TasksOK /\ OpsOK
      /\ "reparse" \in Ops /\ "reparse" \in Parses /\ "upload" \in Parses
      /\ "process" \in Task /\ "post" \in Task /\ Subtask \subseteq Task /\ QuietReparse
  BY Members
  DEF IInv, DrainInv, Course, TypeOK, TasksOK, OpsOK, OpAt, Parses, Calm,
      ReparseRead, ReparseOpen, ReparseClean, ReparseSave, ReparseReset, ReparseEnqueue
<1>2. snap' = snap /\ armed' = armed
  BY DEF ReparseRead, ReparseOpen, ReparseClean, ReparseSave, ReparseReset, ReparseEnqueue, NotTheirs
<1>3. \A state : OpGo("reparse", state) \/ (\E mem : OpHold("reparse", state, mem)) =>
        op'["reparse"] = state
  BY <1>1 DEF OpGo, OpHold, OpsOK
<1>4. OpEnd("reparse") => op'["reparse"] = "done"
  BY <1>1 DEF OpEnd, OpHold, OpsOK
<1>5. CASE ReparseRead
  <2>1. Quiet /\ op["reparse"] = "idle" /\ op'["reparse"] = "opening" /\ UNCHANGED <<row, attempt, pc>>
    BY <1>1, <1>3, <1>5 DEF ReparseRead, OpAt
  <2>2. Turns'
    BY <1>1, <2>1 DEF Turns, At
  <2>3. ArmedIdle'
    BY <1>2, <2>1 DEF ArmedIdle, Quiet
  <2>4. Opened' /\ Stages' /\ Copies'
    BY <1>1, <1>2, <2>1 DEF Opened, Alone, Stages, Copies, At, Open
  <2>5. Covered' /\ Waiting'
    <3>1. row' = row /\ Outstanding' = Outstanding
      BY <2>1 DEF Outstanding, LatestAttempt
    <3> QED
      BY <1>1, <3>1 DEF Covered, Waiting
  <2> QED
    BY <2>2, <2>3, <2>4, <2>5 DEF DrainInv, Course
<1>6. CASE ReparseOpen
  <2>1. /\ Quiet /\ op["reparse"] = "opening" /\ op'["reparse"] = "cleaning" /\ UNCHANGED <<row, pc>>
        /\ attempt' = [attempt EXCEPT !["reparse"] = LatestAttempt + 1]
    BY <1>1, <1>3, <1>6 DEF ReparseOpen, OpAt, OpenAttempt
  <2>2. /\ attempt' \in [Parses -> Nat] /\ attempt'["reparse"] # 0
        /\ attempt'["upload"] = attempt["upload"] /\ attempt'["upload"] < attempt'["reparse"]
        /\ attempt'["reparse"] <= LatestAttempt' /\ LatestAttempt' \in Nat
    <3>1. /\ attempt \in [Parses -> Nat] /\ attempt["upload"] <= LatestAttempt
          /\ LatestAttempt \in Nat
      BY <1>1, LatestIs DEF TypeOK
    <3>2. attempt' \in [Parses -> Nat] /\ "upload" # "reparse"
      BY DEF TypeOK
    <3>3. attempt'["reparse"] = LatestAttempt + 1 /\ attempt'["upload"] = attempt["upload"]
      BY <1>1, <2>1, <3>1, <3>2
    <3>4. attempt'["reparse"] <= LatestAttempt' /\ LatestAttempt' \in Nat
      BY <1>1, <3>2, LatestNext
    <3> QED
      BY <1>1, <3>1, <3>2, <3>3, <3>4
  <2>3. \A t \in Task : pc["reparse"][t] = "none"
    BY <1>1, <2>1 DEF Turns, At
  <2>4. Rested("upload")
    BY <1>1, <2>1 DEF Quiet, Rested, At
  <2>5. Turns'
    BY <2>1, <2>2, <2>3, <2>4 DEF Turns, Rested, At
  <2>6. ArmedIdle'
    BY <1>2, <2>1 DEF ArmedIdle, Quiet
  <2>7. Opened'
    BY <1>1, <2>1, <2>2, ParsesAre DEF Opened, Alone, At
  <2>8. Stages' /\ Copies'
    BY <1>1, <1>2, <2>1 DEF Alone, Stages, Copies, At, Open
  <2>9. Outstanding' = {}
    <3>1. attempt'["upload"] # LatestAttempt'
      BY <1>1, <2>2
    <3>2. \A s \in Subtask : pc'["reparse"][s] = "none"
      BY <1>1, <2>1, <2>3
    <3> QED
      BY <3>1, <3>2, ParsesAre DEF Outstanding
  <2> QED
    BY <2>5, <2>6, <2>7, <2>8, <2>9, NothingLeft DEF DrainInv, Course
<1>7. CASE ReparseClean \/ ReparseSave \/ ReparseReset
  <2>1. /\ op["reparse"] \notin {"idle", "opening", "done"} /\ UNCHANGED <<attempt, pc>>
        /\ op'["reparse"] \in {"saving", "resetting", "enqueueing", "done"}
    BY <1>1, <1>3, <1>4, <1>7 DEF ReparseClean, ReparseSave, ReparseReset, OpAt
  <2>2. \A t \in Task : pc'["reparse"][t] = "none"
    BY <1>1, <2>1 DEF Turns, At
  <2>3. Course' /\ Copies' /\ Outstanding' = {}
    BY <1>1, <1>2, <2>1, <2>2, ReparseAlone
  <2> QED
    BY <2>3, NothingLeft DEF DrainInv
<1>8. CASE ReparseEnqueue
  <2>1. op["reparse"] = "enqueueing" /\ op'["reparse"] = "done" /\ UNCHANGED attempt
    BY <1>1, <1>4, <1>8 DEF ReparseEnqueue, OpAt
  <2>2. \A q \in Parses, t \in Task : q # "reparse" \/ t # "process" => pc'[q][t] = pc[q][t]
    BY <1>1, <1>8 DEF ReparseEnqueue, TasksOK
  <2>3. Course' /\ Copies' /\ Outstanding' = {}
    BY <1>1, <1>2, <2>1, <2>2, ReparseAlone
  <2> QED
    BY <2>3, NothingLeft DEF DrainInv
<1> QED
  BY <1>5, <1>6, <1>7, <1>8

LEMMA DeleteDrains ==
    ASSUME IInv, DrainInv,
           \/ DeleteRead \/ DeleteMark \/ DeleteDequeue \/ DeleteClean \/ DeleteRemove
    PROVE  DrainInv'
<1>1. /\ TypeOK /\ Course /\ Copies /\ Covered /\ Waiting /\ OpsOK /\ row \in Rows
      /\ "delete" \in Ops /\ opSnap["delete"] \in Rows
  BY DEF IInv, DrainInv, TypeOK, OpsOK, OpAt,
         DeleteRead, DeleteMark, DeleteDequeue, DeleteClean, DeleteRemove
<1>2. attempt' = attempt /\ armed' = armed /\ snap' = snap
  BY DEF DeleteRead, DeleteMark, DeleteDequeue, DeleteClean, DeleteRemove, Dequeue, NotTheirs
<1>3. "reparse" \in Ops => op'["reparse"] = op["reparse"]
  BY <1>1 DEF DeleteRead, DeleteMark, DeleteDequeue, DeleteClean, DeleteRemove, Dequeue,
              OpGo, OpHold, OpEnd, OpsOK
<1>4. \A q \in Parses, u \in Task : pc'[q][u] \in {pc[q][u], "none"}
  BY DEF DeleteRead, DeleteMark, DeleteDequeue, DeleteClean, DeleteRemove, Dequeue, At
<1>5. row'.count = row.count /\ row'.status \in {row.status, "deleting"}
  <2>1. CASE UNCHANGED row
    BY <2>1
  <2>2. CASE DeleteMark
    <3>1. /\ WithStatus(opSnap["delete"], "deleting") \in Rows
          /\ WithStatus(opSnap["delete"], "deleting").status = "deleting"
      BY <1>1, StatusNames, WithStatusType
    <3> QED
      BY <1>1, <2>1, <2>2, <3>1, SaveRowIs DEF DeleteMark
  <2>3. CASE DeleteRemove
    BY <1>1, <2>3, SoftDeleteIs DEF DeleteRemove
  <2> QED
    BY <2>1, <2>2, <2>3 DEF DeleteRead, DeleteDequeue, DeleteClean, Dequeue
<1>6. Course' /\ Copies' /\ Outstanding' \subseteq Outstanding
  BY <1>1, <1>2, <1>3, <1>4, ShrinkKeeps
<1> QED
  BY <1>1, <1>5, <1>6, FewerKeeps DEF DrainInv

LEMMA HousekeepingDrains ==
    ASSUME IInv, DrainInv, TypeOK', HousekeepingProbe \/ HousekeepingSweep
    PROVE  DrainInv'
<1>1. /\ Turns /\ Opened /\ ArmedIdle /\ Stages /\ Copies /\ Covered /\ Waiting
      /\ Subtask \subseteq Task /\ Summary \subseteq Subtask
  BY Members, PipelineAssumption DEF DrainInv, Course
<1>2. UNCHANGED <<attempt, pc, snap, op>>
  BY DEF HousekeepingProbe, HousekeepingSweep, taskVars, userVars
<1>3. Turns' /\ Opened' /\ Stages' /\ Copies'
  BY <1>1, <1>2 DEF Turns, Opened, Stages, Copies, Rested, Alone, At, Open
<1>4. CASE HousekeepingProbe
  <2>1. ArmedIdle'
    BY <1>2, <1>4 DEF HousekeepingProbe, ArmedIdle, InQueue, At
  <2>2. row' = row /\ Outstanding' = Outstanding
    BY <1>2, <1>4 DEF HousekeepingProbe, Outstanding, LatestAttempt
  <2> QED
    BY <1>1, <1>3, <2>1, <2>2 DEF DrainInv, Course, Covered, Waiting
<1>5. CASE HousekeepingSweep
  <2>1. ArmedIdle'
    BY <1>5 DEF HousekeepingSweep, ArmedIdle
  <2>2. Outstanding' = {}
    BY <1>1, <1>2, <1>5 DEF HousekeepingSweep, ArmedIdle, InQueue, At, Outstanding
  <2> QED
    BY <1>3, <2>1, <2>2, NothingLeft DEF DrainInv, Course
<1> QED
  BY <1>4, <1>5

LEMMA DrainInit == Init => DrainInv
<1> SUFFICES ASSUME Init PROVE DrainInv
  OBVIOUS
<1>1. /\ attempt = [p \in Parses |-> 0] /\ armed = FALSE /\ row = NoRow
      /\ "upload" \in Parses /\ "process" \in Task /\ "post" \in Task
      /\ Subtask \subseteq Task /\ Summary \subseteq Subtask
      /\ "process" \notin Subtask /\ "post" \notin Subtask
  BY Members, PipelineAssumption DEF Init
<1>2. /\ \A p \in Parses, t \in Task : pc[p][t] \in {"none", "queued"}
      /\ \A p \in Parses, t \in Task : p # "upload" \/ t # "process" => pc[p][t] = "none"
  <2>1. PICK state \in {"queued", "none"} :
          pc = [p \in Parses |-> [t \in Task |->
                  IF p = "upload" /\ t = "process" THEN state ELSE "none"]]
    BY DEF Init
  <2> QED
    BY <2>1
<1>3. "reparse" \in Ops => op["reparse"] \in {"idle", "done"} /\ "reparse" \in Parses
  <2>1. PICK calls \in kSubset(MaxOps, Ops) :
          op = [o \in Ops |-> IF o \in calls THEN "idle" ELSE "done"]
    BY DEF Init
  <2> QED
    BY <2>1 DEF Parses
<1>4. Turns /\ ArmedIdle
  BY <1>1, <1>2, <1>3 DEF Turns, ArmedIdle, At
<1>5. Opened /\ Stages /\ Copies
  BY <1>1, <1>2 DEF Opened, Stages, Copies, Alone, Early, At
<1>6. Outstanding = {} /\ row.count = 0
  BY <1>1, <1>2 DEF Outstanding, NoRow
<1>7. Covered /\ Waiting
  BY <1>6, FS_EmptySet DEF Covered, Waiting
<1> QED
  BY <1>4, <1>5, <1>7 DEF DrainInv, Course

LEMMA DrainStep ==
    ASSUME Calm
    PROVE  IInv /\ DrainInv /\ [Next]_vars => DrainInv'
<1> SUFFICES ASSUME IInv, DrainInv, [Next]_vars PROVE DrainInv'
  OBVIOUS
<1>1. TypeOK'
  BY TypeStep DEF IInv
<1>2. ASSUME NEW p \in Parses,
             \/ ProcessStep(p) \/ PostStep(p)
             \/ \E s \in Subtask : SubtaskStep(p, s)
             \/ \E t \in Task : Crash(p, t)
      PROVE  DrainInv'
  BY <1>2, ProcessDrains, PostDrains, SubtaskDrains, CrashDrains
<1>3. ~(CancelRead \/ CancelWrite \/ CancelDequeue)
  BY DEF Calm, CancelRead, CancelWrite, CancelDequeue, OpAt
<1>4. CASE CallStep \/ ReparseRead \/ DeleteRead
  BY <1>1, <1>3, <1>4, ReparseDrains, DeleteDrains DEF CallStep
<1>5. CASE HousekeepingProbe \/ HousekeepingSweep
  BY <1>1, <1>5, HousekeepingDrains
<1>6. CASE UNCHANGED vars
  <2>1. UNCHANGED <<attempt, pc, snap, op, armed, row>>
    BY <1>6 DEF vars, taskVars, userVars
  <2>2. Course' /\ Copies'
    BY <2>1 DEF DrainInv, Course, Turns, Opened, ArmedIdle, Stages, Copies, Rested, Alone,
                InQueue, At, Open
  <2>3. Covered' /\ Waiting'
    <3>1. row' = row /\ Outstanding' = Outstanding
      BY <2>1 DEF Outstanding, LatestAttempt
    <3> QED
      BY <3>1 DEF DrainInv, Covered, Waiting
  <2> QED
    BY <2>2, <2>3 DEF DrainInv
<1> QED
  BY <1>2, <1>3, <1>4, <1>5, <1>6 DEF Next

\* For a user who reparses only when no handler runs, and who does not cancel,
\* a completed document has no subtask of its latest attempt outstanding: what
\* an older parse left in the queue neither drains the new counter nor writes a
\* copy that completes the row (attemptSuperseded, FinalizeSubtask).
THEOREM CompletionWaits ==
    ASSUME Calm
    PROVE  Spec => []CompletedOnlyWhenDrained
<1>1. IInv /\ DrainInv /\ [Next]_vars => (IInv /\ DrainInv)'
  BY StepInv, DrainStep
<1>2. Init => IInv /\ DrainInv
  BY InitInv, DrainInit
<1>3. DrainInv => CompletedOnlyWhenDrained
  BY DEF DrainInv, Waiting, CompletedOnlyWhenDrained
<1> QED
  BY <1>1, <1>2, <1>3, PTL DEF Spec
=============================================================================
