---------------------------- MODULE KnowledgeRow ----------------------------
(***************************************************************************)
(* One row of the knowledges table, and the statements the repository      *)
(* executes on it (internal/application/repository/knowledge.go) as        *)
(* functions from the row before to the row after.  Each operator is ONE   *)
(* SQL statement, so it is also the grain of atomicity of the modules that *)
(* use it: two statements of one Go function are two steps there.          *)
(*                                                                         *)
(* Kept of the row: parse_status, pending_subtasks_count and whether       *)
(* deleted_at is set.  Every statement but Save goes through gorm's        *)
(* soft-delete scope and does not touch a deleted row.                     *)
(***************************************************************************)
EXTENDS Integers

ParseStatuses == {"pending", "processing", "finalizing", "completed",
                  "failed", "deleting", "cancelled"}

\* The statuses housekeeping sweeps and CancelKnowledgeParse accepts.
InProgress == {"pending", "processing", "finalizing"}

\* The statuses at which a worker's checkpoint tells it to stop.
AbortStatuses == {"deleting", "cancelled"}

Rows == [status : ParseStatuses, count : Nat, deleted : BOOLEAN]

\* isKnowledgeAborted: a missing row counts as one that is being deleted.
Aborted(row) == row.deleted \/ row.status \in AbortStatuses

\* The row was cancelled and is still there: what has been written is kept.
Cancelled(row) == ~row.deleted /\ row.status = "cancelled"

-----------------------------------------------------------------------------
(***************************************************************************)
(* Faulty variants of the statements below.  They are not part of the      *)
(* model: the properties are shown to fail when one of them is used.       *)
(***************************************************************************)

\* Save without omitFieldsOnUpdate: the stale counter and deleted_at win.
SaveEveryColumn(row, mem) == mem

\* Save that omits the counter but not deleted_at.
SaveDeletedAt(row, mem) == [mem EXCEPT !.count = row.count]

\* A decrement that is not clamped and takes two slots.
DecrementTwice(row) ==
    IF ~row.deleted /\ row.count > 0
    THEN [row EXCEPT !.count = @ - 2] ELSE row

\* A promotion that does not test the counter.
PromoteEarly(row) ==
    IF ~row.deleted /\ row.status = "finalizing"
    THEN [row EXCEPT !.status = "completed"] ELSE row

\* A hand-over to finalizing that forgets the status guard.
SetFinalizingAlways(row, n) ==
    IF row.deleted THEN row
    ELSE [row EXCEPT !.status = "finalizing", !.count = n]

\* A sweep of the shape the code had before it learned about finalizing rows.
SweepProcessingOnly(row) ==
    IF ~row.deleted /\ row.status = "processing"
    THEN [row EXCEPT !.status = "failed", !.count = 0] ELSE row

-----------------------------------------------------------------------------

(***************************************************************************)
(* UpdateKnowledge: gorm's full-row Save of the in-memory struct mem, with *)
(* DeletedAt and PendingSubtasksCount omitted.  On a soft-deleted row the  *)
(* UPDATE matches nothing and Save falls back to INSERT ... ON CONFLICT,   *)
(* which again leaves the two omitted columns alone.                       *)
(***************************************************************************)
SaveRow(row, mem) == [mem EXCEPT !.count = row.count, !.deleted = row.deleted]

\* UpdateKnowledgeColumns / UpdateKnowledgeColumn, by the columns written.
SetStatus(row, s) == IF row.deleted THEN row ELSE [row EXCEPT !.status = s]

ResetCount(row) == IF row.deleted THEN row ELSE [row EXCEPT !.count = 0]

SetStatusResetCount(row, s) ==
    IF row.deleted THEN row ELSE [row EXCEPT !.status = s, !.count = 0]

\* SetFinalizing's WHERE clause, and the UPDATE itself.
CanFinalize(row) == ~row.deleted /\ row.status = "processing"

SetFinalizing(row, n) ==
    IF CanFinalize(row)
    THEN [row EXCEPT !.status = "finalizing", !.count = n] ELSE row

\* FinalizeSubtask, first statement: the clamped decrement.
Decrement(row) ==
    IF ~row.deleted /\ row.count > 0
    THEN [row EXCEPT !.count = @ - 1] ELSE row

\* FinalizeSubtask, second statement: the guarded promotion.
Promote(row) ==
    IF ~row.deleted /\ row.status = "finalizing" /\ row.count = 0
    THEN [row EXCEPT !.status = "completed"] ELSE row

\* Housekeeping's recovery UPDATE.
SweepStuck(row) ==
    IF ~row.deleted /\ row.status \in InProgress
    THEN [row EXCEPT !.status = "failed", !.count = 0] ELSE row

\* DeleteKnowledge: the soft delete.
SoftDelete(row) == [row EXCEPT !.deleted = TRUE]
=============================================================================
