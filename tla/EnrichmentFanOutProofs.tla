----------------------- MODULE EnrichmentFanOutProofs -----------------------
(***************************************************************************)
(* The theorems about EnrichmentFanOut, for every finite set of subtasks   *)
(* and every retry budget.                                                 *)
(*                                                                         *)
(* The counter equals a cardinality, so the invariants are not inductive   *)
(* alone: one must also know that no slot exists before the hand-over to   *)
(* "finalizing" (or seeding would miss it), that a Handle which has        *)
(* finished left no slot behind without an owner or a recorded fault, and  *)
(* that in a finalizing row somebody who has still to drain or to promote  *)
(* is left.                                                                *)
(***************************************************************************)
EXTENDS EnrichmentFanOut, FiniteSetTheorems, TLAPS

\* The row of a document nobody cancels, deletes or reparses.
RowLive ==
    /\ row.deleted = FALSE
    /\ row.status \in {"processing", "finalizing", "completed", "failed"}

\* Slots come into being with the hand-over, not before.
NoSlotBeforeHandover ==
    row.status = "processing" => \A s \in Subtask : slot[s] = "none"

\* Between its read and its write Handle is alone with the row, and it goes on
\* to enqueue only after the hand-over.
HandleAndRow ==
    /\ post = "planned" => row.status = "processing"
    /\ post \in {"enqueueing", "releasing"} => row.status # "processing"

\* What Handle has still to do is possible only while it runs.
HandleOwnsItsSlots ==
    /\ \A s \in Subtask : slot[s] = "planned" => post = "enqueueing"
    /\ \A s \in Subtask :
         slot[s] \in {"short", "released"} => post \in {"enqueueing", "releasing"}

\* A slot without an owner is a recorded fault, and so is a Handle that ended
\* without handing the document on.
LossIsFault ==
    /\ \A s \in Subtask : slot[s] = "lost" => fault
    /\ post = "done" /\ row.status = "processing" => fault

\* Somebody is left who will drain or promote a finalizing row.
SomebodyLeft ==
    row.status = "finalizing" /\ ~fault =>
        \E s \in Subtask : slot[s] \in Counted \cup {"drained", "released"}

IInv ==
    /\ TypeOK
    /\ RowLive
    /\ CounterExact
    /\ CompletedOnlyWhenDrained
    /\ NoSlotBeforeHandover
    /\ HandleAndRow
    /\ HandleOwnsItsSlots
    /\ LossIsFault
    /\ SomebodyLeft

-----------------------------------------------------------------------------
(* Counting *)

\* The slots are finitely many.
LEMMA OwedFinite ==
    /\ IsFiniteSet(Owed)
    /\ Cardinality(Owed) \in Nat
    /\ Cardinality(Owed) = 0 <=> Owed = {}
BY SubtaskAssumption, FS_Subset, FS_CardinalityType, FS_EmptySet DEF Owed

\* Moving one slot between two states that are both counted, or both not,
\* leaves the owed set alone.
LEMMA OwedKept ==
    ASSUME TypeOK, NEW s \in Subtask, NEW v,
           slot' = [slot EXCEPT ![s] = v],
           v \in Counted <=> slot[s] \in Counted
    PROVE  Owed' = Owed
BY DEF TypeOK, Owed

\* Draining one slot takes exactly it out of the owed set.
LEMMA OwedDrained ==
    ASSUME TypeOK, NEW s \in Subtask, NEW v,
           slot' = [slot EXCEPT ![s] = v],
           slot[s] \in Counted, v \notin Counted
    PROVE  /\ Cardinality(Owed) > 0
           /\ Cardinality(Owed') = Cardinality(Owed) - 1
<1>1. Owed' = Owed \ {s} /\ s \in Owed
  BY DEF TypeOK, Owed
<1>2. Cardinality(Owed \ {s}) = Cardinality(Owed) - 1
  BY <1>1, OwedFinite, FS_RemoveElement
<1> QED
  BY <1>1, <1>2, OwedFinite

\* What a Handle leaves behind was counted before and still is.
LEMMA OwedAbandoned ==
    ASSUME TypeOK, Abandon
    PROVE  Owed' = Owed
BY DEF TypeOK, Abandon, Owed, Counted

\* A decrement while finalizing meets a positive counter.
LEMMA DrainStep ==
    ASSUME IInv, NEW s \in Subtask, NEW v \in {"drained", "released"},
           slot[s] \in Counted, slot[s] # "planned",
           slot' = [slot EXCEPT ![s] = v], row' = Decrement(row)
    PROVE  /\ CounterExact'
           /\ row'.status = row.status /\ row'.deleted = row.deleted
           /\ row'.count \in Nat
           /\ row' \in Rows
<1>1. Cardinality(Owed) > 0 /\ Cardinality(Owed') = Cardinality(Owed) - 1
  BY OwedDrained DEF IInv, Counted
<1> QED
  BY <1>1 DEF IInv, TypeOK, Rows, RowLive, CounterExact, Decrement

\* A promotion happens only when nothing is owed, and leaves nothing owed.
LEMMA PromoteStep ==
    ASSUME IInv, NEW s \in Subtask, slot[s] \in {"drained", "released"},
           slot' = [slot EXCEPT ![s] = "settled"], row' = Promote(row)
    PROVE  /\ Owed' = Owed
           /\ CounterExact'
           /\ CompletedOnlyWhenDrained'
           /\ row' \in Rows
           /\ row'.deleted = FALSE
           /\ row'.status \in {row.status, "completed"}
           /\ row'.status = "finalizing" => Owed' # {}
<1>1. Owed' = Owed
  BY OwedKept DEF IInv, Counted
<1> QED
  BY <1>1, OwedFinite DEF IInv, TypeOK, Rows, RowLive, CounterExact,
     CompletedOnlyWhenDrained, Promote, ParseStatuses

-----------------------------------------------------------------------------
(* The invariant *)

\* A retry is taken only while the budget lasts.
LEMMA RetryType ==
    ASSUME TypeOK, NEW t \in Subtask \cup {"post"}, CanRetry(t), Retry(t)
    PROVE  tries' \in [Subtask \cup {"post"} -> 0..MaxRetry]
<1>1. tries[t] + 1 \in 0..MaxRetry
  BY MaxRetryAssumption DEF TypeOK, CanRetry
<1> QED
  BY <1>1 DEF TypeOK, Retry

\* The row processChunks saved satisfies the invariant.
LEMMA InitInv == Init => IInv
<1> SUFFICES ASSUME Init PROVE IInv
  OBVIOUS
<1>1. tries \in [Subtask \cup {"post"} -> 0..MaxRetry]
  BY MaxRetryAssumption DEF Init
<1>2. TypeOK
  BY <1>1 DEF Init, TypeOK, Rows, ParseStatuses, PostStates, SlotStates
<1> QED
  BY <1>2 DEF Init, IInv, RowLive, CounterExact, CompletedOnlyWhenDrained,
     NoSlotBeforeHandover, HandleAndRow, HandleOwnsItsSlots,
     LossIsFault, SomebodyLeft

(***************************************************************************)
(* Every step keeps the invariant: one step of the proof per action.       *)
(***************************************************************************)
LEMMA NextInv == IInv /\ [Next]_vars => IInv'
<1> SUFFICES ASSUME IInv, [Next]_vars PROVE IInv'
  OBVIOUS
<1> USE DEF IInv, RowLive, CompletedOnlyWhenDrained, NoSlotBeforeHandover,
    HandleAndRow, HandleOwnsItsSlots, LossIsFault, SomebodyLeft
<1>1. ASSUME NEW S \in SUBSET Subtask, PostPlan(S)
      PROVE  IInv'
  <2>1. TypeOK'
    BY <1>1
    DEF PostPlan, TypeOK, PostStates, SlotStates, Rows, ParseStatuses
  <2>2. Owed' = Owed
    BY <1>1 DEF PostPlan, Owed
  <2> QED
    BY <1>1, <2>1, <2>2 DEF PostPlan, TypeOK, Counted, CounterExact
<1>2. ASSUME PostReadFails
      PROVE  IInv'
  <2>1. Owed' = Owed
    BY <1>2 DEF PostReadFails, Owed
  <2>2. CASE CanRetry("post")
    <3>1. tries' \in [Subtask \cup {"post"} -> 0..MaxRetry]
      BY <1>2, <2>2, RetryType DEF PostReadFails
    <3>2. UNCHANGED <<row, post, plan, slot, fault>>
      BY <1>2, <2>2 DEF PostReadFails
    <3> QED
      BY <2>1, <3>1, <3>2 DEF TypeOK, CounterExact
  <2>3. CASE ~CanRetry("post")
    <3>1. /\ row' = SetStatus(row, "failed") /\ post' = "done" /\ fault' = TRUE
          /\ UNCHANGED <<plan, slot, tries>>
      BY <1>2, <2>3 DEF PostReadFails
    <3>2. TypeOK'
      BY <3>1 DEF TypeOK, PostStates, Rows, ParseStatuses, SetStatus
    <3>3. row'.status = "failed" /\ row'.deleted = FALSE
      BY <3>1 DEF TypeOK, Rows, SetStatus
    <3>4. HandleAndRow' /\ HandleOwnsItsSlots'
      BY <1>2, <3>1, <3>3 DEF PostReadFails
    <3> QED
      BY <3>1, <3>2, <3>3, <3>4 DEF CounterExact
  <2> QED
    BY <2>2, <2>3
<1>3. ASSUME PostComplete
      PROVE  IInv'
  <2>1. TypeOK'
    BY <1>3
    DEF PostComplete, TypeOK, PostStates, SlotStates, Rows, ParseStatuses, SetStatus
  <2>2. Owed' = Owed
    BY <1>3 DEF PostComplete, Owed
  <2> QED
    BY <1>3, <2>1, <2>2 DEF PostComplete, TypeOK, Counted, CounterExact, SetStatus, Owed
<1>4. ASSUME PostSetFinalizing
      PROVE  IInv'
  <2>1. Cardinality(plan) \in Nat
    BY SubtaskAssumption, FS_Subset, FS_CardinalityType DEF TypeOK
  <2>2. CanFinalize(row)
    BY <1>4 DEF PostSetFinalizing, CanFinalize
  <2>3. row' = [row EXCEPT !.status = "finalizing", !.count = Cardinality(plan)]
    BY <1>4, <2>2 DEF PostSetFinalizing, SetFinalizing
  <2>4. /\ post' = "enqueueing"
        /\ slot' = [s \in Subtask |-> IF s \in plan THEN "planned" ELSE slot[s]]
        /\ UNCHANGED <<plan, tries, fault>>
    BY <1>4, <2>2 DEF PostSetFinalizing
  <2>5. TypeOK'
    BY <2>1, <2>3, <2>4
    DEF TypeOK, PostStates, SlotStates, Rows, ParseStatuses
  <2>6. Owed' = plan
    BY <1>4, <2>4 DEF PostSetFinalizing, TypeOK, Owed, Counted
  <2> QED
    BY <1>4, <2>3, <2>4, <2>5, <2>6
    DEF PostSetFinalizing, TypeOK, Rows, Counted, CounterExact
<1>5. ASSUME PostWriteFails
      PROVE  IInv'
  <2>1. TypeOK'
    BY <1>5
    DEF PostWriteFails, TypeOK, PostStates, SlotStates, Rows, ParseStatuses
  <2>2. Owed' = Owed
    BY <1>5 DEF PostWriteFails, Owed
  <2> QED
    BY <1>5, <2>1, <2>2 DEF PostWriteFails, TypeOK, Counted, CounterExact
<1>6. ASSUME NEW s \in Subtask, PostEnqueue(s)
      PROVE  IInv'
  <2>1. TypeOK'
    BY <1>6
    DEF PostEnqueue, TypeOK, PostStates, SlotStates, Rows, ParseStatuses
  <2>2. Owed' = Owed
    BY <1>6, OwedKept DEF PostEnqueue, Counted
  <2> QED
    BY <1>6, <2>1, <2>2 DEF PostEnqueue, TypeOK, Counted, CounterExact
<1>7. ASSUME NEW s \in Subtask, PostEnqueueFails(s)
      PROVE  IInv'
  <2>1. TypeOK'
    BY <1>7
    DEF PostEnqueueFails, TypeOK, PostStates, SlotStates, Rows, ParseStatuses
  <2>2. Owed' = Owed
    BY <1>7, OwedKept DEF PostEnqueueFails, Counted
  <2> QED
    BY <1>7, <2>1, <2>2 DEF PostEnqueueFails, TypeOK, Counted, CounterExact
<1>8. ASSUME NEW s \in Subtask, PostLosesWiki(s)
      PROVE  IInv'
  <2>1. TypeOK'
    BY <1>8
    DEF PostLosesWiki, TypeOK, PostStates, SlotStates, Rows, ParseStatuses
  <2>2. Owed' = Owed
    BY <1>8, OwedKept DEF PostLosesWiki, Counted
  <2> QED
    BY <1>8, <2>1, <2>2 DEF PostLosesWiki, TypeOK, Counted, CounterExact
<1>9. ASSUME NEW s \in Subtask, PostRelease(s)
      PROVE  IInv'
  <2>1. TypeOK'
    BY <1>9, DrainStep
    DEF PostRelease, TypeOK, PostStates, SlotStates, Rows, ParseStatuses, Counted, Decrement
  <2>2. CounterExact' /\ row'.status = row.status /\ row'.deleted = row.deleted
    BY <1>9, DrainStep DEF PostRelease, Counted
  <2>3. Owed' \subseteq Owed
    BY <1>9 DEF PostRelease, TypeOK, Owed, Counted
  <2> QED
    BY <1>9, <2>1, <2>2, <2>3 DEF PostRelease, TypeOK, Counted
<1>10. ASSUME NEW s \in Subtask, PostReleasePromote(s)
      PROVE  IInv'
  <2>1. TypeOK'
    BY <1>10, PromoteStep
    DEF PostReleasePromote, TypeOK, PostStates, SlotStates, Rows, ParseStatuses
  <2>2. /\ Owed' = Owed /\ CounterExact' /\ CompletedOnlyWhenDrained'
        /\ row'.deleted = FALSE /\ row'.status \in {row.status, "completed"}
        /\ row'.status = "finalizing" => Owed' # {}
    BY <1>10, PromoteStep DEF PostReleasePromote
  <2> QED
    BY <1>10, <2>1, <2>2 DEF PostReleasePromote, TypeOK, Counted, Owed
<1>11. ASSUME PostReconcile
      PROVE  IInv'
  <2>1. TypeOK'
    BY <1>11
    DEF PostReconcile, TypeOK, PostStates, SlotStates, Rows, ParseStatuses
  <2>2. Owed' = Owed
    BY <1>11 DEF PostReconcile, Owed
  <2> QED
    BY <1>11, <2>1, <2>2 DEF PostReconcile, TypeOK, Counted, CounterExact
<1>12. ASSUME PostReleaseFails
      PROVE  IInv'
  <2>1. TypeOK'
    BY <1>12
    DEF PostReleaseFails, TypeOK, PostStates, SlotStates, Rows, ParseStatuses, Abandon
  <2>2. Owed' = Owed
    BY <1>12, OwedAbandoned DEF PostReleaseFails
  <2> QED
    BY <1>12, <2>1, <2>2 DEF PostReleaseFails, TypeOK, Counted, CounterExact, Abandon
<1>13. ASSUME PostFinish
      PROVE  IInv'
  <2>1. TypeOK'
    BY <1>13
    DEF PostFinish, TypeOK, PostStates, SlotStates, Rows, ParseStatuses
  <2>2. Owed' = Owed
    BY <1>13 DEF PostFinish, Owed
  <2> QED
    BY <1>13, <2>1, <2>2 DEF PostFinish, TypeOK, Counted, CounterExact
<1>14. ASSUME PostCrash
      PROVE  IInv'
  <2>1. TypeOK'
    BY <1>14, RetryType
    DEF PostCrash, TypeOK, PostStates, SlotStates, Rows, ParseStatuses, Abandon
  <2>2. Owed' = Owed
    BY <1>14, OwedAbandoned DEF PostCrash
  <2> QED
    BY <1>14, <2>1, <2>2 DEF PostCrash, TypeOK, Counted, CounterExact, Abandon
<1>15. ASSUME NEW s \in Subtask, Start(s)
      PROVE  IInv'
  <2>1. TypeOK'
    BY <1>15
    DEF Start, TypeOK, PostStates, SlotStates, Rows, ParseStatuses
  <2>2. Owed' = Owed
    BY <1>15, OwedKept DEF Start, Counted
  <2> QED
    BY <1>15, <2>1, <2>2 DEF Start, TypeOK, Counted, CounterExact
<1>16. ASSUME NEW s \in Subtask, Succeed(s)
      PROVE  IInv'
  <2>1. TypeOK'
    BY <1>16
    DEF Succeed, TypeOK, PostStates, SlotStates, Rows, ParseStatuses
  <2>2. Owed' = Owed
    BY <1>16, OwedKept DEF Succeed, Counted
  <2> QED
    BY <1>16, <2>1, <2>2 DEF Succeed, TypeOK, Counted, CounterExact
<1>17. ASSUME NEW s \in Subtask, Fail(s)
      PROVE  IInv'
  <2>1. TypeOK'
    BY <1>17, RetryType
    DEF Fail, TypeOK, PostStates, SlotStates, Rows, ParseStatuses
  <2>2. Owed' = Owed
    BY <1>17, OwedKept DEF Fail, Counted
  <2> QED
    BY <1>17, <2>1, <2>2 DEF Fail, TypeOK, Counted, CounterExact
<1>18. ASSUME NEW s \in Subtask, Drain(s)
      PROVE  IInv'
  <2>1. TypeOK'
    BY <1>18, DrainStep
    DEF Drain, TypeOK, PostStates, SlotStates, Rows, ParseStatuses, Counted
  <2>2. CounterExact' /\ row'.status = row.status /\ row'.deleted = row.deleted
    BY <1>18, DrainStep DEF Drain, Counted
  <2>3. Owed' \subseteq Owed
    BY <1>18 DEF Drain, TypeOK, Owed, Counted
  <2> QED
    BY <1>18, <2>1, <2>2, <2>3 DEF Drain, TypeOK, Counted
<1>19. ASSUME NEW s \in Subtask, DrainFails(s)
      PROVE  IInv'
  <2>1. TypeOK'
    BY <1>19
    DEF DrainFails, TypeOK, PostStates, SlotStates, Rows, ParseStatuses
  <2>2. Owed' = Owed
    BY <1>19, OwedKept DEF DrainFails, Counted
  <2> QED
    BY <1>19, <2>1, <2>2 DEF DrainFails, TypeOK, Counted, CounterExact
<1>20. ASSUME NEW s \in Subtask, TryPromote(s)
      PROVE  IInv'
  <2>1. TypeOK'
    BY <1>20, PromoteStep
    DEF TryPromote, TypeOK, PostStates, SlotStates, Rows, ParseStatuses
  <2>2. /\ Owed' = Owed /\ CounterExact' /\ CompletedOnlyWhenDrained'
        /\ row'.deleted = FALSE /\ row'.status \in {row.status, "completed"}
        /\ row'.status = "finalizing" => Owed' # {}
    BY <1>20, PromoteStep DEF TryPromote
  <2> QED
    BY <1>20, <2>1, <2>2 DEF TryPromote, TypeOK, Counted, Owed
<1>21. ASSUME NEW s \in Subtask, PromoteFails(s)
      PROVE  IInv'
  <2>1. TypeOK'
    BY <1>21
    DEF PromoteFails, TypeOK, PostStates, SlotStates, Rows, ParseStatuses
  <2>2. Owed' = Owed
    BY <1>21, OwedKept DEF PromoteFails, Counted
  <2> QED
    BY <1>21, <2>1, <2>2 DEF PromoteFails, TypeOK, Counted, CounterExact
<1>22. ASSUME NEW s \in Subtask, Crash(s)
      PROVE  IInv'
  <2>1. TypeOK'
    <3>1. tries' \in [Subtask \cup {"post"} -> 0..MaxRetry]
      BY <1>22, RetryType DEF Crash, TypeOK
    <3>2. slot' \in [Subtask -> SlotStates] /\ fault' \in BOOLEAN
      BY <1>22 DEF Crash, TypeOK, SlotStates
    <3> QED
      BY <1>22, <3>1, <3>2 DEF Crash, TypeOK
  <2>2. Owed' = Owed
    BY <1>22, OwedKept DEF Crash, Counted
  <2> QED
    BY <1>22, <2>1, <2>2 DEF Crash, TypeOK, Counted, CounterExact
<1>23. ASSUME Housekeeping
      PROVE  IInv'
  <2>1. TypeOK'
    BY <1>23
    DEF Housekeeping, TypeOK, PostStates, SlotStates, Rows, ParseStatuses, SweepStuck, InProgress
  <2>2. Owed' = Owed
    BY <1>23 DEF Housekeeping, Owed
  <2> QED
    BY <1>23, <2>1, <2>2 DEF Housekeeping, TypeOK, Counted, CounterExact, SweepStuck, InProgress, Live
<1>24. ASSUME HousekeepingBlind
       PROVE  IInv'
  <2>1. TypeOK'
    BY <1>24
    DEF HousekeepingBlind, TypeOK, PostStates, SlotStates, Rows, ParseStatuses, SweepStuck, InProgress
  <2>2. Owed' = Owed
    BY <1>24 DEF HousekeepingBlind, Owed
  <2> QED
    BY <1>24, <2>1, <2>2 DEF HousekeepingBlind, TypeOK, Counted, CounterExact, SweepStuck, InProgress, Live
<1>25. CASE UNCHANGED vars
  <2>1. Owed' = Owed
    BY <1>25 DEF vars, Owed
  <2> QED
    BY <1>25, <2>1 DEF vars, TypeOK, CounterExact
<1> QED
  BY <1>1, <1>2, <1>3, <1>4, <1>5, <1>6, <1>7, <1>8, <1>9, <1>10, <1>11, <1>12, <1>13, <1>14, <1>15, <1>16, <1>17, <1>18, <1>19, <1>20, <1>21, <1>22, <1>23, <1>24, <1>25
  DEF Next, PostStep, SubtaskStep

-----------------------------------------------------------------------------
(* The theorems *)

\* The strengthened invariant holds in every reachable state.
THEOREM Invariance == Spec => []IInv
BY InitInv, NextInv, PTL DEF Spec

\* Every variable keeps to its type, whatever fails: in particular the counter
\* never goes below zero.
THEOREM TypeCorrect == Spec => []TypeOK
BY Invariance, PTL DEF IInv

\* The counter is exact in every finalizing row (SetFinalizing, FinalizeSubtask
\* and the shortfall loop of KnowledgePostProcess.Handle).
THEOREM CounterIsExact == Spec => []CounterExact
BY Invariance, PTL DEF IInv

\* A completed document has no subtask outstanding (FinalizeSubtask).
THEOREM CompletedIsDrained == Spec => []CompletedOnlyWhenDrained
BY Invariance, PTL DEF IInv

(***************************************************************************)
(* Only three actions write "failed": two record a fault, and the sweep    *)
(* comes upon a document without one only past hidden backlog.             *)
(***************************************************************************)
LEMMA FailStep ==
    ASSUME IInv, [Next]_vars, row.status # "failed", row'.status = "failed"
    PROVE  fault' \/ HiddenBacklog # {}
<1>1. CASE PostReadFails \/ HousekeepingBlind
  BY <1>1 DEF PostReadFails, HousekeepingBlind
<1>2. CASE Housekeeping
  <2>1. CASE row.status = "processing"
    BY <1>2, <2>1 DEF Housekeeping, IInv, LossIsFault
  <2>2. CASE row.status = "finalizing" /\ ~fault
    <3>1. PICK s \in Subtask : slot[s] \in Counted \cup {"drained", "released"}
      BY <2>2 DEF IInv, SomebodyLeft
    <3>2. slot[s] \notin {"planned", "short", "released", "lost"}
      BY <1>2, <2>2 DEF Housekeeping, IInv, HandleOwnsItsSlots, LossIsFault
    <3>3. slot[s] \in Live
      BY <3>1, <3>2 DEF Counted, Live
    <3> QED
      BY <1>2, <3>3 DEF Housekeeping
  <2> QED
    BY <1>2, <2>1, <2>2 DEF Housekeeping, InProgress, IInv, RowLive
<1>3. CASE row' = row
  BY <1>3
<1>4. CASE PostComplete \/ PostSetFinalizing
  BY <1>4
  DEF PostComplete, PostSetFinalizing, SetStatus, SetFinalizing, IInv, TypeOK, Rows
<1>5. ASSUME NEW s \in Subtask, PostRelease(s) \/ Drain(s)
      PROVE  FALSE
  BY <1>5 DEF PostRelease, Drain, Decrement, IInv, TypeOK, Rows
<1>6. ASSUME NEW s \in Subtask, PostReleasePromote(s) \/ TryPromote(s)
      PROVE  FALSE
  BY <1>6 DEF PostReleasePromote, TryPromote, Promote, IInv, TypeOK, Rows
<1> QED
  BY <1>1, <1>2, <1>3, <1>4, <1>5, <1>6
  DEF Next, PostStep, SubtaskStep, vars, PostPlan, PostWriteFails, PostEnqueue,
      PostEnqueueFails, PostLosesWiki, PostReconcile, PostReleaseFails,
      PostFinish, PostCrash, Start, Succeed, Fail, DrainFails, PromoteFails, Crash

\* A failing subtask never fails its document: a recorded loss does, or a sweep
\* past wiki backlog the queue probe does not see (finalizeSubtaskDetached,
\* runSweep).
THEOREM FailureHasAReason == Spec => FailsForAReason
<1>1. IInv /\ [Next]_vars =>
        [row.status # "failed" /\ row'.status = "failed"
           => fault' \/ HiddenBacklog # {}]_vars
  BY FailStep
<1> QED
  BY Invariance, <1>1, PTL DEF Spec, FailsForAReason

-----------------------------------------------------------------------------
(* Refinement: the counter implements the set *)

\* A step that moves neither the status nor the owed set is invisible.
LEMMA Invisible ==
    ASSUME row'.status = row.status, Owed' = Owed
    PROVE  UNCHANGED Fanned!vars
BY DEF Fanned!vars

\* A drain settles one owed subtask, or is invisible when the document is over.
LEMMA DrainSettles ==
    ASSUME IInv, NEW s \in Subtask, NEW v \in {"drained", "released"},
           slot[s] \in Counted, slot[s] # "planned",
           slot' = [slot EXCEPT ![s] = v], row' = Decrement(row)
    PROVE  Fanned!Settle(s) \/ UNCHANGED Fanned!vars
<1>1. row'.status = row.status
  BY DrainStep
<1>2. s \in Owed /\ Owed' = Owed \ {s}
  BY DEF IInv, TypeOK, Owed, Counted
<1>3. CASE row.status = "finalizing"
  BY <1>1, <1>2, <1>3 DEF Fanned!Settle
<1>4. CASE row.status # "finalizing"
  BY <1>1, <1>4 DEF Fanned!vars
<1> QED
  BY <1>3, <1>4

\* A promotion that takes effect is the abstract completion.
LEMMA PromoteCompletes ==
    ASSUME IInv, NEW s \in Subtask, slot[s] \in {"drained", "released"},
           slot' = [slot EXCEPT ![s] = "settled"], row' = Promote(row)
    PROVE  Fanned!Complete \/ UNCHANGED Fanned!vars
<1>1. Owed' = Owed /\ CompletedOnlyWhenDrained'
  BY PromoteStep
<1>2. CASE row' = row
  BY <1>1, <1>2, Invisible
<1>3. CASE row' # row
  <2>1. row.status = "finalizing" /\ row'.status = "completed"
    BY <1>3 DEF Promote, IInv, TypeOK, Rows
  <2>2. Owed = {}
    BY <2>1, <1>1 DEF CompletedOnlyWhenDrained
  <2> QED
    BY <1>1, <2>1, <2>2 DEF Fanned!Complete
<1> QED
  BY <1>2, <1>3

\* A write of "failed" is the abstract giving up.
LEMMA FailingGivesUp ==
    ASSUME row'.status = "failed", row.status # "failed"
    PROVE  Fanned!GiveUp
BY DEF Fanned!GiveUp

\* The detailed specification starts where the abstract one does.
LEMMA InitRefines == Init => Fanned!Init
BY DEF Init, Fanned!Init

(***************************************************************************)
(* Every step of the detailed specification is a step of the abstract one  *)
(* or changes nothing that the abstract one shows.                         *)
(***************************************************************************)
LEMMA NextRefines == IInv /\ [Next]_vars => [Fanned!Next]_(Fanned!vars)
<1> SUFFICES ASSUME IInv, [Next]_vars
             PROVE  Fanned!Next \/ UNCHANGED Fanned!vars
  OBVIOUS
<1>1. CASE PostReadFails
  <2>1. CASE CanRetry("post")
    BY <1>1, <2>1, Invisible DEF PostReadFails, Owed
  <2>2. CASE ~CanRetry("post")
    <3>1. row'.status = "failed" /\ Owed' = Owed
      BY <1>1, <2>2 DEF PostReadFails, SetStatus, IInv, TypeOK, Rows, RowLive, Owed
    <3> QED
      BY <3>1, Invisible, FailingGivesUp DEF Fanned!Next
  <2> QED
    BY <2>1, <2>2
<1>2. CASE PostComplete
  <2>1. row.status = "processing" /\ row'.status = "completed"
    BY <1>2 DEF PostComplete, IInv, TypeOK, Rows, RowLive, HandleAndRow, SetStatus
  <2> QED
    BY <2>1 DEF Fanned!Next, Fanned!CompleteAtOnce
<1>3. CASE PostSetFinalizing
  <2>1. row.status = "processing" /\ CanFinalize(row)
    BY <1>3 DEF PostSetFinalizing, IInv, RowLive, HandleAndRow, CanFinalize
  <2>2. row'.status = "finalizing"
    BY <1>3, <2>1 DEF PostSetFinalizing, SetFinalizing, IInv, TypeOK, Rows
  <2>3. Owed' = plan /\ plan # {} /\ plan \in SUBSET Subtask
    BY <1>3, <2>1
    DEF PostSetFinalizing, IInv, NoSlotBeforeHandover, TypeOK, Owed, Counted
  <2>4. Fanned!FanOut(plan)
    BY <2>1, <2>2, <2>3 DEF Fanned!FanOut
  <2> QED
    BY <2>3, <2>4 DEF Fanned!Next
<1>4. ASSUME NEW s \in Subtask, PostRelease(s) \/ Drain(s)
      PROVE  Fanned!Next \/ UNCHANGED Fanned!vars
  BY <1>4, DrainSettles DEF PostRelease, Drain, Counted, Fanned!Next
<1>5. ASSUME NEW s \in Subtask, PostReleasePromote(s) \/ TryPromote(s)
      PROVE  Fanned!Next \/ UNCHANGED Fanned!vars
  BY <1>5, PromoteCompletes DEF PostReleasePromote, TryPromote, Fanned!Next
<1>6. CASE Housekeeping \/ HousekeepingBlind
  <2>1. row.status # "failed" /\ row'.status = "failed"
    BY <1>6
    DEF Housekeeping, HousekeepingBlind, SweepStuck, InProgress, IInv, TypeOK, Rows, RowLive
  <2> QED
    BY <2>1, FailingGivesUp DEF Fanned!Next
<1>7. CASE PostReleaseFails \/ PostCrash
  BY <1>7, OwedAbandoned, Invisible DEF PostReleaseFails, PostCrash, IInv
<1>8. ASSUME NEW s \in Subtask,
             \/ PostEnqueue(s) \/ PostEnqueueFails(s) \/ PostLosesWiki(s)
             \/ Start(s) \/ Succeed(s) \/ DrainFails(s) \/ PromoteFails(s)
      PROVE  Fanned!Next \/ UNCHANGED Fanned!vars
  <2>1. Owed' = Owed
    BY <1>8, OwedKept
    DEF PostEnqueue, PostEnqueueFails, PostLosesWiki, Start, Succeed,
        DrainFails, PromoteFails, Counted, IInv
  <2>2. row' = row
    BY <1>8
    DEF PostEnqueue, PostEnqueueFails, PostLosesWiki, Start, Succeed,
        DrainFails, PromoteFails
  <2> QED
    BY <2>1, <2>2, Invisible
<1>9. ASSUME NEW s \in Subtask, Fail(s) \/ Crash(s)
      PROVE  Fanned!Next \/ UNCHANGED Fanned!vars
  <2>1. Owed' = Owed
    BY <1>9, OwedKept DEF Fail, Crash, Counted, IInv
  <2> QED
    BY <1>9, <2>1, Invisible DEF Fail, Crash
<1>10. CASE \/ \E S \in SUBSET Subtask : PostPlan(S)
            \/ PostWriteFails \/ PostReconcile \/ PostFinish \/ UNCHANGED vars
  BY <1>10, Invisible
  DEF PostPlan, PostWriteFails, PostReconcile, PostFinish, vars, Owed
<1> QED
  BY <1>1, <1>2, <1>3, <1>4, <1>5, <1>6, <1>7, <1>8, <1>9, <1>10
  DEF Next, PostStep, SubtaskStep

\* Counter, queue, retries and crashes together behave like the plain set of
\* owed subtasks (KnowledgePostProcess.Handle, finalizeSubtaskDetached,
\* FinalizeSubtask).
THEOREM Refinement == Spec => Implements
<1>1. IInv /\ [Next]_vars => [Fanned!Next]_(Fanned!vars)
  BY NextRefines
<1> QED
  BY InitRefines, Invariance, <1>1, PTL DEF Spec, Implements, Fanned!Spec
=============================================================================
