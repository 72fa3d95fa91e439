---------------------------- MODULE SubtaskFanIn ----------------------------
(***************************************************************************)
(* What the enrichment fan-out promises, with no counter, no queue and no  *)
(* worker in sight: one parse of one document, the set of enrichment       *)
(* subtasks it still owes, and the rule that the document is complete only *)
(* when nothing is owed.  The code has a number where this module has a    *)
(* set; the modules that model the code are shown to implement this one.   *)
(***************************************************************************)
CONSTANT Subtask

VARIABLES
    phase,   \* "parsing", "finalizing", "completed" or "failed"
    owed     \* the subtasks the document still waits for

vars == <<phase, owed>>

Init ==
    /\ phase = "parsing"
    /\ owed = {}

\* The parse hands over to the subtasks in S.
FanOut(S) ==
    /\ phase = "parsing"
    /\ S # {}
    /\ phase' = "finalizing"
    /\ owed' = S

\* There is nothing to enrich.
CompleteAtOnce ==
    /\ phase = "parsing"
    /\ phase' = "completed"
    /\ UNCHANGED owed

\* One owed subtask has come to its end, whichever way it ended.
Settle(s) ==
    /\ phase = "finalizing"
    /\ s \in owed
    /\ owed' = owed \ {s}
    /\ UNCHANGED phase

Complete ==
    /\ phase = "finalizing"
    /\ owed = {}
    /\ phase' = "completed"
    /\ UNCHANGED owed

\* Also after completion: a dead-lettered post-process task fails its document
\* whatever became of it meanwhile.
GiveUp ==
    /\ phase # "failed"
    /\ phase' = "failed"
    /\ owed' = {}

Next ==
    \/ \E S \in SUBSET Subtask : FanOut(S)
    \/ CompleteAtOnce
    \/ \E s \in Subtask : Settle(s)
    \/ Complete
    \/ GiveUp

Spec == Init /\ [][Next]_vars
=============================================================================
