------------------------ MODULE MCKnowledgePipeline ------------------------
(***************************************************************************)
(* One document with one summary and one question batch: the two kinds of  *)
(* subtask, the one that saves the whole row and the one that does not.    *)
(***************************************************************************)
EXTENDS KnowledgePipeline

CONSTANTS summary, batch

MCSubtask == {summary, batch}
MCSummary == {summary}
\* Where the kinds do not matter.
MCOneSubtask == {summary}
=============================================================================
