------------------------- MODULE MCEnrichmentFanOut -------------------------
(***************************************************************************)
(* One document with a summary, a question batch and a wiki page: the      *)
(* smallest plan with two subtasks that the shortfall loop covers and one  *)
(* that it does not.  Each task may be retried once.                       *)
(***************************************************************************)
EXTENDS EnrichmentFanOut

CONSTANTS summary, batch, wiki

MCSubtask == {summary, batch, wiki}
MCWiki == {wiki}
=============================================================================
