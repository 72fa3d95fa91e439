--------------------------- MODULE MCApprovalGate ---------------------------
(***************************************************************************)
(* One call on one of two replicas, one answer that approves and one that  *)
(* rejects.  Each may come from the owner of the session, from somebody    *)
(* else of the tenant or from another tenant, and on either replica.       *)
(***************************************************************************)
EXTENDS ApprovalGate

CONSTANTS c1, n1, n2, yes, no

MCCall == {c1}
MCNode == {n1, n2}
MCResolver == {yes, no}
MCHome == [c \in Call |-> n1]
MCTarget == [r \in Resolver |-> c1]
MCApproving == {yes}
=============================================================================
