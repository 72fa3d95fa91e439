----------------------------- MODULE OneDecision -----------------------------
(***************************************************************************)
(* What the approval gate promises, with no channel, no timer, no replica  *)
(* and no Redis in sight: a call that asks gets at most one decision, it   *)
(* never changes, and a caller of Resolve who is told "ok" is the one who  *)
(* decided.  ApprovalGate is shown to implement this module.               *)
(***************************************************************************)
CONSTANTS
    Call,       \* the tool calls that ask
    Resolver,   \* the answers users send
    Target,     \* the call each answer is about
    Decider,    \* who may decide: the resolvers, the timer, the context
    None,
    Pending,    \* what a caller of Resolve that has not returned is told
    Reply       \* what Resolve may return, "ok" among it

VARIABLES
    decision,   \* who decided each call, or None
    told        \* what each caller of Resolve has been told

vars == <<decision, told>>

Init ==
    /\ decision = [c \in Call |-> None]
    /\ told \in [Resolver -> Pending]

Decide(c, d) ==
    /\ decision[c] = None
    /\ decision' = [decision EXCEPT ![c] = d]

\* A caller is answered once.
Tell(r, s) ==
    /\ told[r] \in Pending
    /\ s = "ok" => decision'[Target[r]] = r
    /\ told' = [told EXCEPT ![r] = s]

\* The winner may be told in the very step in which it decides.
Next ==
    \/ \E c \in Call, d \in Decider : Decide(c, d) /\ UNCHANGED told
    \/ \E r \in Resolver, s \in Reply \cup Pending : Tell(r, s) /\ UNCHANGED decision
    \/ \E r \in Resolver : Decide(Target[r], r) /\ Tell(r, "ok")

Spec == Init /\ [][Next]_vars
=============================================================================
