---------------------------- MODULE ApprovalGate ----------------------------
(***************************************************************************)
(* The human-approval gate of MCP tool calls: a call registers a waiter on *)
(* its replica and blocks until a user's answer, a timeout or the request  *)
(* context decides; Resolve delivers an answer on the same replica, or     *)
(* publishes it over Redis so that the replica that owns the waiter does,  *)
(* and waits three seconds for that replica's ack.                         *)
(*                                                                         *)
(* A step ends where another goroutine can see or change something: the    *)
(* select, once.Do, the locked lookup, a publication, a receipt.  What a   *)
(* replica publishes reaches the owner of the waiter never, once or twice  *)
(* (a subscriber reconnects; the client retries a PUBLISH whose reply was  *)
(* lost); an ack reaches any part of those who listen.                     *)
(*                                                                         *)
(* Not modelled: the failure of EventBus.Emit (no handler of the two       *)
(* events returns an error), the crash of a replica (it takes its waiters  *)
(* and their agents along), the arguments a user may edit.                 *)
(***************************************************************************)
EXTENDS Sequences

CONSTANTS
    Call,        \* the waits: one per pending id
    Resolver,    \* the calls of Resolve: one per nonce
    Node,        \* the replicas
    Home,        \* the replica whose map holds a call's waiter
    Target,      \* the pending id a call of Resolve names
    Approving,   \* those that approve
    HasRedis,    \* whether the gate was given a Redis client
    FailClose    \* FMIND_AGENT_TOOL_APPROVAL_FAIL_OPEN is not set

None == "none"
Timer == "timer"
Ctx == "ctx"

ASSUME GateAssumption ==
    /\ Home \in [Call -> Node]
    /\ Target \in [Resolver -> Call]
    /\ Approving \subseteq Resolver
    /\ HasRedis \in BOOLEAN /\ FailClose \in BOOLEAN
    /\ Resolver \cap {None, Timer, Ctx} = {}

VARIABLES
    phase,   \* where the goroutine of a call is
    once,    \* waiter.once has run
    ch,      \* the decision in waiter.ch, by the name of who made it
    result,  \* the decision RequestAndWait returns
    rpc,     \* where a call of Resolve is, then what it returned
    from,    \* the replica that serves it, and who sends it
    owned,   \* the waiter of a call names a user: "" disables the user check
    inbox,   \* requests published and not yet received, per subscriber
    job,     \* the request a subscriber is working on: none or one
    acks     \* acks not yet read, per call of Resolve

vars == <<phase, once, ch, result, rpc, from, owned, inbox, job, acks>>

Decider == Resolver \cup {Timer, Ctx}

\* The waiter of the call is in its replica's map.
InMap == {"waiting", "expired", "canceled", "draining", "closing"}

Phases == {"idle", "ungated", "approved", "refused"} \cup InMap

Statuses ==
    {"ok", "not_found", "tenant_mismatch", "user_mismatch", "already_resolved"}

\* What Resolve returns; "error" is a failure of Redis.
Replies == Statuses \cup {"error"}

\* Resolve has not returned.
Open == {"idle", "delivering", "remote", "listening"}

Ack == [nonce : Resolver, status : Statuses]

\* "found" is the step between the lookup and the delivery.
Job == [req : Resolver, status : Statuses \cup {"found"}]

\* Who sends an answer, seen from the waiter.
Origin == [node : Node, who : {"owner", "other_user", "other_tenant"}]

\* The owner, and everybody of the tenant where the waiter has no user id.
Entitled(r) ==
    \/ from[r].who = "owner"
    \/ from[r].who = "other_user" /\ ~owned[Target[r]]

TypeOK ==
    /\ phase \in [Call -> Phases]
    /\ once \in [Call -> BOOLEAN]
    /\ ch \in [Call -> Decider \cup {None}]
    /\ result \in [Call -> Decider \cup {None}]
    /\ rpc \in [Resolver -> Open \cup Replies]
    /\ from \in [Resolver -> Origin]
    /\ owned \in [Call -> BOOLEAN]
    /\ inbox \in [Node -> Seq(Resolver)]
    /\ job \in [Node -> SUBSET Job]
    /\ acks \in [Resolver -> Seq(Ack)]

Init ==
    /\ phase = [c \in Call |-> "idle"]
    /\ once = [c \in Call |-> FALSE]
    /\ ch = [c \in Call |-> None]
    /\ result = [c \in Call |-> None]
    /\ rpc = [r \in Resolver |-> "idle"]
    /\ from \in [Resolver -> Origin]
    /\ owned \in [Call -> BOOLEAN]
    /\ inbox = [n \in Node |-> <<>>]
    /\ job = [n \in Node |-> {}]
    /\ acks = [r \in Resolver |-> <<>>]

-----------------------------------------------------------------------------
(***************************************************************************)
(* The waiter.  deliver sends once, and only into an empty channel; the    *)
(* loser learns that it lost.                                              *)
(***************************************************************************)
\* Faulty variant: a plain non-blocking send, without the once.
WinsUnlessFull(c) == ch[c] = None

Wins(c) == ~once[c] /\ ch[c] = None

\* Faulty variant: a channel without a buffer takes the decision only while
\* the select is reading it.
deliverUnbuffered(c, d) ==
    /\ once' = [once EXCEPT ![c] = TRUE]
    /\ ch' = IF Wins(c) /\ phase[c] = "waiting" THEN [ch EXCEPT ![c] = d] ELSE ch

deliver(c, d) ==
    /\ once' = [once EXCEPT ![c] = TRUE]
    /\ ch' = IF Wins(c) THEN [ch EXCEPT ![c] = d] ELSE ch

NeedsApproval(answer) == answer = "required" \/ (answer = "error" /\ FailClose)

-----------------------------------------------------------------------------
(***************************************************************************)
(* The tool call.                                                          *)
(***************************************************************************)
CallOnly == UNCHANGED <<rpc, from, owned, inbox, job, acks>>

\* MCPTool.Execute asks the checker, which may fail, and blocks if it must.
Execute(c) ==
    /\ phase[c] = "idle"
    /\ \E answer \in {"required", "free", "error"} :
          phase' = [phase EXCEPT ![c] =
                      IF NeedsApproval(answer) THEN "waiting" ELSE "ungated"]
    /\ UNCHANGED <<once, ch, result>> /\ CallOnly

\* A connection that needs the user's authorization blocks in the same way.
RequestOAuthAndWait(c) ==
    /\ phase[c] = "idle"
    /\ phase' = [phase EXCEPT ![c] = "waiting"]
    /\ UNCHANGED <<once, ch, result>> /\ CallOnly

\* The select, one action per branch; a branch may be taken although another
\* one is ready too.
TakeDecision(c) ==
    /\ phase[c] = "waiting" /\ ch[c] # None
    /\ result' = [result EXCEPT ![c] = ch[c]]
    /\ ch' = [ch EXCEPT ![c] = None]
    /\ phase' = [phase EXCEPT ![c] = "closing"]
    /\ UNCHANGED once /\ CallOnly

Expire(c) ==
    /\ phase[c] = "waiting"
    /\ phase' = [phase EXCEPT ![c] = "expired"]
    /\ UNCHANGED <<once, ch, result>> /\ CallOnly

Cancel(c) ==
    /\ phase[c] = "waiting"
    /\ phase' = [phase EXCEPT ![c] = "canceled"]
    /\ UNCHANGED <<once, ch, result>> /\ CallOnly

\* The timer and the context try to decide ...
DenyLate(c) ==
    /\ phase[c] \in {"expired", "canceled"}
    /\ deliver(c, IF phase[c] = "expired" THEN Timer ELSE Ctx)
    /\ phase' = [phase EXCEPT ![c] = "draining"]
    /\ UNCHANGED result /\ CallOnly

\* ... and return whatever has been decided.
Drain(c) ==
    /\ phase[c] = "draining" /\ ch[c] # None
    /\ result' = [result EXCEPT ![c] = ch[c]]
    /\ ch' = [ch EXCEPT ![c] = None]
    /\ phase' = [phase EXCEPT ![c] = "closing"]
    /\ UNCHANGED once /\ CallOnly

\* The entry leaves the map and the tool runs, or not.
Return(c) ==
    /\ phase[c] = "closing"
    /\ phase' = [phase EXCEPT ![c] =
                   IF result[c] \in Approving THEN "approved" ELSE "refused"]
    /\ UNCHANGED <<once, ch, result>> /\ CallOnly

-----------------------------------------------------------------------------
(***************************************************************************)
(* Resolve.                                                                *)
(***************************************************************************)
\* Faulty variant: whoever knows the pending id may answer.
LookupAnyone(n, r) ==
    IF phase[Target[r]] \notin InMap \/ Home[Target[r]] # n THEN "not_found" ELSE "found"

\* The part of deliverLocal that holds the lock.  A waiter without a user id,
\* of a run that has no principal, takes the answer of any user of the tenant.
Lookup(n, r) ==
    LET c == Target[r] IN
    CASE phase[c] \notin InMap \/ Home[c] # n -> "not_found"
      [] phase[c] \in InMap /\ Home[c] = n /\ from[r].who = "other_tenant" ->
            "tenant_mismatch"
      [] phase[c] \in InMap /\ Home[c] = n /\ from[r].who = "other_user" /\ owned[c] ->
            "user_mismatch"
      [] OTHER -> "found"

\* Faulty variant: the checks pass and nothing is delivered.
BeginWithoutDelivery(r, found) ==
    IF found = "not_found" /\ HasRedis THEN "remote" ELSE found

Begin(r, found) ==
    CASE found = "found" -> "delivering"
      [] found = "not_found" /\ HasRedis -> "remote"
      [] OTHER -> found

\* A pending id is known once its call has asked.
Resolve(r) ==
    /\ rpc[r] = "idle" /\ phase[Target[r]] \notin {"idle", "ungated"}
    /\ rpc' = [rpc EXCEPT ![r] = Begin(r, Lookup(from[r].node, r))]
    /\ UNCHANGED <<phase, once, ch, result, from, owned, inbox, job, acks>>

\* Faulty variant: "resolved" is loaded after the delivery that sets it.
DeliverThenLoad(r) ==
    /\ rpc[r] = "delivering"
    /\ deliver(Target[r], r)
    /\ rpc' = [rpc EXCEPT ![r] = "already_resolved"]
    /\ UNCHANGED <<phase, result, from, owned, inbox, job, acks>>

\* The rest of deliverLocal, without the lock: the waiter may have returned.
DeliverLocal(r) ==
    /\ rpc[r] = "delivering"
    /\ deliver(Target[r], r)
    /\ rpc' = [rpc EXCEPT ![r] =
                 IF Wins(Target[r]) THEN "ok" ELSE "already_resolved"]
    /\ UNCHANGED <<phase, result, from, owned, inbox, job, acks>>

\* How often a publication arrives where the waiter lives.  The other replicas
\* receive it too, find nothing and stay silent: their copies are left out.
Arrives(r) ==
    \E copies \in {<<>>, <<r>>, <<r, r>>} :
        inbox' = [inbox EXCEPT ![Home[Target[r]]] = @ \o copies]

\* The reply channel is open before the request is published.
Publish(r) ==
    /\ rpc[r] = "remote"
    /\ rpc' = [rpc EXCEPT ![r] = "listening"]
    /\ Arrives(r)
    /\ UNCHANGED <<phase, once, ch, result, from, owned, job, acks>>

\* The subscription failed, or the publication did as far as the client knows.
RedisFails(r) ==
    /\ rpc[r] = "remote"
    /\ rpc' = [rpc EXCEPT ![r] = "error"]
    /\ Arrives(r)
    /\ UNCHANGED <<phase, once, ch, result, from, owned, job, acks>>

\* Faulty variant: no nonce, so every ack about the pending id is one's own.
AnyAck(r, ack) == TRUE

Mine(r, ack) == ack.nonce = r

\* An ack for another call of Resolve is skipped.
ReceiveAck(r) ==
    /\ rpc[r] = "listening" /\ acks[r] # <<>>
    /\ IF Mine(r, Head(acks[r]))
       THEN /\ rpc' = [rpc EXCEPT ![r] = Head(acks[r]).status]
            /\ acks' = [acks EXCEPT ![r] = <<>>]
       ELSE /\ acks' = [acks EXCEPT ![r] = Tail(@)]
            /\ UNCHANGED rpc
    /\ UNCHANGED <<phase, once, ch, result, from, owned, inbox, job>>

\* Faulty variant: the deadline is looked at only when an ack has come in.
AckTimeoutOnReceipt(r) ==
    /\ rpc[r] = "listening" /\ acks[r] # <<>>
    /\ rpc' = [rpc EXCEPT ![r] = "not_found"]
    /\ acks' = [acks EXCEPT ![r] = <<>>]
    /\ UNCHANGED <<phase, once, ch, result, from, owned, inbox, job>>

\* Three seconds without an ack of one's own.
AckTimeout(r) ==
    /\ rpc[r] = "listening"
    /\ rpc' = [rpc EXCEPT ![r] = "not_found"]
    /\ acks' = [acks EXCEPT ![r] = <<>>]
    /\ UNCHANGED <<phase, once, ch, result, from, owned, inbox, job>>

-----------------------------------------------------------------------------
(***************************************************************************)
(* The subscriber of a replica.                                            *)
(***************************************************************************)
\* Own messages are skipped, and a replica without the waiter stays silent.
SubscriberReceive(n) ==
    /\ job[n] = {} /\ inbox[n] # <<>>
    /\ LET r == Head(inbox[n]) IN
       job' = [job EXCEPT ![n] =
                 IF from[r].node = n \/ Lookup(n, r) = "not_found" THEN {}
                 ELSE {[req |-> r, status |-> Lookup(n, r)]}]
    /\ inbox' = [inbox EXCEPT ![n] = Tail(@)]
    /\ UNCHANGED <<phase, once, ch, result, rpc, from, owned, acks>>

SubscriberDeliver(n) ==
    /\ \E j \in job[n] :
          /\ j.status = "found"
          /\ deliver(Target[j.req], j.req)
          /\ job' = [job EXCEPT ![n] = {[req |-> j.req, status |->
                       IF Wins(Target[j.req]) THEN "ok" ELSE "already_resolved"]}]
    /\ UNCHANGED <<phase, result, rpc, from, owned, inbox, acks>>

\* The reply channel is that of the pending id: everyone who waits for an ack
\* about the same call hears it, unless it is lost.
Listeners(r) == {q \in Resolver : rpc[q] = "listening" /\ Target[q] = Target[r]}

SubscriberReply(n) ==
    /\ \E j \in job[n] :
          /\ j.status # "found"
          /\ \E heard \in SUBSET Listeners(j.req) :
                acks' = [q \in Resolver |->
                    IF q \in heard
                    THEN Append(acks[q], [nonce |-> j.req, status |-> j.status])
                    ELSE acks[q]]
    /\ job' = [job EXCEPT ![n] = {}]
    /\ UNCHANGED <<phase, once, ch, result, rpc, from, owned, inbox>>

-----------------------------------------------------------------------------
CallStep(c) ==
    \/ Execute(c) \/ RequestOAuthAndWait(c)
    \/ TakeDecision(c) \/ Expire(c) \/ Cancel(c)
    \/ DenyLate(c) \/ Drain(c) \/ Return(c)

ResolveStep(r) ==
    \/ Resolve(r) \/ DeliverLocal(r)
    \/ Publish(r) \/ RedisFails(r) \/ ReceiveAck(r) \/ AckTimeout(r)

SubscriberStep(n) ==
    SubscriberReceive(n) \/ SubscriberDeliver(n) \/ SubscriberReply(n)

Next ==
    \/ \E c \in Call : CallStep(c)
    \/ \E r \in Resolver : ResolveStep(r)
    \/ \E n \in Node : SubscriberStep(n)

Spec == Init /\ [][Next]_vars

\* The timer fires and a goroutine that can go on does; no user, no
\* cancellation and no subscriber is relied upon.
Fairness ==
    /\ \A c \in Call :
          WF_vars(TakeDecision(c) \/ Expire(c) \/ DenyLate(c) \/ Drain(c) \/ Return(c))
    /\ \A r \in Resolver :
          WF_vars(DeliverLocal(r) \/ Publish(r) \/ RedisFails(r) \/ AckTimeout(r))

FairSpec == Spec /\ Fairness

-----------------------------------------------------------------------------
(***************************************************************************)
(* Properties.                                                             *)
(***************************************************************************)
\* The decision a call has got, taken from the channel or still in it.
Decision(c) == IF result[c] # None THEN result[c] ELSE ch[c]

\* Who is told "ok" made the decision the call returns: no timeout, no other
\* answer and no other replica has made it instead (deliver, the second read of
\* the channel in RequestAndWait, the nonce of resolveCrossInstance).
OkMeansMine == \A r \in Resolver : rpc[r] = "ok" => Decision(Target[r]) = r

\* A gated tool runs only on an approval given for this very call, on whichever
\* replica it came in, and by the one who started the session; where the waiter
\* names no user, by somebody of the tenant (deliverLocal, RequestAndWait,
\* MCPTool.Execute).
Consent ==
    \A c \in Call : phase[c] = "approved" =>
        \E r \in Approving :
            /\ result[c] = r /\ Target[r] = c
            /\ from[r].who # "other_tenant"
            /\ owned[c] => from[r].who = "owner"

\* No other replica can give the decision of this call of Resolve.
Near(r) == ~HasRedis \/ from[r].node = Home[Target[r]]

\* An answer that did not need Redis is exact: who called Resolve on the replica
\* of the waiter is told "ok" if and only if the own decision is the one that
\* counts (deliverLocal: resolved, once, the order of the two; nothing is
\* published once the waiter has been found).
AnswersExact ==
    \A r \in Resolver : Near(r) /\ rpc[r] \in Replies =>
        (rpc[r] = "ok" <=> Decision(Target[r]) = r)

\* A call that waits ends, whoever answers or does not: the loser of a race
\* never finds the channel empty (RequestAndWait, deliver).
WaitsEnd ==
    \A c \in Call : phase[c] = "waiting" ~> phase[c] \in {"approved", "refused"}

\* Resolve returns, whatever Redis and the other replicas do.
ResolvesEnd == \A r \in Resolver : rpc[r] # "idle" ~> rpc[r] \in Replies

\* Channel, replicas and Redis together keep the promise of OneDecision.
Abstract ==
    INSTANCE OneDecision WITH
        decision <- [c \in Call |-> Decision(c)], told <- rpc,
        Pending <- Open, Reply <- Replies

Implements == Abstract!Spec
=============================================================================
