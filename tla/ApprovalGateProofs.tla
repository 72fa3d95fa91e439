------------------------- MODULE ApprovalGateProofs -------------------------
(***************************************************************************)
(* The theorems about ApprovalGate, for any number of calls, answers and   *)
(* replicas, with Redis or without it.                                     *)
(*                                                                         *)
(* "ok" travels: from the once.Do that was won to the job of a subscriber, *)
(* to an ack, to the caller.  The invariant says of each of these places   *)
(* what OkMeansMine says of the last one, and that a decision, once made,  *)
(* stays (nothing is delivered after once has run).                        *)
(***************************************************************************)
EXTENDS ApprovalGate, SequenceTheorems, TLAPS

\* The channel holds at most the first decision, and nothing once it is read.
Channel ==
    \A c \in Call :
        /\ ~once[c] => ch[c] = None /\ result[c] = None
        /\ ch[c] # None => result[c] = None

\* Every "ok" under way is true of the decision it speaks of.
OkInJobs ==
    \A n \in Node : \A j \in job[n] :
        j.status = "ok" => Decision(Target[j.req]) = j.req

OkInAcks ==
    \A q \in Resolver : \A i \in 1..Len(acks[q]) :
        acks[q][i].status = "ok" =>
            Decision(Target[acks[q][i].nonce]) = acks[q][i].nonce

\* Only who is entitled gets as far as the delivery.
OwnersDeliver ==
    /\ \A r \in Resolver : rpc[r] = "delivering" => Entitled(r)
    /\ \A n \in Node : \A j \in job[n] :
          j.status = "found" => Entitled(j.req)

OwnersDecide ==
    \A c \in Call : Decision(c) \in Resolver =>
        Target[Decision(c)] = c /\ Entitled(Decision(c))

ApprovedByApproval == \A c \in Call : phase[c] = "approved" => result[c] \in Approving

IInv ==
    /\ TypeOK /\ Channel
    /\ OkMeansMine /\ OkInJobs /\ OkInAcks
    /\ OwnersDeliver /\ OwnersDecide /\ ApprovedByApproval

-----------------------------------------------------------------------------
(* Types *)

\* The locked part of deliverLocal finds the waiter only for who is entitled.
LEMMA LookupFinds ==
    ASSUME TypeOK, NEW n \in Node, NEW r \in Resolver
    PROVE  /\ Lookup(n, r) \in {"found", "not_found", "tenant_mismatch", "user_mismatch"}
           /\ Lookup(n, r) = "found" => Entitled(r)
BY GateAssumption DEF Lookup, TypeOK, Origin, Entitled

LEMMA BeginOpens ==
    ASSUME TypeOK, NEW n \in Node, NEW r \in Resolver
    PROVE  /\ Begin(r, Lookup(n, r)) \in Open \cup Replies
           /\ Begin(r, Lookup(n, r)) # "ok"
           /\ Begin(r, Lookup(n, r)) = "delivering" => Entitled(r)
BY LookupFinds DEF Begin, Open, Replies, Statuses

\* Publishing lengthens one inbox by copies of the request.
LEMMA ArrivesType ==
    ASSUME NEW r \in Resolver, inbox \in [Node -> Seq(Resolver)], Arrives(r)
    PROVE  inbox' \in [Node -> Seq(Resolver)]
<1>1. PICK copies \in {<<>>, <<r>>, <<r, r>>} :
          inbox' = [inbox EXCEPT ![Home[Target[r]]] = @ \o copies]
  BY DEF Arrives
<1>2. copies \in Seq(Resolver)
  <2>1. <<>> \in Seq(Resolver) /\ <<r>> \in Seq(Resolver) /\ <<r, r>> \in Seq(Resolver)
    OBVIOUS
  <2> QED
    BY <2>1
<1>3. Home[Target[r]] \in Node
  BY GateAssumption
<1>4. inbox[Home[Target[r]]] \o copies \in Seq(Resolver)
  BY <1>2, <1>3, ConcatProperties
<1> QED
  BY <1>1, <1>3, <1>4

LEMMA TypeInvariant == TypeOK /\ [Next]_vars => TypeOK'
<1> SUFFICES ASSUME TypeOK, [Next]_vars PROVE TypeOK'
  OBVIOUS
<1> USE GateAssumption DEF TypeOK
<1>1. ASSUME NEW c \in Call, CallStep(c) PROVE TypeOK'
  BY <1>1, ZenonT(60)
  DEF CallStep, CallOnly, Execute, RequestOAuthAndWait, TakeDecision, Expire, Cancel,
      DenyLate, Drain, Return, deliver, Phases, InMap, Decider
<1>2. ASSUME NEW r \in Resolver, Resolve(r) \/ DeliverLocal(r) PROVE TypeOK'
  <2>1. CASE Resolve(r)
    <3>1. from[r].node \in Node
      BY DEF Origin
    <3> QED
      BY <2>1, <3>1, BeginOpens DEF Resolve
  <2>2. CASE DeliverLocal(r)
    BY <2>2 DEF DeliverLocal, deliver, Decider, Replies, Statuses
  <2> QED
    BY <1>2, <2>1, <2>2
<1>3. ASSUME NEW r \in Resolver, Publish(r) \/ RedisFails(r) PROVE TypeOK'
  BY <1>3, ArrivesType DEF Publish, RedisFails, Open, Replies
<1>4. ASSUME NEW r \in Resolver, ReceiveAck(r) PROVE TypeOK'
  <2>1. acks[r] \in Seq(Ack) /\ acks[r] # <<>>
    BY <1>4 DEF ReceiveAck
  <2>2. Head(acks[r]) \in Ack /\ Tail(acks[r]) \in Seq(Ack)
    BY <2>1, HeadTailProperties
  <2>3. Head(acks[r]).status \in Replies
    BY <2>2 DEF Ack, Replies
  <2>4. PICK rest \in Seq(Ack) : acks' = [acks EXCEPT ![r] = rest]
    <3>1. <<>> \in Seq(Ack)
      OBVIOUS
    <3> QED
      BY <1>4, <2>2, <3>1 DEF ReceiveAck
  <2>5. acks' \in [Resolver -> Seq(Ack)]
    BY <2>4
  <2>6. rpc' \in [Resolver -> Open \cup Replies]
    BY <1>4, <2>3 DEF ReceiveAck
  <2> QED
    BY <1>4, <2>5, <2>6 DEF ReceiveAck
<1>5. ASSUME NEW r \in Resolver, AckTimeout(r) PROVE TypeOK'
  BY <1>5 DEF AckTimeout, Replies, Statuses
<1>6. ASSUME NEW n \in Node, SubscriberReceive(n) PROVE TypeOK'
  <2>1. inbox[n] \in Seq(Resolver) /\ inbox[n] # <<>>
    BY <1>6 DEF SubscriberReceive
  <2>2. Head(inbox[n]) \in Resolver /\ Tail(inbox[n]) \in Seq(Resolver)
    BY <2>1, HeadTailProperties
  <2>3. Lookup(n, Head(inbox[n])) \in Statuses \cup {"found"}
    BY <2>2, LookupFinds DEF Statuses
  <2>4. [req |-> Head(inbox[n]), status |-> Lookup(n, Head(inbox[n]))] \in Job
    BY <2>2, <2>3 DEF Job
  <2>5. job' \in [Node -> SUBSET Job]
    BY <1>6, <2>4 DEF SubscriberReceive
  <2> QED
    BY <1>6, <2>2, <2>5 DEF SubscriberReceive
<1>7. ASSUME NEW n \in Node, SubscriberDeliver(n) PROVE TypeOK'
  BY <1>7 DEF SubscriberDeliver, deliver, Decider, Job, Statuses
<1>8. ASSUME NEW n \in Node, SubscriberReply(n) PROVE TypeOK'
  <2>1. PICK j \in job[n] :
          /\ j.status # "found"
          /\ \E heard \in SUBSET Listeners(j.req) :
               acks' = [q \in Resolver |->
                  IF q \in heard
                  THEN Append(acks[q], [nonce |-> j.req, status |-> j.status])
                  ELSE acks[q]]
    BY <1>8 DEF SubscriberReply
  <2>2. [nonce |-> j.req, status |-> j.status] \in Ack
    BY <2>1 DEF Job, Ack
  <2>3. acks' \in [Resolver -> Seq(Ack)]
    BY <2>1, <2>2, AppendProperties
  <2> QED
    BY <1>8, <2>3 DEF SubscriberReply
<1>9. CASE UNCHANGED vars
  BY <1>9 DEF vars
<1> QED
  BY <1>1, <1>2, <1>3, <1>4, <1>5, <1>6, <1>7, <1>8, <1>9
  DEF Next, ResolveStep, SubscriberStep

-----------------------------------------------------------------------------
(* The channel *)

\* A decision that has been made stays: every step keeps it.
DecisionsKept ==
    \A c \in Call : Decision(c) # None => Decision(c)' = Decision(c)

\* Winning once.Do makes the decision, losing it changes none.
LEMMA DeliverDecides ==
    ASSUME TypeOK, Channel, NEW c \in Call, NEW d \in Decider,
           deliver(c, d), result' = result
    PROVE  /\ Channel' /\ DecisionsKept
           /\ Wins(c) => Decision(c) = None /\ Decision(c)' = d
           /\ ~Wins(c) => Decision(c)' = Decision(c)
           /\ \A x \in Call \ {c} : Decision(x)' = Decision(x)
BY GateAssumption DEF TypeOK, Channel, DecisionsKept, Decision, deliver, Wins, Decider, None,
   Timer, Ctx

\* Reading the channel moves the decision and leaves it what it was.
LEMMA ReadKeeps ==
    ASSUME TypeOK, Channel, NEW c \in Call, ch[c] # None,
           result' = [result EXCEPT ![c] = ch[c]], ch' = [ch EXCEPT ![c] = None],
           once' = once
    PROVE  Channel' /\ \A x \in Call : Decision(x)' = Decision(x)
BY DEF TypeOK, Channel, Decision

\* Steps that touch no waiter.
Quiet == UNCHANGED <<once, ch, result>>

LEMMA QuietKeeps ==
    ASSUME Channel, Quiet
    PROVE  Channel' /\ \A c \in Call : Decision(c)' = Decision(c)
BY DEF Channel, Quiet, Decision

-----------------------------------------------------------------------------
(* The rest of the invariant *)

\* What has been said of a decision stays true while decisions are kept.
LEMMA SaidStays ==
    ASSUME IInv, DecisionsKept, NEW r \in Resolver, Decision(Target[r]) = r
    PROVE  Decision(Target[r])' = r
BY GateAssumption DEF DecisionsKept, None

LEMMA OkStays ==
    ASSUME IInv, DecisionsKept
    PROVE  /\ rpc' = rpc => OkMeansMine'
           /\ job' = job => OkInJobs'
           /\ acks' = acks => OkInAcks'
           /\ rpc' = rpc /\ job' = job /\ UNCHANGED <<from, owned>> => OwnersDeliver'
<1>1. rpc' = rpc => OkMeansMine'
  BY SaidStays DEF OkMeansMine, IInv
<1>2. ASSUME job' = job PROVE OkInJobs'
  <2> SUFFICES ASSUME NEW n \in Node, NEW j \in job[n], j.status = "ok"
               PROVE  Decision(Target[j.req])' = j.req
    BY <1>2 DEF OkInJobs
  <2>1. j.req \in Resolver /\ Decision(Target[j.req]) = j.req
    BY DEF IInv, TypeOK, OkInJobs, Job
  <2> QED
    BY <2>1, SaidStays
<1>3. ASSUME acks' = acks PROVE OkInAcks'
  <2> SUFFICES ASSUME NEW q \in Resolver, NEW i \in 1..Len(acks[q]),
                      NEW a, a = acks[q][i], a.status = "ok"
               PROVE  Decision(Target[a.nonce])' = a.nonce
    BY <1>3 DEF OkInAcks
  <2>1. a \in Ack
    BY ElementOfSeq DEF IInv, TypeOK
  <2>2. a.nonce \in Resolver
    BY <2>1 DEF Ack
  <2>3. Decision(Target[a.nonce]) = a.nonce
    BY DEF IInv, OkInAcks
  <2> QED
    BY <2>2, <2>3, SaidStays
<1>4. rpc' = rpc /\ job' = job /\ UNCHANGED <<from, owned>> => OwnersDeliver'
  BY DEF OwnersDeliver, Entitled, IInv
<1> QED
  BY <1>1, <1>2, <1>3, <1>4

\* Decisions kept in place, and no approval in the making, keep the last two.
LEMMA OwnersStay ==
    ASSUME IInv, UNCHANGED <<from, owned>>, \A c \in Call : Decision(c)' = Decision(c)
    PROVE  OwnersDecide'
BY DEF IInv, OwnersDecide, Entitled

LEMMA ApprovalStays ==
    ASSUME IInv, phase' = phase, result' = result
    PROVE  ApprovedByApproval'
BY DEF IInv, ApprovedByApproval

\* An owner who wins decides; one who loses changes nothing.
LEMMA OwnerDelivers ==
    ASSUME IInv, NEW r \in Resolver, Entitled(r),
           deliver(Target[r], r), result' = result, UNCHANGED <<from, owned>>
    PROVE  /\ Channel' /\ DecisionsKept /\ OwnersDecide'
           /\ Wins(Target[r]) => Decision(Target[r])' = r
<1>1. Target[r] \in Call /\ r \in Decider
  BY GateAssumption DEF Decider
<1>2. /\ Channel' /\ DecisionsKept
      /\ Wins(Target[r]) => Decision(Target[r])' = r
      /\ ~Wins(Target[r]) => Decision(Target[r])' = Decision(Target[r])
      /\ \A x \in Call \ {Target[r]} : Decision(x)' = Decision(x)
  BY <1>1, DeliverDecides DEF IInv
<1>3. OwnersDecide'
  BY <1>1, <1>2 DEF IInv, OwnersDecide, Entitled
<1> QED
  BY <1>2, <1>3

\* The tool call: it reads, or decides for the timer or the context, or moves on.
LEMMA CallStepKeeps ==
    ASSUME IInv, TypeOK', NEW c \in Call, CallStep(c)
    PROVE  IInv' /\ DecisionsKept
<1>1. rpc' = rpc /\ job' = job /\ acks' = acks /\ UNCHANGED <<from, owned>>
  BY DEF CallStep, CallOnly, Execute, RequestOAuthAndWait, TakeDecision, Expire,
         Cancel, DenyLate, Drain, Return
<1>2. ASSUME Channel', DecisionsKept, OwnersDecide', ApprovedByApproval'
      PROVE  IInv' /\ DecisionsKept
  BY <1>1, <1>2, OkStays DEF IInv
<1>3. CASE Execute(c) \/ RequestOAuthAndWait(c) \/ Expire(c) \/ Cancel(c) \/ Return(c)
  <2>1. Quiet
    BY <1>3 DEF Quiet, Execute, RequestOAuthAndWait, Expire, Cancel, Return
  <2>2. Channel' /\ DecisionsKept /\ OwnersDecide'
    BY <1>1, <2>1, QuietKeeps, OwnersStay DEF IInv, DecisionsKept
  <2>3. ApprovedByApproval'
    BY <1>3
    DEF IInv, TypeOK, ApprovedByApproval,
        Execute, RequestOAuthAndWait, Expire, Cancel, Return
  <2> QED
    BY <1>2, <2>2, <2>3
<1>4. CASE TakeDecision(c) \/ Drain(c)
  <2>1. Channel' /\ \A x \in Call : Decision(x)' = Decision(x)
    BY <1>4, ReadKeeps DEF IInv, TakeDecision, Drain
  <2>2. DecisionsKept /\ OwnersDecide'
    BY <1>1, <2>1, OwnersStay DEF DecisionsKept
  <2>3. ApprovedByApproval'
    BY <1>4 DEF IInv, TypeOK, ApprovedByApproval, TakeDecision, Drain
  <2> QED
    BY <1>2, <2>1, <2>2, <2>3
<1>5. CASE DenyLate(c)
  <2>1. PICK d \in {Timer, Ctx} : deliver(c, d)
    BY <1>5 DEF DenyLate
  <2>2. result' = result /\ d \in Decider /\ d \notin Resolver
    BY <1>5, GateAssumption DEF DenyLate, Decider
  <2>3. /\ Channel' /\ DecisionsKept
        /\ Decision(c)' = d \/ Decision(c)' = Decision(c)
        /\ \A x \in Call \ {c} : Decision(x)' = Decision(x)
    BY <2>1, <2>2, DeliverDecides DEF IInv
  <2>4. OwnersDecide'
    BY <1>1, <2>2, <2>3 DEF IInv, OwnersDecide, Entitled
  <2>5. ApprovedByApproval'
    BY <1>5, <2>2 DEF IInv, TypeOK, ApprovedByApproval, DenyLate
  <2> QED
    BY <1>2, <2>3, <2>4, <2>5
<1> QED
  BY <1>3, <1>4, <1>5 DEF CallStep

\* Reading an ack, or closing the subscription, leaves true acks.
LEMMA AcksShrink ==
    ASSUME IInv, Quiet, NEW r \in Resolver,
           \A q \in Resolver \ {r} : acks'[q] = acks[q],
           \/ acks'[r] = <<>>
           \/ acks[r] # <<>> /\ acks'[r] = Tail(acks[r])
    PROVE  OkInAcks'
<1> SUFFICES ASSUME NEW q \in Resolver, NEW i \in 1..Len(acks'[q]),
                    NEW a, a = acks'[q][i], a.status = "ok"
             PROVE  Decision(Target[a.nonce])' = a.nonce
  BY DEF OkInAcks
<1>1. PICK k \in 1..Len(acks[q]) : acks'[q][i] = acks[q][k]
  <2>1. CASE acks'[q] = acks[q]
    BY <2>1
  <2>2. CASE acks'[q] # acks[q]
    <3>1. acks[q] \in Seq(Ack)
      BY DEF IInv, TypeOK
    <3>2. acks[q] # <<>> /\ acks'[q] = Tail(acks[q])
      BY <2>2, <3>1
    <3>3. i + 1 \in 1..Len(acks[q]) /\ Tail(acks[q])[i] = acks[q][i + 1]
      BY <3>1, <3>2, HeadTailProperties
    <3> QED
      BY <3>2, <3>3
  <2> QED
    BY <2>1, <2>2
<1>2. a \in Ack /\ Decision(Target[a.nonce]) = a.nonce
  BY <1>1, ElementOfSeq, SMTT(30) DEF IInv, TypeOK, OkInAcks
<1>3. a.nonce \in Resolver
  BY <1>2 DEF Ack
<1> QED
  BY <1>2, <1>3, GateAssumption, QuietKeeps DEF IInv

\* Resolve: only a won delivery and an ack of one's own say "ok".
LEMMA ResolveStepKeeps ==
    ASSUME IInv, TypeOK', NEW r \in Resolver, ResolveStep(r)
    PROVE  IInv' /\ DecisionsKept
<1>1. phase' = phase /\ result' = result /\ job' = job /\ UNCHANGED <<from, owned>>
  BY DEF ResolveStep, Resolve, DeliverLocal, Publish, RedisFails, ReceiveAck, AckTimeout
<1>2. ApprovedByApproval'
  BY <1>1, ApprovalStays
<1>3. CASE DeliverLocal(r)
  <2>1. Entitled(r)
    BY <1>3 DEF DeliverLocal, IInv, OwnersDeliver
  <2>2. /\ Channel' /\ DecisionsKept /\ OwnersDecide'
        /\ Wins(Target[r]) => Decision(Target[r])' = r
    BY <1>1, <1>3, <2>1, OwnerDelivers DEF DeliverLocal
  <2>3. OkMeansMine'
    <3> SUFFICES ASSUME NEW q \in Resolver, rpc'[q] = "ok"
                 PROVE  Decision(Target[q])' = q
      BY DEF OkMeansMine
    <3>1. CASE q = r
      BY <1>3, <2>2, <3>1 DEF DeliverLocal, IInv, TypeOK
    <3>2. CASE q # r
      <4>1. rpc[q] = "ok"
        BY <1>3, <3>2 DEF DeliverLocal, IInv, TypeOK
      <4> QED
        BY <2>2, <4>1, SaidStays DEF IInv, OkMeansMine
    <3> QED
      BY <3>1, <3>2
  <2>4. OwnersDeliver'
    BY <1>1, <1>3 DEF DeliverLocal, IInv, TypeOK, OwnersDeliver, Entitled
  <2>5. acks' = acks
    BY <1>3 DEF DeliverLocal
  <2> QED
    BY <1>1, <1>2, <2>2, <2>3, <2>4, <2>5, OkStays DEF IInv
<1>4. ASSUME Quiet, OkInAcks',
             \A q \in Resolver \ {r} : rpc'[q] = rpc[q],
             rpc'[r] = "ok" => Decision(Target[r]) = r,
             rpc'[r] = "delivering" => Entitled(r)
      PROVE  IInv' /\ DecisionsKept
  <2>1. Channel' /\ DecisionsKept /\ OwnersDecide'
    BY <1>1, <1>4, QuietKeeps, OwnersStay DEF IInv, DecisionsKept
  <2>2. OkMeansMine'
    <3> SUFFICES ASSUME NEW q \in Resolver, rpc'[q] = "ok"
                 PROVE  Decision(Target[q])' = q
      BY DEF OkMeansMine
    <3>1. Decision(Target[q]) = q
      BY <1>4 DEF IInv, OkMeansMine
    <3> QED
      BY <2>1, <3>1, SaidStays
  <2>3. OwnersDeliver'
    BY <1>1, <1>4 DEF IInv, OwnersDeliver, Entitled
  <2> QED
    BY <1>1, <1>2, <1>4, <2>1, <2>2, <2>3, OkStays DEF IInv
<1>5. CASE Resolve(r) \/ Publish(r) \/ RedisFails(r)
  <2>1. Quiet /\ acks' = acks
    BY <1>5 DEF Quiet, Resolve, Publish, RedisFails
  <2>2. OkInAcks'
    BY <2>1, QuietKeeps, OkStays DEF IInv, DecisionsKept
  <2>3. from[r].node \in Node
    BY DEF IInv, TypeOK, Origin
  <2>4. /\ \A q \in Resolver \ {r} : rpc'[q] = rpc[q]
        /\ rpc'[r] # "ok"
        /\ rpc'[r] = "delivering" => Entitled(r)
    BY <1>5, <2>3, BeginOpens DEF Resolve, Publish, RedisFails, IInv, TypeOK
  <2> QED
    BY <1>4, <2>1, <2>2, <2>4
<1>6. CASE AckTimeout(r) \/ ReceiveAck(r)
  <2>1. Quiet
    BY <1>6 DEF Quiet, AckTimeout, ReceiveAck
  <2>2. \A q \in Resolver \ {r} : rpc'[q] = rpc[q] /\ acks'[q] = acks[q]
    BY <1>6 DEF AckTimeout, ReceiveAck, IInv, TypeOK
  <2>3. /\ \/ acks'[r] = <<>>
           \/ acks[r] # <<>> /\ acks'[r] = Tail(acks[r])
        /\ \/ rpc'[r] = rpc[r]
           \/ rpc'[r] = "not_found"
           \/ /\ acks[r] # <<>> /\ Mine(r, Head(acks[r]))
              /\ rpc'[r] = Head(acks[r]).status
    <3> USE DEF IInv, TypeOK
    <3>1. CASE AckTimeout(r)
      BY <3>1 DEF AckTimeout
    <3>2. CASE ReceiveAck(r) /\ Mine(r, Head(acks[r]))
      BY <3>2 DEF ReceiveAck
    <3>3. CASE ReceiveAck(r) /\ ~Mine(r, Head(acks[r]))
      BY <3>3 DEF ReceiveAck
    <3> QED
      BY <1>6, <3>1, <3>2, <3>3
  <2>4. OkInAcks'
    BY <2>1, <2>2, <2>3, AcksShrink
  <2>5. ASSUME acks[r] # <<>>, Mine(r, Head(acks[r])), rpc'[r] = Head(acks[r]).status
        PROVE  /\ rpc'[r] # "delivering"
               /\ rpc'[r] = "ok" => Decision(Target[r]) = r
    <3>1. acks[r] \in Seq(Ack)
      BY DEF IInv, TypeOK
    <3>2. 1 \in 1..Len(acks[r]) /\ Head(acks[r]) = acks[r][1] /\ Head(acks[r]) \in Ack
      BY <2>5, <3>1, EmptySeq, LenProperties, HeadTailProperties
    <3>3. Head(acks[r]).status # "delivering"
      BY <3>2 DEF Ack, Statuses
    <3>4. Head(acks[r]).status = "ok" => Decision(Target[r]) = r
      BY <2>5, <3>2 DEF IInv, OkInAcks, Mine
    <3> QED
      BY <2>5, <3>3, <3>4
  <2>6. rpc[r] = "listening"
    BY <1>6 DEF AckTimeout, ReceiveAck
  <2>7. /\ rpc'[r] = "ok" => Decision(Target[r]) = r
        /\ rpc'[r] = "delivering" => Entitled(r)
    BY <2>3, <2>5, <2>6
  <2> QED
    BY <1>4, <2>1, <2>2, <2>4, <2>7
<1> QED
  BY <1>3, <1>5, <1>6 DEF ResolveStep

\* The subscriber: it delivers for an owner, and acks what it did.
LEMMA SubscriberStepKeeps ==
    ASSUME IInv, TypeOK', NEW n \in Node, SubscriberStep(n)
    PROVE  IInv' /\ DecisionsKept
<1>1. phase' = phase /\ result' = result /\ rpc' = rpc /\ UNCHANGED <<from, owned>>
  BY DEF SubscriberStep, SubscriberReceive, SubscriberDeliver, SubscriberReply
<1>2. ApprovedByApproval'
  BY <1>1, ApprovalStays
<1>3. ASSUME Channel', DecisionsKept, OwnersDecide', OkInAcks',
             \A m \in Node \ {n} : job'[m] = job[m],
             \A j \in job'[n] :
                /\ j.status = "ok" => Decision(Target[j.req])' = j.req
                /\ j.status = "found" => Entitled(j.req)
      PROVE  IInv' /\ DecisionsKept
  <2>1. OkInJobs'
    <3> SUFFICES ASSUME NEW m \in Node, NEW j \in job'[m], j.status = "ok"
                 PROVE  Decision(Target[j.req])' = j.req
      BY DEF OkInJobs
    <3>1. CASE m # n
      <4>1. j.req \in Resolver /\ Decision(Target[j.req]) = j.req
        BY <1>3, <3>1 DEF IInv, TypeOK, OkInJobs, Job
      <4> QED
        BY <1>3, <4>1, SaidStays
    <3> QED
      BY <1>3, <3>1
  <2>2. OwnersDeliver'
    BY <1>1, <1>3 DEF IInv, OwnersDeliver, Entitled
  <2> QED
    BY <1>1, <1>2, <1>3, <2>1, <2>2, OkStays DEF IInv
<1>4. CASE SubscriberReceive(n)
  <2>1. Quiet /\ acks' = acks
    BY <1>4 DEF Quiet, SubscriberReceive
  <2>2. Channel' /\ DecisionsKept /\ OwnersDecide' /\ OkInAcks'
    BY <1>1, <2>1, QuietKeeps, OwnersStay, OkStays DEF IInv, DecisionsKept
  <2>3. Head(inbox[n]) \in Resolver
    BY <1>4, HeadTailProperties DEF SubscriberReceive, IInv, TypeOK
  <2>4. \A j \in job'[n] :
          /\ j.status # "ok"
          /\ j.status = "found" => Entitled(j.req)
    <3> DEFINE r == Head(inbox[n])
    <3>1. \A j \in job'[n] : j.req = r /\ j.status = Lookup(n, r)
      BY <1>4 DEF SubscriberReceive, IInv, TypeOK
    <3>2. Lookup(n, r) # "ok" /\ (Lookup(n, r) = "found" => Entitled(r))
      BY <2>3, LookupFinds DEF IInv
    <3> QED
      BY <3>1, <3>2
  <2>5. \A m \in Node \ {n} : job'[m] = job[m]
    BY <1>4 DEF SubscriberReceive, IInv, TypeOK
  <2> QED
    BY <1>3, <2>2, <2>4, <2>5
<1>5. CASE SubscriberDeliver(n)
  <2>1. PICK j \in job[n] :
          /\ j.status = "found" /\ deliver(Target[j.req], j.req)
          /\ job' = [job EXCEPT ![n] = {[req |-> j.req, status |->
                       IF Wins(Target[j.req]) THEN "ok" ELSE "already_resolved"]}]
    BY <1>5 DEF SubscriberDeliver
  <2>2. j.req \in Resolver /\ Entitled(j.req)
    BY <2>1 DEF IInv, TypeOK, Job, OwnersDeliver
  <2>3. /\ Channel' /\ DecisionsKept /\ OwnersDecide'
        /\ Wins(Target[j.req]) => Decision(Target[j.req])' = j.req
    BY <1>1, <2>1, <2>2, OwnerDelivers
  <2>4. OkInAcks'
    BY <1>5, <2>3, OkStays DEF SubscriberDeliver
  <2>5. /\ \A m \in Node \ {n} : job'[m] = job[m]
        /\ \A k \in job'[n] :
              k.req = j.req /\ k.status # "found" /\ (k.status = "ok" => Wins(Target[j.req]))
    BY <2>1 DEF IInv, TypeOK
  <2> QED
    BY <1>3, <2>3, <2>4, <2>5
<1>6. CASE SubscriberReply(n)
  <2>1. Quiet
    BY <1>6 DEF Quiet, SubscriberReply
  <2>2. Channel' /\ DecisionsKept /\ OwnersDecide'
    BY <1>1, <2>1, QuietKeeps, OwnersStay DEF IInv, DecisionsKept
  <2>3. PICK j \in job[n] :
          /\ j.status # "found"
          /\ \E heard \in SUBSET Listeners(j.req) :
              acks' = [q \in Resolver |->
                  IF q \in heard
                  THEN Append(acks[q], [nonce |-> j.req, status |-> j.status])
                  ELSE acks[q]]
    BY <1>6 DEF SubscriberReply
  <2>4. OkInAcks'
    <3> SUFFICES ASSUME NEW q \in Resolver, NEW i \in 1..Len(acks'[q]),
                        NEW a, a = acks'[q][i], a.status = "ok"
                 PROVE  Decision(Target[a.nonce])' = a.nonce
      BY DEF OkInAcks
    <3> DEFINE new == [nonce |-> j.req, status |-> j.status]
    <3>1. acks[q] \in Seq(Ack) /\ acks'[q] \in {acks[q], Append(acks[q], new)}
      BY <2>3 DEF IInv, TypeOK
    <3>2. CASE a = new
      <4>1. j.req \in Resolver /\ Decision(Target[j.req]) = j.req
        BY <3>2 DEF IInv, TypeOK, OkInJobs, Job
      <4> QED
        BY <2>2, <3>2, <4>1, SaidStays
    <3>3. CASE i \in 1..Len(acks[q]) /\ a = acks[q][i]
      <4>1. a \in Ack /\ Decision(Target[a.nonce]) = a.nonce
        BY <3>1, <3>3, ElementOfSeq DEF IInv, OkInAcks
      <4> QED
        BY <2>2, <4>1, SaidStays DEF Ack
    <3>4. new \in Ack
      BY <1>6, <2>3 DEF SubscriberReply, IInv, TypeOK, Job, Ack
    <3> QED
      BY <3>1, <3>2, <3>3, <3>4, AppendProperties, SMTT(30)
  <2>5. job' = [job EXCEPT ![n] = {}]
    BY <1>6 DEF SubscriberReply
  <2>6. job'[n] = {} /\ \A m \in Node \ {n} : job'[m] = job[m]
    BY <2>5 DEF IInv, TypeOK
  <2> QED
    BY <1>3, <2>2, <2>4, <2>6
<1> QED
  BY <1>4, <1>5, <1>6 DEF SubscriberStep

-----------------------------------------------------------------------------
(* The theorems *)

LEMMA InitInvariant == Init => IInv
<1> SUFFICES ASSUME Init PROVE IInv
  OBVIOUS
<1>1. TypeOK
  BY DEF Init, TypeOK, Phases, Open, None
<1>2. /\ \A c \in Call : Decision(c) = None /\ ch[c] = None /\ phase[c] = "idle"
      /\ \A r \in Resolver : rpc[r] = "idle" /\ acks[r] = <<>>
      /\ \A n \in Node : job[n] = {}
  BY DEF Init, Decision
<1>3. OkInAcks
  BY <1>2 DEF OkInAcks
<1>4. Channel
  BY DEF Init, Channel
<1> QED
  BY <1>1, <1>2, <1>3, <1>4, GateAssumption
  DEF IInv, OkMeansMine, OkInJobs, OwnersDeliver, OwnersDecide, ApprovedByApproval

LEMMA StepInvariant == IInv /\ [Next]_vars => IInv' /\ DecisionsKept
<1> SUFFICES ASSUME IInv, [Next]_vars PROVE IInv' /\ DecisionsKept
  OBVIOUS
<1>1. TypeOK'
  BY TypeInvariant DEF IInv
<1>2. CASE Next
  BY <1>1, <1>2, CallStepKeeps, ResolveStepKeeps, SubscriberStepKeeps DEF Next
<1>3. CASE UNCHANGED vars
  BY <1>3
  DEF vars, IInv, TypeOK, Channel, Decision, OkMeansMine, OkInJobs, OkInAcks,
      OwnersDeliver, OwnersDecide, Entitled, ApprovedByApproval, DecisionsKept
<1> QED
  BY <1>2, <1>3

LEMMA Invariance == Spec => []IInv
BY InitInvariant, StepInvariant, PTL DEF Spec

\* Every variable of the gate keeps its type.
THEOREM TypeCorrect == Spec => []TypeOK
<1>1. IInv => TypeOK
  BY DEF IInv
<1> QED
  BY <1>1, Invariance, PTL

\* Whoever is told "ok" made the decision, over however many replicas, lost or
\* repeated messages (waiter.deliver, resolveCrossInstance).
THEOREM OkIsTrue == Spec => []OkMeansMine
<1>1. IInv => OkMeansMine
  BY DEF IInv
<1> QED
  BY <1>1, Invariance, PTL

\* No gated tool runs without an approval given for that call, by the owner of the
\* session or, where the waiter names no user, by somebody of the tenant
\* (deliverLocal, RequestAndWait).
THEOREM ConsentHolds == Spec => []Consent
<1>1. IInv => Consent
  <2> SUFFICES ASSUME IInv, NEW c \in Call, phase[c] = "approved"
               PROVE  \E r \in Approving :
                        result[c] = r /\ Target[r] = c /\ Entitled(r)
    BY DEF Consent, Entitled
  <2>1. result[c] \in Approving /\ result[c] \in Resolver /\ result[c] # None
    BY GateAssumption DEF IInv, ApprovedByApproval
  <2>2. Decision(c) = result[c]
    BY <2>1 DEF Decision
  <2> QED
    BY <2>1, <2>2 DEF IInv, OwnersDecide
<1> QED
  BY <1>1, Invariance, PTL

-----------------------------------------------------------------------------
(* Answers that need no Redis *)

\* Requests go over Redis only if there is one, and a subscriber never works on
\* one that came in on the replica of its waiter.
OverRedis ==
    /\ \A r \in Resolver : rpc[r] = "remote" => HasRedis
    /\ \A n \in Node : inbox[n] # <<>> => HasRedis
    /\ \A n \in Node : \A j \in job[n] : ~Near(j.req)

\* So a near decision was made by the caller, who was told.
NearDecides ==
    \A r \in Resolver : Near(r) /\ Decision(Target[r]) = r => rpc[r] = "ok"

LEMMA OriginsStay == [Next]_vars => UNCHANGED <<from, owned>>
BY DEF Next, vars, CallStep, CallOnly, Execute, RequestOAuthAndWait, TakeDecision, Expire,
       Cancel, DenyLate, Drain, Return, ResolveStep, Resolve, DeliverLocal, Publish,
       RedisFails, ReceiveAck, AckTimeout, SubscriberStep, SubscriberReceive,
       SubscriberDeliver, SubscriberReply

LEMMA OverRedisStep == IInv /\ OverRedis /\ [Next]_vars => OverRedis'
<1> SUFFICES ASSUME IInv, OverRedis, [Next]_vars PROVE OverRedis'
  OBVIOUS
<1>1. UNCHANGED <<from, owned>> /\ TypeOK
  BY OriginsStay DEF IInv
<1> USE DEF OverRedis, Near
<1>2. ASSUME NEW c \in Call, CallStep(c) PROVE OverRedis'
  BY <1>1, <1>2
  DEF CallStep, CallOnly, Execute, RequestOAuthAndWait, TakeDecision, Expire, Cancel,
      DenyLate, Drain, Return
<1>3. ASSUME NEW r \in Resolver, Resolve(r) PROVE OverRedis'
  <2>1. Begin(r, Lookup(from[r].node, r)) = "remote" => HasRedis
    <3>1. Lookup(from[r].node, r) # "remote"
      BY <1>1, LookupFinds DEF TypeOK, Origin
    <3> QED
      BY <3>1 DEF Begin
  <2> QED
    BY <1>1, <1>3, <2>1 DEF Resolve, TypeOK
<1>4. ASSUME NEW r \in Resolver, Publish(r) \/ RedisFails(r) PROVE OverRedis'
  <2>1. HasRedis
    BY <1>4 DEF Publish, RedisFails
  <2> QED
    BY <1>1, <1>4, <2>1 DEF Publish, RedisFails
<1>5. ASSUME NEW r \in Resolver, DeliverLocal(r) \/ ReceiveAck(r) \/ AckTimeout(r)
      PROVE  OverRedis'
  <2>1. inbox' = inbox /\ job' = job
    BY <1>5 DEF DeliverLocal, ReceiveAck, AckTimeout
  <2>2. \A q \in Resolver : rpc'[q] = "remote" => rpc[q] = "remote" \/ q = r
    BY <1>1, <1>5 DEF DeliverLocal, ReceiveAck, AckTimeout, TypeOK
  <2>3. rpc'[r] # "remote"
    <3>1. CASE DeliverLocal(r) \/ AckTimeout(r)
      BY <1>1, <3>1 DEF DeliverLocal, AckTimeout, TypeOK
    <3>2. CASE ReceiveAck(r)
      <4>1. acks[r] \in Seq(Ack) /\ acks[r] # <<>>
        BY <1>1, <3>2 DEF ReceiveAck, TypeOK
      <4>2. Head(acks[r]).status # "remote"
        <5>1. Head(acks[r]) \in Ack
          BY <4>1, HeadTailProperties
        <5> QED
          BY <5>1 DEF Ack, Statuses
      <4>3. rpc'[r] \in {Head(acks[r]).status, rpc[r]} /\ rpc[r] = "listening"
        BY <1>1, <3>2 DEF ReceiveAck, TypeOK
      <4> QED
        BY <4>2, <4>3
    <3> QED
      BY <1>5, <3>1, <3>2
  <2> QED
    BY <1>1, <2>1, <2>2, <2>3
<1>6. ASSUME NEW n \in Node, SubscriberReceive(n) PROVE OverRedis'
  <2> DEFINE r == Head(inbox[n])
  <2>1. HasRedis /\ r \in Resolver
    BY <1>1, <1>6, HeadTailProperties DEF SubscriberReceive, TypeOK
  <2>2. \A j \in job'[n] : j.req = r /\ from[r].node # n /\ Lookup(n, r) # "not_found"
    BY <1>1, <1>6 DEF SubscriberReceive, TypeOK
  <2>3. Lookup(n, r) # "not_found" => Home[Target[r]] = n
    BY DEF Lookup
  <2>4. \A m \in Node \ {n} : job'[m] = job[m]
    BY <1>1, <1>6 DEF SubscriberReceive, TypeOK
  <2>5. rpc' = rpc
    BY <1>6 DEF SubscriberReceive
  <2> QED
    BY <1>1, <2>1, <2>2, <2>3, <2>4, <2>5
<1>7. ASSUME NEW n \in Node, SubscriberDeliver(n) \/ SubscriberReply(n) PROVE OverRedis'
  <2>1. \A m \in Node : \A j \in job'[m] : \E k \in job[m] : j.req = k.req
    <3>1. CASE SubscriberDeliver(n)
      <4>1. PICK k \in job[n], s \in Statuses :
               job' = [job EXCEPT ![n] = {[req |-> k.req, status |-> s]}]
        BY <3>1 DEF SubscriberDeliver, Statuses
      <4>2. job'[n] = {[req |-> k.req, status |-> s]}
            /\ \A m \in Node \ {n} : job'[m] = job[m]
        BY <1>1, <4>1 DEF TypeOK
      <4> QED
        BY <4>2
    <3>2. CASE SubscriberReply(n)
      BY <1>1, <3>2 DEF SubscriberReply, TypeOK
    <3> QED
      BY <1>7, <3>1, <3>2
  <2>2. rpc' = rpc /\ inbox' = inbox
    BY <1>7 DEF SubscriberDeliver, SubscriberReply
  <2> QED
    BY <1>1, <2>1, <2>2
<1>8. CASE UNCHANGED vars
  BY <1>8 DEF vars
<1> QED
  BY <1>2, <1>3, <1>4, <1>5, <1>6, <1>7, <1>8 DEF Next, ResolveStep, SubscriberStep

LEMMA OkForGood ==
    ASSUME TypeOK, [Next]_vars, NEW r \in Resolver, rpc[r] = "ok"
    PROVE  rpc'[r] = "ok"
BY DEF TypeOK, Next, vars, CallStep, CallOnly, Execute, RequestOAuthAndWait, TakeDecision,
       Expire, Cancel, DenyLate, Drain, Return, ResolveStep, Resolve, DeliverLocal, Publish,
       RedisFails, ReceiveAck, AckTimeout, SubscriberStep, SubscriberReceive,
       SubscriberDeliver, SubscriberReply

\* A step changes at most the decision of one call, to the name of its author.
LEMMA NearDecidesStep == IInv /\ OverRedis /\ NearDecides /\ [Next]_vars => NearDecides'
<1> SUFFICES ASSUME IInv, OverRedis, NearDecides, [Next]_vars,
                    NEW r \in Resolver, Near(r)', Decision(Target[r])' = r
             PROVE  rpc'[r] = "ok"
  BY DEF NearDecides
<1> DEFINE c == Target[r]
<1>1. TypeOK /\ Channel /\ Near(r) /\ c \in Call /\ r \notin {None, Timer, Ctx}
  BY OriginsStay, GateAssumption DEF IInv, Near
<1>2. CASE Decision(c)' = Decision(c)
  BY <1>1, <1>2, OkForGood DEF NearDecides
<1>3. CASE Decision(c)' # Decision(c)
  <2>1. ~Quiet
    BY <1>1, <1>3, QuietKeeps
  <2>2. ASSUME NEW x \in Call, CallStep(x) PROVE FALSE
    <3>1. CASE TakeDecision(x) \/ Drain(x)
      BY <1>1, <1>3, <3>1, ReadKeeps DEF TakeDecision, Drain
    <3>2. CASE DenyLate(x)
      <4>1. PICK d \in {Timer, Ctx} : deliver(x, d)
        BY <3>2 DEF DenyLate
      <4>2. Decision(c)' \in {d, Decision(c)}
        BY <1>1, <3>2, <4>1, DeliverDecides DEF DenyLate, Decider
      <4> QED
        BY <1>1, <1>3, <4>2
    <3> QED
      BY <2>1, <2>2, <3>1, <3>2
      DEF CallStep, Quiet, Execute, RequestOAuthAndWait, Expire, Cancel, Return
  <2>3. ASSUME NEW q \in Resolver, ResolveStep(q) PROVE rpc'[r] = "ok"
    <3>1. DeliverLocal(q)
      BY <2>1, <2>3
      DEF ResolveStep, Quiet, Resolve, Publish, RedisFails, ReceiveAck, AckTimeout
    <3>2. Target[q] \in Call /\ q \in Decider
      BY GateAssumption DEF Decider
    <3>3. c = Target[q] /\ Wins(c) /\ Decision(c)' = q
      BY <1>1, <1>3, <3>1, <3>2, DeliverDecides DEF DeliverLocal
    <3> QED
      BY <1>1, <3>1, <3>3 DEF DeliverLocal, TypeOK
  <2>4. ASSUME NEW n \in Node, SubscriberStep(n) PROVE FALSE
    <3>1. PICK j \in job[n] : SubscriberDeliver(n) /\ deliver(Target[j.req], j.req)
      BY <2>1, <2>4 DEF SubscriberStep, Quiet, SubscriberReceive, SubscriberDeliver, SubscriberReply
    <3>2. j.req \in Resolver /\ j.req \in Decider /\ Target[j.req] \in Call
      BY <1>1, GateAssumption DEF TypeOK, Job, Decider
    <3>3. Decision(c)' \in {j.req, Decision(c)}
      BY <1>1, <3>1, <3>2, DeliverDecides DEF SubscriberDeliver
    <3>4. ~Near(j.req)
      BY DEF OverRedis
    <3> QED
      BY <1>1, <1>3, <3>3, <3>4
  <2> QED
    BY <1>3, <2>2, <2>3, <2>4 DEF Next, vars, Decision
<1> QED
  BY <1>2, <1>3

\* On the replica of the waiter, and everywhere without Redis, "ok" is told to
\* the one who made the decision and to nobody else (deliverLocal).
THEOREM AnswersAreExact == Spec => []AnswersExact
<1>1. Init => OverRedis /\ NearDecides
  BY GateAssumption DEF Init, OverRedis, NearDecides, Decision
<1>2. IInv /\ NearDecides => AnswersExact
  BY DEF IInv, OkMeansMine, NearDecides, AnswersExact
<1> QED
  BY <1>1, <1>2, OverRedisStep, NearDecidesStep, Invariance, PTL DEF Spec

-----------------------------------------------------------------------------
(* Refinement *)

\* What a change of one decision looks like to OneDecision.
LEMMA Decides ==
    ASSUME NEW c \in Call, NEW d, Decision(c) = None, Decision(c)' = d,
           \A x \in Call \ {c} : Decision(x)' = Decision(x)
    PROVE  Abstract!Decide(c, d)
BY DEF Abstract!Decide

\* What an answer to a caller of Resolve looks like.
LEMMA Tells ==
    ASSUME TypeOK, NEW r \in Resolver, NEW s \in Open \cup Replies, rpc[r] \in Open,
           rpc' = [rpc EXCEPT ![r] = s], s = "ok" => Decision(Target[r])' = r
    PROVE  Abstract!Tell(r, s)
BY GateAssumption DEF Abstract!Tell, TypeOK

LEMMA InitRefines == Init => Abstract!Init
BY DEF Init, Abstract!Init, Decision, Open

LEMMA NextRefines == IInv /\ [Next]_vars => [Abstract!Next]_(Abstract!vars)
<1> SUFFICES ASSUME IInv, [Next]_vars
             PROVE  Abstract!Next \/ UNCHANGED Abstract!vars
  OBVIOUS
<1>1. IInv' /\ TypeOK /\ TypeOK' /\ Channel
  BY StepInvariant DEF IInv
<1>2. ASSUME NEW c \in Call, CallStep(c)
      PROVE  Abstract!Next \/ UNCHANGED Abstract!vars
  <2>1. rpc' = rpc
    BY <1>2
    DEF CallStep, CallOnly, Execute, RequestOAuthAndWait, TakeDecision, Expire,
        Cancel, DenyLate, Drain, Return
  <2>2. CASE DenyLate(c)
    <3>1. PICK d \in {Timer, Ctx} : deliver(c, d)
      BY <2>2 DEF DenyLate
    <3>2. /\ Wins(c) => Decision(c) = None /\ Decision(c)' = d
          /\ ~Wins(c) => Decision(c)' = Decision(c)
          /\ \A x \in Call \ {c} : Decision(x)' = Decision(x)
      BY <1>1, <2>2, <3>1, DeliverDecides DEF DenyLate, Decider
    <3>3. CASE Wins(c)
      BY <2>1, <3>2, <3>3, Decides DEF Abstract!Next, Decider
    <3>4. CASE ~Wins(c)
      BY <2>1, <3>2, <3>4 DEF Abstract!vars
    <3> QED
      BY <3>3, <3>4
  <2>3. CASE ~DenyLate(c)
    <3>1. \A x \in Call : Decision(x)' = Decision(x)
      BY <1>1, <1>2, <2>3, ReadKeeps, QuietKeeps
      DEF CallStep, Quiet, Execute, RequestOAuthAndWait, TakeDecision, Expire,
          Cancel, Drain, Return
    <3> QED
      BY <2>1, <3>1 DEF Abstract!vars
  <2> QED
    BY <2>2, <2>3
<1>3. ASSUME NEW r \in Resolver, ResolveStep(r)
      PROVE  Abstract!Next \/ UNCHANGED Abstract!vars
  <2>1. CASE DeliverLocal(r)
    <3> DEFINE c == Target[r]
    <3>1. c \in Call /\ r \in Decider
      BY GateAssumption DEF Decider
    <3>2. /\ Wins(c) => Decision(c) = None /\ Decision(c)' = r
          /\ ~Wins(c) => Decision(c)' = Decision(c)
          /\ \A x \in Call \ {c} : Decision(x)' = Decision(x)
      BY <1>1, <2>1, <3>1, DeliverDecides DEF DeliverLocal
    <3>3. CASE Wins(c)
      <4>1. Abstract!Decide(c, r)
        BY <3>1, <3>2, <3>3, Decides
      <4>2. Abstract!Tell(r, "ok")
        BY <1>1, <2>1, <3>2, <3>3, Tells DEF DeliverLocal, Open, Replies, Statuses
      <4> QED
        BY <4>1, <4>2 DEF Abstract!Next
    <3>4. CASE ~Wins(c)
      <4>1. Abstract!Tell(r, "already_resolved")
        BY <1>1, <2>1, <3>4, Tells DEF DeliverLocal, Open, Replies, Statuses
      <4>2. [x \in Call |-> Decision(x)]' = [x \in Call |-> Decision(x)]
        BY <3>2, <3>4
      <4> QED
        BY <4>1, <4>2 DEF Abstract!Next, Replies, Statuses
    <3> QED
      BY <3>3, <3>4
  <2>2. CASE ~DeliverLocal(r)
    <3>1. Quiet /\ rpc[r] \in Open
      BY <1>3, <2>2
      DEF ResolveStep, Quiet, Open, Resolve, Publish, RedisFails, ReceiveAck, AckTimeout
    <3>2. [x \in Call |-> Decision(x)]' = [x \in Call |-> Decision(x)]
      BY <1>1, <3>1, QuietKeeps
    <3>3. PICK s : rpc' = [rpc EXCEPT ![r] = s]
      BY <1>1, <1>3, <2>2
      DEF TypeOK, ResolveStep, Resolve, Publish, RedisFails, ReceiveAck, AckTimeout
    <3>4. s = rpc'[r] /\ s \in Open \cup Replies
      BY <1>1, <3>3 DEF TypeOK
    <3>5. s = "ok" => Decision(Target[r])' = r
      BY <1>1, <3>4 DEF IInv, OkMeansMine
    <3>6. Abstract!Tell(r, s)
      BY <1>1, <3>1, <3>3, <3>4, <3>5, Tells
    <3> QED
      BY <3>2, <3>4, <3>6 DEF Abstract!Next
  <2> QED
    BY <2>1, <2>2
<1>4. ASSUME NEW n \in Node, SubscriberStep(n)
      PROVE  Abstract!Next \/ UNCHANGED Abstract!vars
  <2>1. rpc' = rpc
    BY <1>4
    DEF SubscriberStep, SubscriberReceive, SubscriberDeliver, SubscriberReply
  <2>2. CASE SubscriberDeliver(n)
    <3>1. PICK j \in job[n] : deliver(Target[j.req], j.req)
      BY <2>2 DEF SubscriberDeliver
    <3>2. j.req \in Resolver /\ j.req \in Decider /\ Target[j.req] \in Call
      BY <1>1, GateAssumption DEF TypeOK, Job, Decider
    <3>3. PICK c \in Call, d \in Decider : deliver(c, d)
      BY <3>1, <3>2
    <3>4. /\ Wins(c) => Decision(c) = None /\ Decision(c)' = d
          /\ ~Wins(c) => Decision(c)' = Decision(c)
          /\ \A x \in Call \ {c} : Decision(x)' = Decision(x)
      BY <1>1, <2>2, <3>3, DeliverDecides DEF SubscriberDeliver
    <3>5. CASE Wins(c)
      BY <2>1, <3>4, <3>5, Decides DEF Abstract!Next
    <3>6. CASE ~Wins(c)
      BY <2>1, <3>4, <3>6 DEF Abstract!vars
    <3> QED
      BY <3>5, <3>6
  <2>3. CASE ~SubscriberDeliver(n)
    <3>1. Quiet
      BY <1>4, <2>3 DEF SubscriberStep, Quiet, SubscriberReceive, SubscriberReply
    <3> QED
      BY <1>1, <2>1, <3>1, QuietKeeps DEF Abstract!vars
  <2> QED
    BY <2>2, <2>3
<1>5. CASE UNCHANGED vars
  BY <1>5 DEF vars, Abstract!vars, Decision
<1> QED
  BY <1>2, <1>3, <1>4, <1>5 DEF Next

\* Waiters, replicas and Redis together keep the promise of OneDecision: one
\* decision per call, for good, and "ok" to nobody but the one who made it.
THEOREM Refinement == Spec => Implements
<1>1. IInv /\ [Next]_vars => [Abstract!Next]_(Abstract!vars)
  BY NextRefines
<1> QED
  BY InitRefines, Invariance, <1>1, PTL DEF Spec, Implements, Abstract!Spec
=============================================================================
