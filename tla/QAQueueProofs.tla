--------------------------- MODULE QAQueueProofs ---------------------------
(***************************************************************************)
(* The theorems about QAQueue, for any requests, users, instances, limits  *)
(* and faults, with Redis or without it.                                   *)
(*                                                                         *)
(* The counters are compared with sets of requests, so every step must say *)
(* which request enters or leaves which set.  Sane says what a request in  *)
(* each state has been counted for, and thereby what its end gives back.   *)
(* LimitsHold is not inductive: it rests on the ledgers, which also hold,  *)
(* as lower bounds, when instances die and DECRs are lost.                 *)
(***************************************************************************)
EXTENDS QAQueue, SequenceTheorems, FiniteSetTheorems, WellFoundedInduction, TLAPS

\* What a request has been counted for, by its state.
Sane(q) ==
  /\ q.st = "new" => q.node = None /\ q.counted = "no" /\ q.slot = "no"
  /\ q.st # "new" => q.node \in Nodes
  /\ q.st = "ended" => q.counted # "yes"
  /\ redis /\ q.st \notin {"new", "ended"} => q.counted \in {"yes", "never"}
  /\ ~redis => q.counted = "no"
  /\ redis /\ q.st \in InHandler => q.slot \in {"held", "stray"}
  /\ q.st \in {"over", "counted", "queued", "taken", "gate"} => q.slot = "no"
  /\ q.how # "none" => q.st \in {"leave", "release", "uncount", "ended"}

\* A queue holds the requests that are queued there, each of them once.
QueueInv ==
  \A n \in Nodes :
    /\ \A i, j \in 1..Len(queue[n]) : queue[n][i] = queue[n][j] => i = j
    /\ \A r \in Requests :
         (req[r].st = "queued" /\ req[r].node = n) <=>
         \E i \in 1..Len(queue[n]) : queue[n][i] = r

\* Without Redis the instance's own count is exact, and within the limit.
LiteLedger ==
  ~redis => \A n \in Nodes, u \in Users :
    /\ perUser[n][u] = Cardinality(Queued(n, u))
    /\ perUser[n][u] <= MaxPerUser

LetIn(u) == {r \in Yes(u) : req[r].st # "over"}

NoLoss == faults \cap {"decr", "ttl", "crash"} = {}

UserLedger ==
  redis => \A u \in Users :
    /\ NoLoss => users[u].n = Cardinality(Yes(u)) - Cardinality(NeverEnded(u))
    /\ "ttl" \notin faults =>
         /\ users[u].n >= Cardinality(Yes(u)) - Cardinality(NeverEnded(u))
         /\ Cardinality(LetIn(u)) <= MaxPerUser + Cardinality(NeverEnded(u))

GateLedger ==
  redis =>
    /\ NoLoss => gate.n = Cardinality(WithSlot) - Cardinality(Spent)
    /\ "ttl" \notin faults =>
         /\ gate.n >= Cardinality(WithSlot) - Cardinality(Spent)
         /\ gate.n <= GlobalMax

\* What is known of a command under way, and of the entries it looks up.
StopOK ==
  /\ stop \in [pc : {"none", "inflight", "lookup", "mark"},
               node : Nodes \cup {None}, user : Users \cup {None},
               ids : Requests \cup {None}, sole : Requests \cup {None}]
  /\ stop.pc # "none" => stop.node \in Nodes /\ stop.user \in Users
  /\ stop.sole # None => redis /\ UserOf[stop.sole] = stop.user
  /\ doomed \subseteq Requests

EntryOK == \A n \in Nodes, u \in Users : inflight[n][u].who = None => inflight[n][u] = Nobody

\* The ways a doomed request is kept from being answered.
Doomed(r) ==
  \/ "marker" \in faults
  \/ \E s \in Requests \ {r} : UserOf[s] = UserOf[r] /\ req[s].how = "dropped"
  \/ req[r].how \notin {"none", "answered"}
  \/ req[r].how = "none" /\ ~req[r].live
  \/ /\ redis /\ UserOf[r] \in marker /\ req[r].how = "none"
     /\ req[r].st \in {"counted", "queued", "taken", "gate", "enter", "check"}

AllDoomed == \A r \in doomed : Doomed(r)

IInv ==
  /\ TypeOK /\ \A r \in Requests : Sane(req[r])
  /\ QueueInv /\ LiteLedger /\ UserLedger /\ GateLedger
  /\ StopOK /\ EntryOK /\ AllDoomed

-----------------------------------------------------------------------------
(* Counting *)

\* When two sets differ in one request at most, so do their sizes.
LEMMA CountOne ==
  ASSUME NEW S, IsFiniteSet(S), NEW A \in SUBSET S, NEW B \in SUBSET S,
         NEW r \in S, \A x \in S \ {r} : x \in A <=> x \in B
  PROVE  /\ Cardinality(A) \in Nat /\ Cardinality(B) \in Nat
         /\ (r \in A <=> r \in B) => Cardinality(B) = Cardinality(A)
         /\ r \in A /\ r \notin B => Cardinality(B) = Cardinality(A) - 1
         /\ r \notin A /\ r \in B => Cardinality(B) = Cardinality(A) + 1
<1>1. IsFiniteSet(A) /\ IsFiniteSet(B)
  BY FS_Subset
<1>2. Cardinality(A) \in Nat /\ Cardinality(B) \in Nat
  BY <1>1, FS_CardinalityType
<1>3. ASSUME r \in A <=> r \in B PROVE Cardinality(B) = Cardinality(A)
  <2>1. A = B
    BY <1>3
  <2> QED BY <2>1
<1>4. ASSUME r \in A, r \notin B PROVE Cardinality(B) = Cardinality(A) - 1
  <2>1. B = A \ {r}
    BY <1>4
  <2> QED BY <1>1, <1>4, <2>1, FS_RemoveElement
<1>5. ASSUME r \notin A, r \in B PROVE Cardinality(B) = Cardinality(A) + 1
  <2>1. B = A \cup {r}
    BY <1>5
  <2> QED BY <1>1, <1>5, <2>1, FS_AddElement
<1> QED BY <1>2, <1>3, <1>4, <1>5

\* The sets of requests that are counted are finite.
LEMMA FiniteCounts ==
  ASSUME NEW u
  PROVE  /\ IsFiniteSet(Yes(u)) /\ Cardinality(Yes(u)) \in Nat
         /\ IsFiniteSet(NeverEnded(u)) /\ Cardinality(NeverEnded(u)) \in Nat
         /\ IsFiniteSet(LetIn(u)) /\ Cardinality(LetIn(u)) \in Nat
         /\ Cardinality(LetIn(u)) <= Cardinality(Yes(u))
         /\ IsFiniteSet(WithSlot) /\ Cardinality(WithSlot) \in Nat
         /\ IsFiniteSet(Spent) /\ Cardinality(Spent) \in Nat
<1>1. /\ Yes(u) \subseteq Requests /\ NeverEnded(u) \subseteq Requests
      /\ LetIn(u) \subseteq Yes(u)
      /\ WithSlot \subseteq Requests /\ Spent \subseteq Requests
  BY DEF Yes, NeverEnded, Never, LetIn, WithSlot, Spent
<1>2. IsFiniteSet(Requests)
  BY QAAssumption DEF QAAssumption
<1>3. /\ IsFiniteSet(Yes(u)) /\ IsFiniteSet(NeverEnded(u))
      /\ IsFiniteSet(WithSlot) /\ IsFiniteSet(Spent)
  BY <1>1, <1>2, FS_Subset
<1>4. IsFiniteSet(LetIn(u)) /\ Cardinality(LetIn(u)) <= Cardinality(Yes(u))
  BY <1>1, <1>3, FS_Subset
<1> QED BY <1>3, <1>4, FS_CardinalityType

-----------------------------------------------------------------------------
(* Steps that leave a counter and what it counts alone *)

LEMMA UserKept ==
  ASSUME UserLedger, faults \subseteq faults', redis' = redis, users' = users,
         \A x \in Requests : /\ req'[x].counted = req[x].counted
                             /\ (req'[x].st = "ended") = (req[x].st = "ended")
                             /\ (req'[x].st = "over") = (req[x].st = "over")
  PROVE  UserLedger'
<1>1. \A u \in Users : /\ Yes(u)' = Yes(u) /\ NeverEnded(u)' = NeverEnded(u)
                       /\ LetIn(u)' = LetIn(u)
  BY DEF Yes, NeverEnded, Never, LetIn
<1>2. (NoLoss' => NoLoss) /\ ("ttl" \notin faults' => "ttl" \notin faults)
  BY DEF NoLoss
<1> QED BY <1>1, <1>2 DEF UserLedger

LEMMA GateKept ==
  ASSUME GateLedger, faults \subseteq faults', redis' = redis, gate'.n = gate.n,
         \A x \in Requests : req'[x].slot = req[x].slot
  PROVE  GateLedger'
<1>1. WithSlot' = WithSlot /\ Spent' = Spent
  BY DEF WithSlot, Spent
<1>2. (NoLoss' => NoLoss) /\ ("ttl" \notin faults' => "ttl" \notin faults)
  BY DEF NoLoss
<1> QED BY <1>1, <1>2 DEF GateLedger

LEMMA LiteKept ==
  ASSUME LiteLedger, redis' = redis, perUser' = perUser,
         \A x \in Requests : /\ (req'[x].st = "queued") = (req[x].st = "queued")
                             /\ req[x].st = "queued" => req'[x].node = req[x].node
  PROVE  LiteLedger'
<1>1. \A n \in Nodes, u \in Users : Queued(n, u)' = Queued(n, u)
  BY DEF Queued
<1> QED BY <1>1 DEF LiteLedger

LEMMA QueueKept ==
  ASSUME QueueInv, queue' = queue,
         \A x \in Requests : /\ (req'[x].st = "queued") = (req[x].st = "queued")
                             /\ req[x].st = "queued" => req'[x].node = req[x].node
  PROVE  QueueInv'
BY DEF QueueInv

-----------------------------------------------------------------------------
(* Steps that change what one request is counted for *)

LEMMA KeyChanges ==
  ASSUME NEW k \in Key
  PROVE  /\ Incr(k) \in Key /\ Incr(k).n = k.n + 1
         /\ Decr(k) \in Key /\ Decr(k).n = k.n - 1
         /\ Absent \in Key /\ Absent.n = 0 /\ k.n \in Int
BY DEF Key, Incr, Decr, Absent

\* The key of a user after a DECR that may be lost.
LEMMA DecrType ==
  ASSUME TypeOK, NEW u \in Users, DecrUser(u)
  PROVE  /\ faults \subseteq faults' /\ users' \in [Users -> Key]
         /\ \A v \in Users : /\ v # u => users'[v] = users[v]
                             /\ users'[v].n \in Int
         /\ \/ redis /\ users'[u].n = users[u].n - 1 /\ faults' = faults
            \/ redis /\ users'[u] = users[u] /\ faults' = faults \cup {"decr"}
            \/ ~redis /\ users' = users /\ faults' = faults
<1>1. \A v \in Users : users[v] \in Key /\ Decr(users[v]) \in Key
                       /\ Decr(users[v]).n = users[v].n - 1
  BY DEF TypeOK, Key, Decr
<1>2. users \in [Users -> Key]
  BY DEF TypeOK
<1>3. CASE ~redis
  BY <1>1, <1>2, <1>3 DEF DecrUser, Key
<1>4. CASE redis /\ users' = [users EXCEPT ![u] = Decr(@)] /\ UNCHANGED faults
  BY <1>1, <1>2, <1>4, Zenon DEF Key
<1>5. CASE redis /\ Fault("decr") /\ UNCHANGED users
  BY <1>1, <1>2, <1>5 DEF Fault, Key
<1> QED BY <1>3, <1>4, <1>5 DEF DecrUser

\* How a request may have ended.
Ways == {"none", "rejected", "removed", "discarded", "answered", "cancelled", "dropped", "crashed"}

\* What the end of a request makes of it.
LEMMA EndIs ==
  ASSUME TypeOK, NEW r \in Requests, NEW how \in Ways
  PROVE  LET q == End(req[r], how) IN
         /\ q \in RequestStates
         /\ q.st = "ended" /\ q.how = how /\ q.live = FALSE
         /\ q.counted = (IF req[r].counted = "yes" THEN "no" ELSE req[r].counted)
         /\ q.node = req[r].node /\ q.slot = req[r].slot
<1>1. req[r] \in RequestStates
  BY DEF TypeOK
<1> QED BY <1>1, ZenonT(60) DEF End, RequestStates, States, Ways

\* A request that ends is counted no more, or adds to those that gave back
\* what they were not counted for: in both cases one DECR is owed.
LEMMA EndKeepsUsers ==
  ASSUME TypeOK, UserLedger, NEW r \in Requests, Sane(req[r]),
         req[r].st \notin {"new", "ended"},
         NEW q, q.st = "ended",
         q.counted = (IF req[r].counted = "yes" THEN "no" ELSE req[r].counted),
         req' = [req EXCEPT ![r] = q], DecrUser(UserOf[r]), redis' = redis
  PROVE  UserLedger'
<1> DEFINE u0 == UserOf[r]
<1>1. u0 \in Users
  BY QAAssumption DEF QAAssumption
<1>2. req'[r] = q /\ \A x \in Requests \ {r} : req'[x] = req[x]
  BY DEF TypeOK
<1> SUFFICES ASSUME redis, NEW u \in Users
             PROVE  /\ NoLoss' => users'[u].n = Cardinality(Yes(u)') - Cardinality(NeverEnded(u)')
                    /\ "ttl" \notin faults' =>
                         /\ users'[u].n >= Cardinality(Yes(u)') - Cardinality(NeverEnded(u)')
                         /\ Cardinality(LetIn(u)') <= MaxPerUser + Cardinality(NeverEnded(u)')
  BY DEF UserLedger
<1>3. faults \subseteq faults'
  BY <1>1, DecrType
<1>4. (NoLoss' => NoLoss) /\ ("ttl" \notin faults' => "ttl" \notin faults)
  BY <1>3 DEF NoLoss
<1>5. /\ NoLoss => users[u].n = Cardinality(Yes(u)) - Cardinality(NeverEnded(u))
      /\ "ttl" \notin faults =>
           /\ users[u].n >= Cardinality(Yes(u)) - Cardinality(NeverEnded(u))
           /\ Cardinality(LetIn(u)) <= MaxPerUser + Cardinality(NeverEnded(u))
  BY DEF UserLedger
<1>6. CASE u # u0
  <2>1. Yes(u)' = Yes(u) /\ NeverEnded(u)' = NeverEnded(u) /\ LetIn(u)' = LetIn(u)
    BY <1>2, <1>6 DEF Yes, NeverEnded, Never, LetIn
  <2>2. users'[u] = users[u]
    BY <1>1, <1>6, DecrType
  <2> QED BY <1>4, <1>5, <2>1, <2>2
<1>7. CASE u = u0
  <2>1. IsFiniteSet(Requests)
    BY QAAssumption DEF QAAssumption
  <2>2. /\ \A x \in Requests \ {r} : /\ x \in Yes(u)' <=> x \in Yes(u)
                                     /\ x \in NeverEnded(u)' <=> x \in NeverEnded(u)
                                     /\ x \in LetIn(u)' <=> x \in LetIn(u)
        /\ Yes(u) \in SUBSET Requests /\ Yes(u)' \in SUBSET Requests
        /\ NeverEnded(u) \in SUBSET Requests /\ NeverEnded(u)' \in SUBSET Requests
        /\ LetIn(u) \in SUBSET Requests /\ LetIn(u)' \in SUBSET Requests
    BY <1>2 DEF Yes, NeverEnded, Never, LetIn
  <2>3. req[r].counted \in {"yes", "never"}
    BY DEF Sane
  <2>4. /\ r \in Yes(u) <=> req[r].counted = "yes"
        /\ r \notin Yes(u)' /\ r \notin LetIn(u)' /\ r \notin NeverEnded(u)
        /\ r \in NeverEnded(u)' <=> req[r].counted = "never"
        /\ r \in LetIn(u) => req[r].counted = "yes"
    BY <1>2, <1>7 DEF Yes, NeverEnded, Never, LetIn
  <2>5. /\ Cardinality(Yes(u)) \in Nat /\ Cardinality(Yes(u)') \in Nat
        /\ (r \in Yes(u) <=> r \in Yes(u)') => Cardinality(Yes(u)') = Cardinality(Yes(u))
        /\ r \in Yes(u) /\ r \notin Yes(u)' => Cardinality(Yes(u)') = Cardinality(Yes(u)) - 1
    BY <2>1, <2>2, CountOne
  <2>6. /\ Cardinality(NeverEnded(u)) \in Nat /\ Cardinality(NeverEnded(u)') \in Nat
        /\ (r \in NeverEnded(u) <=> r \in NeverEnded(u)') =>
             Cardinality(NeverEnded(u)') = Cardinality(NeverEnded(u))
        /\ r \notin NeverEnded(u) /\ r \in NeverEnded(u)' =>
             Cardinality(NeverEnded(u)') = Cardinality(NeverEnded(u)) + 1
    BY <2>1, <2>2, CountOne
  <2>7. /\ Cardinality(LetIn(u)) \in Nat /\ Cardinality(LetIn(u)') \in Nat
        /\ Cardinality(LetIn(u)') <= Cardinality(LetIn(u))
    <3>1. /\ Cardinality(LetIn(u)) \in Nat /\ Cardinality(LetIn(u)') \in Nat
          /\ (r \in LetIn(u) <=> r \in LetIn(u)') => Cardinality(LetIn(u)') = Cardinality(LetIn(u))
          /\ r \in LetIn(u) /\ r \notin LetIn(u)' => Cardinality(LetIn(u)') = Cardinality(LetIn(u)) - 1
      BY <2>1, <2>2, CountOne
    <3> QED BY <2>4, <3>1
  <2>8. Cardinality(Yes(u)') - Cardinality(NeverEnded(u)') =
          Cardinality(Yes(u)) - Cardinality(NeverEnded(u)) - 1
    BY <2>3, <2>4, <2>5, <2>6
  <2>9. Cardinality(NeverEnded(u)') >= Cardinality(NeverEnded(u))
    BY <2>4, <2>6
  <2>10. /\ users[u].n \in Int /\ users'[u].n \in Int
         /\ \/ users'[u].n = users[u].n - 1 /\ faults' = faults
            \/ users'[u] = users[u] /\ faults' = faults \cup {"decr"}
    <3>1. users[u].n \in Int
      BY DEF TypeOK, Key
    <3> QED BY <1>1, <1>7, <3>1, DecrType
  <2>11. MaxPerUser \in Nat
    BY QAAssumption DEF QAAssumption
  <2>12. NoLoss' => users'[u].n = users[u].n - 1
    BY <2>10 DEF NoLoss
  <2> HIDE DEF u0
  <2> QED BY <1>4, <1>5, <2>5, <2>6, <2>7, <2>8, <2>9, <2>10, <2>11, <2>12
<1> QED BY <1>6, <1>7

-----------------------------------------------------------------------------
(* Steps of one request *)

Early == {"counted", "queued", "taken", "gate", "enter", "check"}

\* A request that becomes q is kept from an answer as before.
StillKept(r, q) ==
  /\ req[r].how \notin {"none", "answered"} => q.how = req[r].how
  /\ req[r].how = "none" /\ ~req[r].live =>
       q.how \notin {"none", "answered"} \/ (q.how = "none" /\ ~q.live)
  /\ (req[r].how = "none" /\ req[r].st \in Early /\ redis /\ UserOf[r] \in marker
        /\ "marker" \notin faults') =>
       q.how \notin {"none", "answered"} \/ (q.how = "none" /\ (~q.live \/ q.st \in Early))

LEMMA DoomedKept ==
  ASSUME AllDoomed, doomed' = doomed, doomed \subseteq Requests,
         faults \subseteq faults', redis' = redis, marker \subseteq marker', TypeOK,
         NEW r \in Requests, NEW q, req' = [req EXCEPT ![r] = q], StillKept(r, q)
  PROVE  AllDoomed'
<1> SUFFICES ASSUME NEW d \in doomed PROVE Doomed(d)'
  BY DEF AllDoomed
<1>1. req'[r] = q /\ \A x \in Requests \ {r} : req'[x] = req[x]
  BY DEF TypeOK
<1>2. d \in Requests /\ Doomed(d)
  BY DEF AllDoomed
<1>3. CASE "marker" \in faults'
  BY <1>3 DEF Doomed
<1>4. ASSUME NEW s \in Requests \ {d}, UserOf[s] = UserOf[d], req[s].how = "dropped"
      PROVE  Doomed(d)'
  <2>1. req'[s].how = "dropped"
    BY <1>1, <1>4 DEF StillKept
  <2> QED BY <1>4, <2>1 DEF Doomed
<1>5. CASE d # r
  BY <1>1, <1>2, <1>3, <1>4, <1>5 DEF Doomed, Early
<1>6. CASE d = r
  <2>1. CASE req[r].how \notin {"none", "answered"}
    BY <1>1, <1>6, <2>1 DEF Doomed, StillKept
  <2>2. CASE req[r].how = "none" /\ ~req[r].live
    <3>1. q.how \notin {"none", "answered"} \/ (q.how = "none" /\ ~q.live)
      BY <2>2 DEF StillKept
    <3> QED BY <1>1, <1>6, <3>1 DEF Doomed
  <2>3. CASE /\ redis /\ UserOf[r] \in marker /\ req[r].how = "none"
             /\ "marker" \notin faults' /\ req[r].st \in Early
    <3>1. \/ q.how \notin {"none", "answered"}
          \/ q.how = "none" /\ ~q.live
          \/ q.how = "none" /\ q.st \in Early
      BY <2>3 DEF StillKept
    <3>2. UserOf[r] \in marker' /\ redis'
      BY <2>3
    <3> QED BY <1>1, <1>6, <3>1, <3>2 DEF Doomed, Early
  <2> QED BY <1>2, <1>3, <1>4, <1>6, <2>1, <2>2, <2>3 DEF Doomed, Early
<1> QED BY <1>5, <1>6

EntriesType == [Nodes -> [Users -> [who : Requests \cup {None}, ids : Requests \cup {None}]]]

LEMMA RequestStep ==
  ASSUME IInv, NEW r \in Requests, NEW q \in RequestStates, req' = [req EXCEPT ![r] = q],
         Sane(q), AllDoomed',
         q.st # "queued", req[r].st # "queued",
         UNCHANGED <<redis, local, stop, doomed>>,
         faults \subseteq faults', marker' \subseteq Users,
         inflight' \in EntriesType, EntryOK', mapping' \in [Users -> Requests \cup {None}],
         events' \subseteq Requests, users' \in [Users -> Key], gate' \in Key,
         UserLedger', GateLedger'
  PROVE  IInv'
<1>1. redis' = redis /\ queue' = queue /\ perUser' = perUser /\ closed' = closed
      /\ stop' = stop /\ doomed' = doomed
  BY DEF local
<1>2. TypeOK /\ TypeOK'
  <2>1. TypeOK
    BY DEF IInv
  <2>2. req' \in [Requests -> RequestStates]
    BY <2>1 DEF TypeOK
  <2> QED BY <1>1, <2>1, <2>2, Zenon DEF TypeOK, EntriesType
<1>3. req'[r] = q /\ \A x \in Requests \ {r} : req'[x] = req[x]
  BY <1>2 DEF TypeOK
<1>4. \A x \in Requests : Sane(req[x])'
  <2>1. \A x \in Requests : Sane(req[x])
    BY DEF IInv
  <2>2. Sane(req[r])'
    BY <1>1, <1>3 DEF Sane
  <2>3. \A x \in Requests \ {r} : Sane(req[x])'
    BY <1>1, <1>3, <2>1 DEF Sane
  <2> QED BY <2>2, <2>3
<1>5. \A x \in Requests : /\ (req'[x].st = "queued") = (req[x].st = "queued")
                          /\ req[x].st = "queued" => req'[x].node = req[x].node
  BY <1>3
<1>6. QueueInv' /\ LiteLedger'
  BY <1>1, <1>5, QueueKept, LiteKept DEF IInv
<1>7. StopOK'
  <2>1. StopOK
    BY DEF IInv
  <2> QED BY <1>1, <2>1 DEF StopOK
<1> QED BY <1>2, <1>4, <1>6, <1>7 DEF IInv

\* A request that moves on, cancelled or not, without touching a counter.
LEMMA PlainStep ==
  ASSUME IInv, NEW r \in Requests, NEW q \in RequestStates, req' = [req EXCEPT ![r] = q],
         Sane(q), AllDoomed', q.node = req[r].node,
         q.counted = req[r].counted, q.slot = req[r].slot,
         q.st \notin {"queued", "ended", "over"}, req[r].st \notin {"queued", "ended", "over"},
         UNCHANGED <<redis, local, users, gate, stop, doomed>>,
         faults \subseteq faults', marker' \subseteq Users,
         inflight' \in EntriesType, EntryOK', mapping' \in [Users -> Requests \cup {None}],
         events' \subseteq Requests
  PROVE  IInv'
<1>1. TypeOK /\ UserLedger /\ GateLedger
  BY DEF IInv
<1>2. req'[r] = q /\ \A x \in Requests \ {r} : req'[x] = req[x]
  BY <1>1 DEF TypeOK
<1>3. redis' = redis /\ users' = users /\ gate' = gate
  OBVIOUS
<1>4. users' \in [Users -> Key] /\ gate' \in Key
  BY <1>1, <1>3 DEF TypeOK
<1>5. \A x \in Requests : /\ req'[x].counted = req[x].counted
                          /\ (req'[x].st = "ended") = (req[x].st = "ended")
                          /\ (req'[x].st = "over") = (req[x].st = "over")
                          /\ req'[x].slot = req[x].slot
  BY <1>2
<1>6. UserLedger' /\ GateLedger'
  BY <1>1, <1>3, <1>5, UserKept, GateKept
<1> QED BY <1>4, <1>6, RequestStep

\* A request that ends where it was not queued, and gives its count back.
LEMMA EndStep ==
  ASSUME IInv, NEW r \in Requests, NEW how \in Ways,
         req[r].st \notin {"new", "queued", "ended"},
         req[r].how \in {"none", how},
         Finish(r, how), DecrUser(UserOf[r]),
         UNCHANGED <<redis, local, reach, gate, command>>
  PROVE  how # "answered" \/ req[r].how = "answered" => IInv'
<1> SUFFICES ASSUME how # "answered" \/ req[r].how = "answered" PROVE IInv'
  OBVIOUS
<1> DEFINE q == End(req[r], how)
<1>1. TypeOK /\ UserLedger /\ GateLedger /\ Sane(req[r]) /\ EntryOK
      /\ AllDoomed /\ doomed \subseteq Requests
  BY DEF IInv, StopOK
<1>2. /\ q \in RequestStates
      /\ q.st = "ended" /\ q.how = how /\ q.live = FALSE
      /\ q.counted = (IF req[r].counted = "yes" THEN "no" ELSE req[r].counted)
      /\ q.node = req[r].node /\ q.slot = req[r].slot
  BY <1>1, EndIs DEF Ways
<1>3. req' = [req EXCEPT ![r] = q]
  BY DEF Finish
<1> HIDE DEF q
<1>4. Sane(q)
  BY <1>1, <1>2 DEF Sane, InHandler
<1>5. StillKept(r, q)
  BY <1>2 DEF StillKept
<1>6. UserOf[r] \in Users
  BY QAAssumption DEF QAAssumption
<1>7. faults \subseteq faults' /\ users' \in [Users -> Key]
  BY <1>1, <1>6, DecrType
<1>8. UserLedger'
  BY <1>1, <1>2, <1>3, EndKeepsUsers
<1>9. GateLedger' /\ gate' \in Key
  <2>1. \A x \in Requests : req'[x].slot = req[x].slot
    BY <1>1, <1>2, <1>3 DEF TypeOK
  <2>2. gate'.n = gate.n /\ redis' = redis
    OBVIOUS
  <2>3. gate' \in Key
    BY <1>1 DEF TypeOK
  <2> QED BY <1>1, <1>7, <2>1, <2>2, <2>3, GateKept
<1>10. /\ inflight' \in EntriesType /\ mapping' \in [Users -> Requests \cup {None}]
       /\ events' \subseteq Requests /\ marker \subseteq marker' /\ marker' \subseteq Users
       /\ EntryOK' /\ UNCHANGED <<redis, local, stop, doomed>>
  BY <1>1 DEF TypeOK, EntriesType, reach, command, EntryOK
<1>11. AllDoomed'
  BY <1>1, <1>3, <1>5, <1>7, <1>10, DoomedKept
<1> QED BY <1>2, <1>3, <1>4, <1>7, <1>8, <1>9, <1>10, <1>11, RequestStep

-----------------------------------------------------------------------------
(* The handler *)

LEMMA EndsKeep ==
  ASSUME IInv, NEW r \in Requests,
         \/ RejectOver(r) \/ EnqueueRefused(r) \/ Discard(r) \/ GiveUp(r) \/ Uncount(r)
  PROVE  IInv'
<1>1. req[r] \in RequestStates /\ Sane(req[r])
  BY DEF IInv, TypeOK
<1>2. req[r].how \in Ways
  BY <1>1 DEF RequestStates, Ways
<1>3. req[r].st \in {"over", "counted", "taken", "gate"} => req[r].how = "none"
  BY <1>1 DEF Sane
<1>4. CASE RejectOver(r) \/ EnqueueRefused(r)
  <2>1. /\ req[r].st \in {"over", "counted"} /\ DecrUser(UserOf[r]) /\ Finish(r, "rejected")
        /\ UNCHANGED <<redis, local, reach, gate, command>>
    BY <1>4 DEF RejectOver, EnqueueRefused
  <2>2. "rejected" \in Ways
    BY DEF Ways
  <2> QED BY <1>3, <2>1, <2>2, EndStep
<1>5. CASE Discard(r) \/ GiveUp(r)
  <2>1. /\ req[r].st \in {"taken", "gate"} /\ DecrUser(UserOf[r]) /\ Finish(r, "discarded")
        /\ UNCHANGED <<redis, local, reach, gate, command>>
    BY <1>5 DEF Discard, GiveUp
  <2>2. "discarded" \in Ways
    BY DEF Ways
  <2> QED BY <1>3, <2>1, <2>2, EndStep
<1>6. CASE Uncount(r)
  <2>1. /\ req[r].st = "uncount" /\ DecrUser(UserOf[r]) /\ Finish(r, req[r].how)
        /\ UNCHANGED <<redis, local, reach, gate, command>>
    BY <1>6 DEF Uncount
  <2> QED BY <1>2, <2>1, EndStep
<1> QED BY <1>4, <1>5, <1>6

\* A request that is served moves on; what it was counted for stays.
Moved(r, q) ==
  /\ q \in RequestStates /\ req' = [req EXCEPT ![r] = q]
  /\ Sane(q) /\ q.node = req[r].node
  /\ q.counted = req[r].counted /\ q.slot = req[r].slot
  /\ q.st \notin {"queued", "ended", "over"}
  /\ req[r].st \notin {"queued", "ended", "over"}

\* A move that takes no marker away.
LEMMA MovedStep ==
  ASSUME IInv, NEW r \in Requests, NEW q, Moved(r, q), StillKept(r, q),
         UNCHANGED <<redis, local, users, gate, command>>,
         faults \subseteq faults', marker \subseteq marker', marker' \subseteq Users,
         inflight' \in EntriesType, EntryOK', mapping' \in [Users -> Requests \cup {None}],
         events' \subseteq Requests
  PROVE  IInv'
<1>1. AllDoomed /\ doomed \subseteq Requests /\ TypeOK
  BY DEF IInv, StopOK
<1>2. doomed' = doomed /\ stop' = stop /\ redis' = redis
  BY DEF command
<1>3. AllDoomed'
  BY <1>1, <1>2, DoomedKept DEF Moved
<1>4. UNCHANGED <<redis, local, users, gate, stop, doomed>>
  BY <1>2
<1> QED BY <1>3, <1>4, PlainStep DEF Moved

\* Only the state of the request, its outcome and whether it is live differ.
Turned(r, q) ==
  /\ q \in RequestStates /\ req' = [req EXCEPT ![r] = q]
  /\ q.node = req[r].node /\ q.counted = req[r].counted /\ q.slot = req[r].slot

\* Between states in which a request has been counted for the same things.
LEMMA MoveIs ==
  ASSUME IInv, NEW r \in Requests, NEW q, Turned(r, q),
         \/ req[r].st = "taken" /\ q.st = "gate"
         \/ /\ req[r].st \in {"enter", "check", "ask", "answer", "leave"}
            /\ q.st \in {"check", "ask", "answer", "leave", "release"}
         \/ req[r].st \notin {"new", "ended", "queued", "over"} /\ q.st = req[r].st,
         q.how # "none" => q.st \in {"leave", "release", "uncount"}
  PROVE  Moved(r, q)
<1>1. req[r] \in RequestStates /\ Sane(req[r])
  BY DEF IInv, TypeOK
<1>2. /\ q \in RequestStates
      /\ q.node = req[r].node /\ q.counted = req[r].counted /\ q.slot = req[r].slot
  BY DEF Turned
<1>3. Sane(q) /\ q.st \notin {"queued", "ended", "over"}
               /\ req[r].st \notin {"queued", "ended", "over"}
  <2>1. CASE req[r].st = "taken" /\ q.st = "gate"
    BY <1>1, <1>2, <2>1 DEF Sane, InHandler
  <2>2. CASE /\ req[r].st \in {"enter", "check", "ask", "answer", "leave"}
             /\ q.st \in {"check", "ask", "answer", "leave", "release"}
    <3>1. req[r].st \in InHandler /\ q.st \in InHandler
      BY <2>2 DEF InHandler
    <3> QED BY <1>1, <1>2, <2>2, <3>1 DEF Sane
  <2>3. CASE req[r].st \notin {"new", "ended", "queued", "over"} /\ q.st = req[r].st
    BY <1>1, <1>2, <2>3 DEF Sane
  <2> QED BY <2>1, <2>2, <2>3
<1> QED BY <1>2, <1>3 DEF Moved, Turned

\* Every state of a request is one of States.
LEMMA StateNames ==
  ASSUME IInv, NEW r \in Requests
  PROVE  /\ TypeOK /\ EntryOK /\ Sane(req[r])
         /\ req[r] \in RequestStates /\ req[r].how \in Ways /\ req[r].live \in BOOLEAN
         /\ {"gate", "check", "ask", "answer", "leave", "release", "uncount"} \subseteq States
         /\ UserOf[r] \in Users
         /\ req[r].st # "new" => req[r].node \in Nodes
<1>1. TypeOK /\ EntryOK /\ Sane(req[r])
  BY DEF IInv
<1>2. req[r] \in RequestStates
  BY <1>1 DEF TypeOK
<1>3. req[r].how \in Ways /\ req[r].live \in BOOLEAN
  BY <1>2 DEF RequestStates, Ways
<1>4. UserOf[r] \in Users
  BY QAAssumption DEF QAAssumption
<1> QED BY <1>1, <1>2, <1>3, <1>4 DEF States, Busy, Sane

LEMMA AdmitKeeps ==
  ASSUME IInv, NEW r \in Requests, Admit(r)
  PROVE  IInv'
<1> DEFINE q == [req[r] EXCEPT !.st = "gate"]
<1>1. /\ req[r].st = "taken" /\ req' = [req EXCEPT ![r] = q]
      /\ UNCHANGED <<redis, local, reach, users, gate, command, faults>>
  BY DEF Admit, Move
<1>2. /\ q \in RequestStates /\ q.st = "gate" /\ q.how = req[r].how /\ q.live = req[r].live
      /\ q.node = req[r].node /\ q.counted = req[r].counted /\ q.slot = req[r].slot
  <2>1. req[r] \in RequestStates
    BY StateNames
  <2> QED BY <2>1 DEF RequestStates, States, Busy
<1>3. /\ inflight' \in EntriesType /\ mapping' \in [Users -> Requests \cup {None}]
      /\ events' \subseteq Requests /\ marker \subseteq marker' /\ marker' \subseteq Users
      /\ EntryOK' /\ UNCHANGED <<redis, local, users, gate, command>> /\ faults \subseteq faults'
  BY <1>1, StateNames DEF TypeOK, EntriesType, reach, EntryOK
<1> HIDE DEF q
<1>4. Turned(r, q)
  BY <1>1, <1>2 DEF Turned
<1>5. q.how = "none"
  BY <1>1, <1>2, StateNames DEF Sane
<1>6. Moved(r, q)
  BY <1>1, <1>2, <1>4, <1>5, MoveIs
<1>7. StillKept(r, q)
  BY <1>1, <1>2 DEF StillKept, Early
<1> QED BY <1>3, <1>6, <1>7, MovedStep

LEMMA StoreInflightKeeps ==
  ASSUME IInv, NEW r \in Requests, StoreInflight(r)
  PROVE  IInv'
<1> DEFINE q == [req[r] EXCEPT !.st = "check"]
           n == req[r].node
           u == UserOf[r]
           e == [who |-> r, ids |-> None]
<1>1. /\ req[r].st = "enter" /\ req' = [req EXCEPT ![r] = q]
      /\ inflight' = [inflight EXCEPT ![n][u] = e]
      /\ UNCHANGED <<redis, local, mapping, events, marker, users, gate, command, faults>>
  BY DEF StoreInflight, Move
<1>2. /\ q \in RequestStates /\ q.st = "check" /\ q.how = req[r].how /\ q.live = req[r].live
      /\ q.node = req[r].node /\ q.counted = req[r].counted /\ q.slot = req[r].slot
  <2>1. req[r] \in RequestStates
    BY StateNames
  <2> QED BY <2>1 DEF RequestStates, States, Busy
<1>3. n \in Nodes /\ u \in Users /\ inflight \in EntriesType
  BY <1>1, StateNames DEF TypeOK, EntriesType
<1>4. inflight' \in EntriesType
  BY <1>1, <1>3 DEF EntriesType
<1>5. EntryOK'
  <2>1. \A m \in Nodes, v \in Users :
          inflight'[m][v] = inflight[m][v] \/ inflight'[m][v].who = r
    BY <1>1, <1>3 DEF EntriesType
  <2>2. EntryOK /\ r # None
    BY StateNames, QAAssumption DEF QAAssumption
  <2> QED BY <2>1, <2>2 DEF EntryOK
<1>6. /\ mapping' \in [Users -> Requests \cup {None}] /\ UNCHANGED <<redis, local, users, gate, command>>
      /\ events' \subseteq Requests /\ marker \subseteq marker' /\ marker' \subseteq Users
      /\ faults \subseteq faults'
  BY <1>1, StateNames DEF TypeOK
<1> HIDE DEF q
<1>7. Turned(r, q)
  BY <1>1, <1>2 DEF Turned
<1>8. q.how = "none"
  <2>1. req[r].how = "none"
    BY <1>1, StateNames DEF Sane
  <2> QED BY <1>2, <2>1
<1>9. Moved(r, q)
  BY <1>1, <1>2, <1>7, <1>8, MoveIs
<1>10. StillKept(r, q)
  BY <1>1, <1>2 DEF StillKept, Early
<1> QED BY <1>4, <1>5, <1>6, <1>9, <1>10, MovedStep

LEMMA AskKeeps ==
  ASSUME IInv, NEW r \in Requests, Ask(r)
  PROVE  IInv'
<1> DEFINE q == [req[r] EXCEPT !.st = "answer"]
           n == req[r].node
           u == UserOf[r]
<1>1. /\ req[r].st = "ask" /\ req[r].live /\ req' = [req EXCEPT ![r] = q]
      /\ inflight' = IF inflight[n][u] = Nobody THEN inflight
                     ELSE [inflight EXCEPT ![n][u].ids = r]
      /\ mapping' = IF redis THEN [mapping EXCEPT ![u] = r] ELSE mapping
      /\ UNCHANGED <<redis, local, events, marker, users, gate, command, faults>>
  BY DEF Ask, Move
<1>2. /\ q \in RequestStates /\ q.st = "answer" /\ q.how = req[r].how /\ q.live = req[r].live
      /\ q.node = req[r].node /\ q.counted = req[r].counted /\ q.slot = req[r].slot
  <2>1. req[r] \in RequestStates
    BY StateNames
  <2> QED BY <2>1 DEF RequestStates, States, Busy
<1>3. n \in Nodes /\ u \in Users /\ inflight \in EntriesType
  BY <1>1, StateNames DEF TypeOK, EntriesType
<1>4. inflight' \in EntriesType
  <2> DEFINE e == [inflight[n][u] EXCEPT !.ids = r]
             f == [inflight[n] EXCEPT ![u] = e]
  <2>1. e \in [who : Requests \cup {None}, ids : Requests \cup {None}]
    BY <1>3 DEF EntriesType
  <2>2. inflight' = inflight \/ inflight' = [inflight EXCEPT ![n] = f]
    BY <1>1
  <2> HIDE DEF e
  <2>3. f \in [Users -> [who : Requests \cup {None}, ids : Requests \cup {None}]]
    BY <1>3, <2>1 DEF EntriesType
  <2> HIDE DEF f
  <2> QED BY <1>3, <2>2, <2>3 DEF EntriesType
<1>5. EntryOK'
  <2>1. EntryOK
    BY StateNames
  <2>2. CASE inflight[n][u] = Nobody
    BY <1>1, <2>1, <2>2 DEF EntryOK
  <2>3. CASE inflight[n][u] # Nobody
    <3>1. \A m \in Nodes, v \in Users :
            \/ inflight'[m][v] = inflight[m][v]
            \/ m = n /\ v = u /\ inflight'[m][v].who = inflight[m][v].who
      BY <1>1, <1>3, <2>3, SMTT(30) DEF EntriesType
    <3>2. inflight[n][u].who # None
      BY <1>3, <2>1, <2>3 DEF EntryOK
    <3> HIDE DEF n, u
    <3> QED BY <2>1, <3>1, <3>2 DEF EntryOK
  <2> QED BY <2>2, <2>3
<1>6. /\ mapping' \in [Users -> Requests \cup {None}] /\ UNCHANGED <<redis, local, users, gate, command>>
      /\ events' \subseteq Requests /\ marker \subseteq marker' /\ marker' \subseteq Users
      /\ faults \subseteq faults'
  BY <1>1, StateNames DEF TypeOK
<1> HIDE DEF q
<1>7. Turned(r, q)
  BY <1>1, <1>2 DEF Turned
<1>8. q.how = "none"
  <2>1. req[r].how = "none"
    BY <1>1, StateNames DEF Sane
  <2> QED BY <1>2, <2>1
<1>9. Moved(r, q)
  BY <1>1, <1>2, <1>7, <1>8, MoveIs
<1>10. StillKept(r, q)
  BY <1>1, <1>2 DEF StillKept, Early
<1> QED BY <1>4, <1>5, <1>6, <1>9, <1>10, MovedStep

LEMMA AnswerKeeps ==
  ASSUME IInv, NEW r \in Requests, Answer(r) \/ Abandon(r)
  PROVE  IInv'
<1> USE StateNames
<1>1. PICK how \in {"answered", "cancelled"} :
        /\ req[r].st \in {"ask", "answer"}
        /\ how = "answered" => req[r].live
        /\ req' = [req EXCEPT ![r] = [req[r] EXCEPT !.st = "leave", !.how = how]]
        /\ mapping' = mapping \/ ClearMapping(r)
        /\ UNCHANGED <<redis, local, inflight, events, marker, users, gate, command, faults>>
  <2>1. CASE Answer(r)
    BY <2>1 DEF Answer, Leave
  <2>2. CASE Abandon(r)
    BY <2>2 DEF Abandon, Leave
  <2> QED BY <2>1, <2>2
<1> DEFINE q == [req[r] EXCEPT !.st = "leave", !.how = how]
<1>2. /\ q \in RequestStates /\ q.st = "leave" /\ q.how = how /\ q.live = req[r].live
      /\ q.node = req[r].node /\ q.counted = req[r].counted /\ q.slot = req[r].slot
  <2>1. req[r] \in RequestStates
    OBVIOUS
  <2> QED BY <2>1, ZenonT(60) DEF RequestStates, States, Busy
<1>3. /\ inflight' \in EntriesType /\ EntryOK'
      /\ events' \subseteq Requests /\ marker \subseteq marker' /\ marker' \subseteq Users
      /\ UNCHANGED <<redis, local, users, gate, command>> /\ faults \subseteq faults'
  BY <1>1 DEF TypeOK, EntriesType, EntryOK
<1>4. mapping' \in [Users -> Requests \cup {None}]
  BY <1>1 DEF ClearMapping, TypeOK
<1> HIDE DEF q
<1>5. Turned(r, q)
  BY <1>1, <1>2 DEF Turned, q
<1>6. Moved(r, q)
  BY <1>1, <1>2, <1>5, MoveIs
<1>7. StillKept(r, q)
  BY <1>1, <1>2 DEF StillKept, Early, Sane
<1> QED BY <1>3, <1>4, <1>6, <1>7, MovedStep

LEMMA WatchKeeps ==
  ASSUME IInv, NEW r \in Requests, Watch(r)
  PROVE  IInv'
<1> USE StateNames
<1> DEFINE q == [req[r] EXCEPT !.live = FALSE]
<1>1. /\ req[r].st = "answer" /\ req' = [req EXCEPT ![r] = q]
      /\ UNCHANGED <<redis, local, reach, users, gate, command, faults>>
  <2>1. req' = [req EXCEPT ![r].live = FALSE]
    BY DEF Watch
  <2> QED BY <2>1 DEF Watch
<1>2. /\ q \in RequestStates /\ q.st = req[r].st /\ q.how = req[r].how /\ q.live = FALSE
      /\ q.node = req[r].node /\ q.counted = req[r].counted /\ q.slot = req[r].slot
  <2>1. req[r] \in RequestStates
    OBVIOUS
  <2> QED BY <2>1 DEF RequestStates
<1>3. /\ inflight' \in EntriesType /\ EntryOK' /\ mapping' \in [Users -> Requests \cup {None}]
      /\ events' \subseteq Requests /\ marker \subseteq marker' /\ marker' \subseteq Users
      /\ UNCHANGED <<redis, local, users, gate, command>> /\ faults \subseteq faults'
  BY <1>1 DEF TypeOK, EntriesType, EntryOK, reach
<1> HIDE DEF q
<1>5. Turned(r, q)
  BY <1>1, <1>2 DEF Turned
<1>6. Moved(r, q)
  <2>1. q.how = "none"
    BY <1>1, <1>2 DEF Sane
  <2> QED BY <1>1, <1>2, <1>5, <2>1, MoveIs
<1>7. StillKept(r, q)
  BY <1>2 DEF StillKept
<1> QED BY <1>3, <1>6, <1>7, MovedStep

LEMMA DeleteInflightKeeps ==
  ASSUME IInv, NEW r \in Requests, DeleteInflight(r)
  PROVE  IInv'
<1> USE StateNames
<1> DEFINE q == [req[r] EXCEPT !.st = "release", !.live = FALSE]
           n == req[r].node
           u == UserOf[r]
<1>1. /\ req[r].st = "leave" /\ req' = [req EXCEPT ![r] = q]
      /\ inflight' = [inflight EXCEPT ![n][u] = Nobody]
      /\ UNCHANGED <<redis, local, mapping, events, marker, users, gate, command, faults>>
  BY DEF DeleteInflight
<1>2. /\ q \in RequestStates /\ q.st = "release" /\ q.how = req[r].how /\ q.live = FALSE
      /\ q.node = req[r].node /\ q.counted = req[r].counted /\ q.slot = req[r].slot
  <2>1. req[r] \in RequestStates
    OBVIOUS
  <2> QED BY <2>1 DEF RequestStates, States, Busy
<1>3. n \in Nodes /\ u \in Users /\ inflight \in EntriesType
  BY <1>1 DEF TypeOK, EntriesType
<1>4. inflight' \in EntriesType
  BY <1>1, <1>3 DEF EntriesType, Nobody
<1>5. EntryOK'
  <2>1. \A m \in Nodes, v \in Users :
          inflight'[m][v] = inflight[m][v] \/ inflight'[m][v] = Nobody
    BY <1>1, <1>3 DEF EntriesType
  <2> QED BY <2>1 DEF EntryOK
<1>6. /\ mapping' \in [Users -> Requests \cup {None}] /\ UNCHANGED <<redis, local, users, gate, command>>
      /\ events' \subseteq Requests /\ marker \subseteq marker' /\ marker' \subseteq Users
      /\ faults \subseteq faults'
  BY <1>1 DEF TypeOK
<1> HIDE DEF q
<1>7. Turned(r, q)
  BY <1>1, <1>2 DEF Turned
<1>9. Moved(r, q)
  BY <1>1, <1>2, <1>7, MoveIs
<1>10. StillKept(r, q)
  BY <1>1, <1>2 DEF StillKept, Early
<1> QED BY <1>4, <1>5, <1>6, <1>9, <1>10, MovedStep

\* A marker that is met is used up; the request that met it witnesses so for
\* the other requests of the user.
LEMMA CheckStopMarkerKeeps ==
  ASSUME IInv, NEW r \in Requests, CheckStopMarker(r)
  PROVE  IInv'
<1> USE StateNames
<1> DEFINE u == UserOf[r]
<1>1. req[r].st = "check" /\ req[r].how = "none"
  BY DEF CheckStopMarker, Sane
<1>2. UNCHANGED <<redis, local, inflight, mapping, events, users, gate, command>>
  BY DEF CheckStopMarker
<1>3. /\ inflight' \in EntriesType /\ EntryOK' /\ mapping' \in [Users -> Requests \cup {None}]
      /\ events' \subseteq Requests
  BY <1>2 DEF TypeOK, EntriesType, EntryOK
<1>4. CASE marker' = marker \ {u} /\ Leave(r, "dropped") /\ UNCHANGED faults
  <2> DEFINE q == [req[r] EXCEPT !.st = "leave", !.how = "dropped"]
  <2>1. req' = [req EXCEPT ![r] = q]
    BY <1>4 DEF Leave
  <2>2. /\ q \in RequestStates /\ q.st = "leave" /\ q.how = "dropped" /\ q.live = req[r].live
        /\ q.node = req[r].node /\ q.counted = req[r].counted /\ q.slot = req[r].slot
    <3>1. req[r] \in RequestStates
      OBVIOUS
    <3> QED BY <3>1, ZenonT(60) DEF RequestStates, States, Busy
  <2> HIDE DEF q
  <2>3. Turned(r, q)
    BY <2>1, <2>2 DEF Turned
  <2>4. Moved(r, q)
    BY <1>1, <2>2, <2>3, MoveIs
  <2>5. marker' \subseteq Users /\ faults \subseteq faults'
    BY <1>4 DEF TypeOK
  <2>6. AllDoomed'
    <3>1. AllDoomed /\ doomed' = doomed /\ doomed \subseteq Requests /\ redis' = redis
      BY <1>2 DEF IInv, StopOK, command
    <3>2. req'[r] = q /\ \A x \in Requests \ {r} : req'[x] = req[x]
      BY <2>1 DEF TypeOK
    <3> SUFFICES ASSUME NEW d \in doomed PROVE Doomed(d)'
      BY <3>1 DEF AllDoomed
    <3>3. Doomed(d)
      BY <3>1 DEF AllDoomed
    <3>4. CASE d = r
      BY <2>2, <3>2, <3>4 DEF Doomed
    <3>5. CASE d # r /\ UserOf[d] = UserOf[r]
      <4>1. r \in Requests \ {d} /\ req'[r].how = "dropped"
        BY <2>2, <3>2, <3>5
      <4> QED BY <3>5, <4>1 DEF Doomed
    <3>6. CASE d # r /\ UserOf[d] # UserOf[r]
      <4>1. d \in Requests /\ req'[d] = req[d]
        BY <3>1, <3>2, <3>6
      <4>2. UserOf[d] \in marker => UserOf[d] \in marker'
        BY <1>4, <3>6
      <4>3. \A s \in Requests \ {d} : UserOf[s] = UserOf[d] => req'[s] = req[s]
        BY <3>2, <3>6
      <4> QED BY <1>4, <3>1, <3>3, <4>1, <4>2, <4>3 DEF Doomed
    <3> QED BY <3>4, <3>5, <3>6
  <2>7. UNCHANGED <<redis, local, users, gate, stop, doomed>>
    BY <1>2 DEF command
  <2> QED BY <1>3, <2>4, <2>5, <2>6, <2>7, PlainStep DEF Moved
<1>5. CASE /\ ~redis \/ u \notin marker \/ ~req[r].live \/ "marker" \in faults'
           /\ Move(r, "ask") /\ marker' = marker /\ faults \subseteq faults'
  <2> DEFINE q == [req[r] EXCEPT !.st = "ask"]
  <2>1. req' = [req EXCEPT ![r] = q]
    BY <1>5 DEF Move
  <2>2. /\ q \in RequestStates /\ q.st = "ask" /\ q.how = req[r].how /\ q.live = req[r].live
        /\ q.node = req[r].node /\ q.counted = req[r].counted /\ q.slot = req[r].slot
    <3>1. req[r] \in RequestStates
      OBVIOUS
    <3> QED BY <3>1 DEF RequestStates, States, Busy
  <2> HIDE DEF q
  <2>3. Turned(r, q)
    BY <2>1, <2>2 DEF Turned
  <2>4. Moved(r, q)
    BY <1>1, <2>2, <2>3, MoveIs
  <2>5. StillKept(r, q)
    BY <1>1, <1>5, <2>2 DEF StillKept
  <2>6. marker \subseteq marker' /\ marker' \subseteq Users
    BY <1>5 DEF TypeOK
  <2> QED BY <1>2, <1>3, <1>5, <2>4, <2>5, <2>6, MovedStep
<1> QED BY <1>4, <1>5 DEF CheckStopMarker, Fault

-----------------------------------------------------------------------------
(* The gate *)

\* Requests stay where they are, and so do the queues.
LEMMA StayStep ==
  ASSUME IInv, TypeOK', \A x \in Requests : Sane(req[x])', UserLedger', GateLedger',
         StopOK', EntryOK', AllDoomed', redis' = redis, queue' = queue, perUser' = perUser,
         \A x \in Requests : req'[x].st = req[x].st /\ req'[x].node = req[x].node
  PROVE  IInv'
<1>1. QueueInv /\ LiteLedger
  BY DEF IInv
<1>2. QueueInv' /\ LiteLedger'
  BY <1>1, QueueKept, LiteKept
<1> QED BY <1>2 DEF IInv

LEMMA CancelContextKeeps ==
  ASSUME IInv, NEW r \in Requests, CancelContext(r)
  PROVE  IInv'
<1> USE StateNames
<1> DEFINE q == [req[r] EXCEPT !.live = FALSE]
<1>1. /\ req[r].st \notin {"new", "ended"} /\ req' = [req EXCEPT ![r] = q]
      /\ UNCHANGED <<redis, local, reach, users, gate, command>>
      /\ faults \subseteq faults'
  <2>1. req' = [req EXCEPT ![r].live = FALSE]
    BY DEF CancelContext
  <2> QED BY <2>1 DEF CancelContext, Fault
<1>2. /\ q \in RequestStates /\ q.st = req[r].st /\ q.how = req[r].how /\ q.live = FALSE
      /\ q.node = req[r].node /\ q.counted = req[r].counted /\ q.slot = req[r].slot
  <2>1. req[r] \in RequestStates
    OBVIOUS
  <2> QED BY <2>1 DEF RequestStates
<1> HIDE DEF q
<1>3. TypeOK
  OBVIOUS
<1>4. req'[r] = q /\ \A x \in Requests \ {r} : req'[x] = req[x]
  BY <1>1, <1>3 DEF TypeOK
<1>5. \A x \in Requests : /\ req'[x].st = req[x].st /\ req'[x].node = req[x].node
                          /\ req'[x].counted = req[x].counted /\ req'[x].slot = req[x].slot
  BY <1>2, <1>4
<1>6. /\ UserLedger /\ GateLedger /\ StopOK /\ EntryOK /\ AllDoomed /\ doomed \subseteq Requests
  BY DEF IInv, StopOK
<1>7. /\ redis' = redis /\ users' = users /\ gate' = gate /\ queue' = queue /\ perUser' = perUser
      /\ inflight' = inflight /\ stop' = stop /\ doomed' = doomed /\ marker \subseteq marker'
  BY <1>1 DEF local, reach, command
<1>8. TypeOK'
  <2>1. req' \in [Requests -> RequestStates]
    BY <1>1, <1>2, <1>3 DEF TypeOK
  <2> QED BY <1>1, <1>3, <2>1 DEF TypeOK, local, reach
<1>9. \A x \in Requests : Sane(req[x])'
  <2>1. Sane(req[r])'
    BY <1>1, <1>2, <1>4, <1>7 DEF Sane
  <2>2. \A x \in Requests \ {r} : Sane(req[x])'
    BY <1>4, <1>7 DEF Sane
  <2> QED BY <2>1, <2>2
<1>10. UserLedger' /\ GateLedger'
  BY <1>1, <1>5, <1>6, <1>7, UserKept, GateKept
<1>11. AllDoomed'
  <2>1. StillKept(r, q)
    BY <1>2 DEF StillKept
  <2> QED BY <1>1, <1>3, <1>6, <1>7, <2>1, DoomedKept
<1>12. StopOK' /\ EntryOK'
  BY <1>6, <1>7 DEF StopOK, EntryOK
<1> QED BY <1>5, <1>7, <1>8, <1>9, <1>10, <1>11, <1>12, StayStep

LEMMA GateFullKeeps ==
  ASSUME IInv, NEW r \in Requests, GateFull(r)
  PROVE  IInv'
<1>1. /\ UNCHANGED <<redis, req, local, reach, users, command, faults>>
      /\ gate' = [gate EXCEPT !.ttl = TRUE]
  BY DEF GateFull
<1>2. /\ redis' = redis /\ users' = users /\ req' = req /\ queue' = queue /\ perUser' = perUser
      /\ inflight' = inflight /\ stop' = stop /\ doomed' = doomed /\ marker' = marker
      /\ mapping' = mapping /\ events' = events /\ closed' = closed /\ faults' = faults
  BY <1>1 DEF local, reach, command
<1>3. TypeOK /\ GateLedger /\ gate \in Key
  BY DEF IInv, TypeOK
<1>4. gate' \in Key /\ gate'.n = gate.n
  BY <1>1, <1>3 DEF Key
<1>5. TypeOK'
  BY <1>2, <1>3, <1>4 DEF TypeOK
<1>6. GateLedger'
  BY <1>2, <1>3, <1>4, GateKept
<1>7. UserLedger' /\ StopOK' /\ EntryOK' /\ AllDoomed' /\ \A x \in Requests : Sane(req[x])'
  <2>1. UserLedger /\ StopOK /\ EntryOK /\ AllDoomed /\ \A x \in Requests : Sane(req[x])
    BY DEF IInv
  <2>2. UserLedger'
    BY <1>2, <2>1, UserKept
  <2>3. StopOK' /\ EntryOK'
    BY <1>2, <2>1 DEF StopOK, EntryOK
  <2>4. AllDoomed'
    BY <1>2, <2>1 DEF AllDoomed, Doomed
  <2>5. \A x \in Requests : Sane(req[x])'
    BY <1>2, <2>1 DEF Sane
  <2> QED BY <2>2, <2>3, <2>4, <2>5
<1> QED BY <1>2, <1>5, <1>6, <1>7, StayStep

\* A request that takes a slot, or passes without one.
LEMMA AcquireGateKeeps ==
  ASSUME IInv, NEW r \in Requests, AcquireGate(r) \/ PassGate(r)
  PROVE  IInv'
<1> USE StateNames
<1>1. PICK slot \in {"no", "held", "stray"} :
        /\ Go(r, slot)
        /\ \/ redis /\ slot = "held" /\ GateFree /\ gate' = Incr(gate)
           \/ redis /\ slot = "stray" /\ gate' = gate
           \/ ~redis /\ slot = "no" /\ gate' = gate
  BY DEF AcquireGate, PassGate
<1> DEFINE q == [req[r] EXCEPT !.st = "enter", !.slot = slot]
<1>2. /\ req[r].st = "gate" /\ UNCHANGED <<redis, local, reach, users, command>>
      /\ faults \subseteq faults' /\ req' = [req EXCEPT ![r] = q]
  BY <1>1 DEF AcquireGate, PassGate, Fault, Go
<1>3. /\ q \in RequestStates /\ q.st = "enter" /\ q.how = req[r].how /\ q.live = req[r].live
      /\ q.node = req[r].node /\ q.counted = req[r].counted /\ q.slot = slot
  <2>1. req[r] \in RequestStates
    OBVIOUS
  <2> QED BY <2>1, ZenonT(60) DEF RequestStates, States, Busy
<1> HIDE DEF q
<1>4. TypeOK /\ UserLedger /\ GateLedger /\ AllDoomed /\ doomed \subseteq Requests
  BY DEF IInv, StopOK
<1>5. req'[r] = q /\ \A x \in Requests \ {r} : req'[x] = req[x]
  BY <1>2, <1>4 DEF TypeOK
<1>6. req[r].slot = "no" /\ req[r].how = "none"
  BY <1>2 DEF Sane
<1>7. Sane(q)
  BY <1>1, <1>2, <1>3, <1>6 DEF Sane, InHandler
<1>8. gate \in Key /\ gate' \in Key /\ (gate' = gate \/ gate'.n = gate.n + 1)
  <2>1. gate \in Key
    BY <1>4 DEF TypeOK
  <2> QED BY <1>1, <2>1, KeyChanges
<1>9. GateLedger'
  <2> SUFFICES ASSUME redis PROVE
         /\ NoLoss' => gate'.n = Cardinality(WithSlot') - Cardinality(Spent')
         /\ "ttl" \notin faults' =>
              /\ gate'.n >= Cardinality(WithSlot') - Cardinality(Spent')
              /\ gate'.n <= GlobalMax
    BY <1>2 DEF GateLedger
  <2>1. (NoLoss' => NoLoss) /\ ("ttl" \notin faults' => "ttl" \notin faults)
    BY <1>2 DEF NoLoss
  <2>2. Spent' = Spent
    BY <1>1, <1>3, <1>5, <1>6 DEF Spent
  <2>3. /\ IsFiniteSet(Requests) /\ WithSlot \in SUBSET Requests /\ WithSlot' \in SUBSET Requests
        /\ \A x \in Requests \ {r} : x \in WithSlot <=> x \in WithSlot'
        /\ r \notin WithSlot /\ (r \in WithSlot' <=> slot = "held")
    BY <1>3, <1>5, <1>6, QAAssumption DEF WithSlot, QAAssumption
  <2>4. /\ Cardinality(WithSlot) \in Nat /\ Cardinality(WithSlot') \in Nat
        /\ slot # "held" => Cardinality(WithSlot') = Cardinality(WithSlot)
        /\ slot = "held" => Cardinality(WithSlot') = Cardinality(WithSlot) + 1
    BY <2>3, CountOne
  <2>5. Cardinality(Spent) \in Nat /\ GlobalMax \in Nat /\ gate.n \in Int /\ gate'.n \in Int
    BY FiniteCounts, QAAssumption, <1>8 DEF QAAssumption, Key
  <2>6. /\ slot = "held" => gate'.n = gate.n + 1 /\ gate.n < GlobalMax
        /\ slot # "held" => gate'.n = gate.n
    BY <1>1, <1>4 DEF Incr, GateFree, TypeOK, Key
  <2>7. /\ NoLoss => gate.n = Cardinality(WithSlot) - Cardinality(Spent)
        /\ "ttl" \notin faults =>
              /\ gate.n >= Cardinality(WithSlot) - Cardinality(Spent)
              /\ gate.n <= GlobalMax
    BY <1>4 DEF GateLedger
  <2> QED BY <2>1, <2>2, <2>4, <2>5, <2>6, <2>7
<1>10. UserLedger'
  <2>1. \A x \in Requests : /\ req'[x].counted = req[x].counted
                            /\ (req'[x].st = "ended") = (req[x].st = "ended")
                            /\ (req'[x].st = "over") = (req[x].st = "over")
    BY <1>2, <1>3, <1>5
  <2> QED BY <1>2, <1>4, <2>1, UserKept
<1>11. /\ inflight' \in EntriesType /\ EntryOK' /\ mapping' \in [Users -> Requests \cup {None}]
       /\ events' \subseteq Requests /\ marker \subseteq marker' /\ marker' \subseteq Users
       /\ users' \in [Users -> Key] /\ UNCHANGED <<redis, local, stop, doomed>>
  BY <1>2 DEF TypeOK, EntriesType, EntryOK, reach, command
<1>12. AllDoomed'
  <2>1. StillKept(r, q)
    BY <1>2, <1>3 DEF StillKept, Early
  <2> QED BY <1>2, <1>4, <1>11, <2>1, DoomedKept
<1> QED BY <1>2, <1>3, <1>7, <1>8, <1>9, <1>10, <1>11, <1>12, RequestStep

\* What a handler gives back of the gate, whether it has a slot or not.
LEMMA ReleaseGateKeeps ==
  ASSUME IInv, NEW r \in Requests, ReleaseGate(r)
  PROVE  IInv'
<1> USE StateNames
<1> DEFINE slot == IF redis THEN IF req[r].slot = "stray" THEN "spent" ELSE "no" ELSE req[r].slot
           q == [req[r] EXCEPT !.st = "uncount", !.slot = slot]
<1>1. req[r] \in RequestStates /\ TypeOK
  OBVIOUS
<1>2. slot \in {"no", "held", "stray", "spent"}
  BY <1>1 DEF RequestStates
<1> HIDE DEF slot
<1>3. /\ q \in RequestStates /\ q.st = "uncount" /\ q.how = req[r].how /\ q.live = req[r].live
      /\ q.node = req[r].node /\ q.counted = req[r].counted /\ q.slot = slot
  BY <1>1, <1>2, ZenonT(60) DEF RequestStates, States, Busy
<1> USE DEF slot
<1>4. /\ req[r].st = "release" /\ req' = [req EXCEPT ![r] = q]
      /\ UNCHANGED <<redis, local, reach, users, command>> /\ faults \subseteq faults'
      /\ \/ redis /\ gate' = Decr(gate) /\ faults' = faults
         \/ redis /\ gate' = gate /\ "decr" \in faults'
         \/ ~redis /\ gate' = gate
  <2>1. CASE redis
    BY <2>1 DEF ReleaseGate, Fault
  <2>2. CASE ~redis
    <3>1. q = [req[r] EXCEPT !.st = "uncount"]
      BY <1>1, <2>2 DEF RequestStates
    <3>2. /\ req[r].st = "release" /\ Move(r, "uncount") /\ UNCHANGED <<gate, faults>>
          /\ UNCHANGED <<redis, local, reach, users, command>>
      BY <2>2 DEF ReleaseGate
    <3>3. req' = [req EXCEPT ![r] = q]
      BY <3>1, <3>2 DEF Move
    <3> QED BY <2>2, <3>2, <3>3
  <2> QED BY <2>1, <2>2
<1> HIDE DEF q
<1>5. UserLedger /\ GateLedger /\ AllDoomed /\ doomed \subseteq Requests
  BY DEF IInv, StopOK
<1>6. req'[r] = q /\ \A x \in Requests \ {r} : req'[x] = req[x]
  BY <1>1, <1>4 DEF TypeOK
<1>7. Sane(q)
  BY <1>3, <1>4 DEF Sane, InHandler
<1>8. gate \in Key /\ gate' \in Key
  <2>1. gate \in Key
    BY <1>1 DEF TypeOK
  <2> QED BY <1>4, <2>1, KeyChanges
<1>9. GateLedger'
  <2> SUFFICES ASSUME redis PROVE
         /\ NoLoss' => gate'.n = Cardinality(WithSlot') - Cardinality(Spent')
         /\ "ttl" \notin faults' =>
              /\ gate'.n >= Cardinality(WithSlot') - Cardinality(Spent')
              /\ gate'.n <= GlobalMax
    BY <1>4 DEF GateLedger
  <2>1. (NoLoss' => NoLoss) /\ ("ttl" \notin faults' => "ttl" \notin faults)
    BY <1>4 DEF NoLoss
  <2>2. req[r].slot \in {"held", "stray"}
    BY <1>4 DEF Sane, InHandler
  <2>3. /\ IsFiniteSet(Requests) /\ WithSlot \in SUBSET Requests /\ WithSlot' \in SUBSET Requests
        /\ \A x \in Requests \ {r} : x \in WithSlot <=> x \in WithSlot'
        /\ r \notin WithSlot' /\ (r \in WithSlot <=> req[r].slot = "held")
    BY <1>3, <1>6, QAAssumption DEF WithSlot, QAAssumption
  <2>4. /\ Cardinality(WithSlot) \in Nat /\ Cardinality(WithSlot') \in Nat
        /\ req[r].slot # "held" => Cardinality(WithSlot') = Cardinality(WithSlot)
        /\ req[r].slot = "held" => Cardinality(WithSlot') = Cardinality(WithSlot) - 1
    BY <2>3, CountOne
  <2>5. /\ Spent \in SUBSET Requests /\ Spent' \in SUBSET Requests
        /\ \A x \in Requests \ {r} : x \in Spent <=> x \in Spent'
        /\ r \notin Spent /\ (r \in Spent' <=> req[r].slot = "stray")
    BY <1>3, <1>6, <2>2 DEF Spent
  <2>6. /\ Cardinality(Spent) \in Nat /\ Cardinality(Spent') \in Nat
        /\ req[r].slot # "stray" => Cardinality(Spent') = Cardinality(Spent)
        /\ req[r].slot = "stray" => Cardinality(Spent') = Cardinality(Spent) + 1
    BY <2>3, <2>5, CountOne
  <2>7. Cardinality(WithSlot') - Cardinality(Spent') = Cardinality(WithSlot) - Cardinality(Spent) - 1
    BY <2>2, <2>4, <2>6
  <2>8. GlobalMax \in Nat /\ gate.n \in Int /\ gate'.n \in Int
    BY QAAssumption, <1>8 DEF QAAssumption, Key
  <2>9. \/ gate'.n = gate.n - 1 /\ faults' = faults
        \/ gate'.n = gate.n /\ ~NoLoss'
    BY <1>4, <1>8, KeyChanges DEF NoLoss
  <2>10. /\ NoLoss => gate.n = Cardinality(WithSlot) - Cardinality(Spent)
         /\ "ttl" \notin faults =>
              /\ gate.n >= Cardinality(WithSlot) - Cardinality(Spent)
              /\ gate.n <= GlobalMax
    BY <1>5 DEF GateLedger
  <2> QED BY <2>1, <2>4, <2>6, <2>7, <2>8, <2>9, <2>10
<1>10. UserLedger'
  <2>1. \A x \in Requests : /\ req'[x].counted = req[x].counted
                            /\ (req'[x].st = "ended") = (req[x].st = "ended")
                            /\ (req'[x].st = "over") = (req[x].st = "over")
    BY <1>3, <1>4, <1>6
  <2> QED BY <1>4, <1>5, <2>1, UserKept
<1>11. /\ inflight' \in EntriesType /\ EntryOK' /\ mapping' \in [Users -> Requests \cup {None}]
       /\ events' \subseteq Requests /\ marker \subseteq marker' /\ marker' \subseteq Users
       /\ users' \in [Users -> Key] /\ UNCHANGED <<redis, local, stop, doomed>>
  BY <1>4 DEF TypeOK, EntriesType, EntryOK, reach, command
<1>12. AllDoomed'
  <2>1. StillKept(r, q)
    BY <1>3, <1>4 DEF StillKept, Early
  <2> QED BY <1>1, <1>4, <1>5, <1>6, <1>11, <2>1, DoomedKept
<1> QED BY <1>3, <1>4, <1>7, <1>8, <1>9, <1>10, <1>11, <1>12, RequestStep

-----------------------------------------------------------------------------
(* Coming in *)

\* The bound on the requests of a user that were let in comes from here: one
\* that is counted and not over the limit has seen a counter that was at most
\* the limit, and which is at least the number of the counted.
LEMMA CountedKeepsUsers ==
  ASSUME TypeOK, UserLedger, NEW r \in Requests, req[r].counted = "no", req[r].st = "new",
         redis, redis' = redis, faults' = faults,
         NEW q, q.counted = "yes", q.st = IF OverLimit(UserOf[r]) THEN "over" ELSE "counted",
         req' = [req EXCEPT ![r] = q],
         users' = [users EXCEPT ![UserOf[r]] = Incr(@)]
  PROVE  UserLedger'
<1> DEFINE u0 == UserOf[r]
<1>1. u0 \in Users
  BY QAAssumption DEF QAAssumption
<1>2. req'[r] = q /\ \A x \in Requests \ {r} : req'[x] = req[x]
  BY DEF TypeOK
<1> SUFFICES ASSUME NEW u \in Users
             PROVE  /\ NoLoss => users'[u].n = Cardinality(Yes(u)') - Cardinality(NeverEnded(u)')
                    /\ "ttl" \notin faults =>
                         /\ users'[u].n >= Cardinality(Yes(u)') - Cardinality(NeverEnded(u)')
                         /\ Cardinality(LetIn(u)') <= MaxPerUser + Cardinality(NeverEnded(u)')
  BY DEF UserLedger, NoLoss
<1>3. /\ NoLoss => users[u].n = Cardinality(Yes(u)) - Cardinality(NeverEnded(u))
      /\ "ttl" \notin faults =>
           /\ users[u].n >= Cardinality(Yes(u)) - Cardinality(NeverEnded(u))
           /\ Cardinality(LetIn(u)) <= MaxPerUser + Cardinality(NeverEnded(u))
  BY DEF UserLedger
<1>4. CASE u # u0
  <2>1. Yes(u)' = Yes(u) /\ NeverEnded(u)' = NeverEnded(u) /\ LetIn(u)' = LetIn(u)
    BY <1>2, <1>4 DEF Yes, NeverEnded, Never, LetIn
  <2>2. users'[u] = users[u]
    BY <1>1, <1>4 DEF TypeOK
  <2> QED BY <1>3, <2>1, <2>2
<1>5. CASE u = u0
  <2>1. IsFiniteSet(Requests)
    BY QAAssumption DEF QAAssumption
  <2>2. NeverEnded(u)' = NeverEnded(u)
    BY <1>2 DEF NeverEnded, Never
  <2>3. /\ Yes(u) \in SUBSET Requests /\ Yes(u)' \in SUBSET Requests
        /\ \A x \in Requests \ {r} : x \in Yes(u) <=> x \in Yes(u)'
        /\ r \notin Yes(u) /\ r \in Yes(u)'
    BY <1>2, <1>5 DEF Yes
  <2>4. /\ Cardinality(Yes(u)) \in Nat /\ Cardinality(Yes(u)') \in Nat
        /\ Cardinality(Yes(u)') = Cardinality(Yes(u)) + 1
    BY <2>1, <2>3, CountOne
  <2>5. /\ Cardinality(NeverEnded(u)) \in Nat /\ Cardinality(LetIn(u)) \in Nat
    BY FiniteCounts
  <2>6. IsFiniteSet(Yes(u)') /\ LetIn(u)' \subseteq Yes(u)'
    BY <2>1, <2>3, FS_Subset DEF LetIn
  <2>7. Cardinality(LetIn(u)') \in Nat /\ Cardinality(LetIn(u)') <= Cardinality(Yes(u)')
    BY <2>6, FS_Subset, FS_CardinalityType
  <2>8. OverLimit(u) => LetIn(u)' = LetIn(u)
    BY <1>2, <1>5 DEF LetIn, Yes
  <2>9. users[u].n \in Int /\ users'[u].n = users[u].n + 1 /\ MaxPerUser \in Nat
    <3>1. users[u] \in Key
      BY DEF TypeOK
    <3>2. users'[u] = Incr(users[u])
      BY <1>1, <1>5 DEF TypeOK
    <3> QED BY <3>1, <3>2, KeyChanges, QAAssumption DEF QAAssumption
  <2> HIDE DEF u0
  <2>10. CASE OverLimit(u)
    BY <1>3, <2>2, <2>4, <2>5, <2>8, <2>9, <2>10
  <2>11. CASE ~OverLimit(u)
    <3>1. users[u].n + 1 <= MaxPerUser
      BY <2>9, <2>11 DEF OverLimit
    <3> QED BY <1>3, <2>2, <2>4, <2>5, <2>7, <2>9, <3>1
  <2> QED BY <2>10, <2>11
<1> QED BY <1>4, <1>5

LEMMA CheckAndIncrUserKeeps ==
  ASSUME IInv, NEW r \in Requests, NEW n \in Nodes, CheckAndIncrUser(r, n)
  PROVE  IInv'
<1> USE StateNames
<1> DEFINE u == UserOf[r]
<1>1. PICK st \in {"over", "counted"}, counted \in {"yes", "never", "no"} :
        /\ req' = [req EXCEPT ![r] = [req[r] EXCEPT !.st = st, !.node = n, !.counted = counted]]
        /\ \/ /\ redis /\ counted = "yes" /\ st = IF OverLimit(u) THEN "over" ELSE "counted"
              /\ users' = [users EXCEPT ![u] = Incr(@)] /\ faults' = faults
           \/ /\ redis /\ counted = "never" /\ st = "counted" /\ users' = users
              /\ faults \subseteq faults'
           \/ ~redis /\ counted = "no" /\ st = "counted" /\ users' = users /\ faults' = faults
  <2> USE DEF CheckAndIncrUser
  <2>1. CASE redis /\ faults' = faults /\ users' = [users EXCEPT ![u] = Incr(@)]
    <3>1. CASE OverLimit(u)
      BY <2>1, <3>1 DEF Fault
    <3>2. CASE ~OverLimit(u)
      BY <2>1, <3>2 DEF Fault
    <3> QED BY <3>1, <3>2
  <2>2. CASE redis /\ Fault("incr") /\ users' = users
    BY <2>2 DEF Fault
  <2>3. CASE ~redis
    BY <2>3
  <2> QED BY <2>1, <2>2, <2>3
<1>2. req[r].st = "new" /\ UNCHANGED <<redis, local, reach, gate, command>>
      /\ faults \subseteq faults'
  BY <1>1 DEF CheckAndIncrUser
<1> DEFINE q == [req[r] EXCEPT !.st = st, !.node = n, !.counted = counted]
<1>3. req[r].how = "none" /\ req[r].counted = "no" /\ req[r].slot = "no"
  BY <1>2 DEF Sane
<1>4. /\ q \in RequestStates /\ q.st = st /\ q.how = "none" /\ q.live = req[r].live
      /\ q.node = n /\ q.counted = counted /\ q.slot = "no"
  <2>1. req[r] \in RequestStates /\ req[r].how = "none" /\ req[r].slot = "no"
    BY <1>3
  <2>2. st \in States
    BY DEF States
  <2> QED BY <2>1, <2>2 DEF RequestStates
<1> HIDE DEF q
<1>5. req' = [req EXCEPT ![r] = q]
  BY <1>1 DEF q
<1>6. TypeOK /\ UserLedger /\ GateLedger /\ AllDoomed /\ doomed \subseteq Requests
  BY DEF IInv, StopOK
<1>7. req'[r] = q /\ \A x \in Requests \ {r} : req'[x] = req[x]
  BY <1>5, <1>6 DEF TypeOK
<1>8. Sane(q)
  BY <1>1, <1>4 DEF Sane, InHandler
<1>9. users' \in [Users -> Key] /\ gate' \in Key
  <2>1. users \in [Users -> Key] /\ users[u] \in Key /\ gate' \in Key
    BY <1>2, <1>6 DEF TypeOK
  <2>2. Incr(users[u]) \in Key
    BY <2>1, KeyChanges
  <2> QED BY <1>1, <2>1, <2>2
<1>10. UserLedger'
  <2>1. CASE counted = "yes"
    <3>1. req[r].counted = "no"
      BY <1>2, <1>3
    <3>2. /\ redis /\ redis' = redis /\ faults' = faults
          /\ q.counted = "yes" /\ q.st = IF OverLimit(UserOf[r]) THEN "over" ELSE "counted"
          /\ users' = [users EXCEPT ![UserOf[r]] = Incr(@)]
      BY <1>1, <1>2, <1>4, <2>1
    <3> QED BY <1>2, <1>5, <1>6, <3>1, <3>2, CountedKeepsUsers
  <2>2. CASE counted = "never" /\ redis
    <3> SUFFICES ASSUME NEW v \in Users
                 PROVE  Yes(v)' = Yes(v) /\ NeverEnded(v)' = NeverEnded(v) /\ LetIn(v)' = LetIn(v)
      <4>1. (NoLoss' => NoLoss) /\ ("ttl" \notin faults' => "ttl" \notin faults)
        BY <1>2 DEF NoLoss
      <4>2. users' = users /\ redis' = redis
        BY <1>1, <1>2, <2>2
      <4> QED BY <1>6, <4>1, <4>2 DEF UserLedger
    <3>1. req[r].counted = "no" /\ req[r].st = "new"
      BY <1>2, <1>3
    <3>2. q.counted = "never" /\ q.st # "ended"
      BY <1>4, <2>2
    <3>3. \A x \in Requests : x \in Yes(v)' <=> x \in Yes(v)
      BY <1>7, <3>1, <3>2 DEF Yes
    <3>4. \A x \in Requests : x \in NeverEnded(v)' <=> x \in NeverEnded(v)
      BY <1>7, <3>1, <3>2 DEF NeverEnded, Never
    <3>5. Yes(v)' = Yes(v)
      BY <3>3 DEF Yes
    <3>6. NeverEnded(v)' = NeverEnded(v)
      BY <3>4 DEF NeverEnded, Never
    <3>7. LetIn(v)' = LetIn(v)
      BY <1>7, <3>1, <3>2, <3>5 DEF LetIn, Yes
    <3> QED BY <3>5, <3>6, <3>7
  <2>3. CASE ~redis
    BY <1>2, <2>3 DEF UserLedger
  <2> QED BY <1>1, <2>1, <2>2, <2>3
<1>11. GateLedger'
  <2>1. \A x \in Requests : req'[x].slot = req[x].slot
    BY <1>3, <1>4, <1>7
  <2> QED BY <1>2, <1>6, <2>1, GateKept
<1>12. /\ inflight' \in EntriesType /\ EntryOK' /\ mapping' \in [Users -> Requests \cup {None}]
       /\ events' \subseteq Requests /\ marker \subseteq marker' /\ marker' \subseteq Users
       /\ UNCHANGED <<redis, local, stop, doomed>>
  BY <1>2 DEF TypeOK, EntriesType, EntryOK, reach, command
<1>13. AllDoomed'
  <2>1. StillKept(r, q)
    BY <1>2, <1>3, <1>4 DEF StillKept, Early
  <2> QED BY <1>2, <1>5, <1>6, <1>12, <2>1, DoomedKept
<1> QED BY <1>1, <1>2, <1>4, <1>5, <1>8, <1>9, <1>10, <1>11, <1>12, <1>13, RequestStep

-----------------------------------------------------------------------------
(* The queues *)

\* A sequence without its i-th element.
IsWithout(t, s, i) ==
  /\ Len(t) = Len(s) - 1
  /\ \A k \in 1..Len(t) : t[k] = IF k < i THEN s[k] ELSE s[k + 1]

LEMMA WithoutFirst ==
  ASSUME NEW S, NEW s \in Seq(S), s # <<>>
  PROVE  Tail(s) \in Seq(S) /\ IsWithout(Tail(s), s, 1) /\ Head(s) = s[1] /\ 1 \in 1..Len(s)
BY DEF IsWithout

LEMMA WithoutOne ==
  ASSUME NEW S, NEW s \in Seq(S), NEW i \in 1..Len(s)
  PROVE  LET t == SubSeq(s, 1, i - 1) \o SubSeq(s, i + 1, Len(s)) IN
         t \in Seq(S) /\ IsWithout(t, s, i)
<1> DEFINE a == SubSeq(s, 1, i - 1)
           b == SubSeq(s, i + 1, Len(s))
<1>1. Len(s) \in Nat /\ i \in Nat /\ i >= 1 /\ i <= Len(s)
  OBVIOUS
<1>2. a \in Seq(S) /\ Len(a) = i - 1 /\ \A k \in 1..(i - 1) : a[k] = s[k]
  BY <1>1, SubSeqProperties
<1>3. b \in Seq(S) /\ Len(b) = Len(s) - i /\ \A k \in 1..(Len(s) - i) : b[k] = s[k + i]
  <2>1. /\ b \in Seq(S)
        /\ Len(b) = IF i + 1 <= Len(s) THEN Len(s) - (i + 1) + 1 ELSE 0
        /\ \A k \in 1..(Len(s) - (i + 1) + 1) : b[k] = s[(i + 1) + k - 1]
    BY <1>1, SubSeqProperties
  <2>2. Len(b) = Len(s) - i
    BY <1>1, <2>1
  <2>3. \A k \in 1..(Len(s) - i) : b[k] = s[k + i]
    <3> TAKE k \in 1..(Len(s) - i)
    <3>1. k \in 1..(Len(s) - (i + 1) + 1) /\ (i + 1) + k - 1 = k + i
      BY <1>1
    <3> QED BY <2>1, <3>1
  <2> QED BY <2>1, <2>2, <2>3
<1> DEFINE t == a \o b
<1> HIDE DEF a, b
<1>4. /\ t \in Seq(S) /\ Len(t) = Len(s) - 1
      /\ \A k \in 1..(Len(a) + Len(b)) : t[k] = IF k <= Len(a) THEN a[k] ELSE b[k - Len(a)]
  <2>1. /\ t \in Seq(S) /\ Len(t) = Len(a) + Len(b)
        /\ \A k \in 1..(Len(a) + Len(b)) : t[k] = IF k <= Len(a) THEN a[k] ELSE b[k - Len(a)]
    <3>1. a \in Seq(S) /\ b \in Seq(S)
      BY <1>2, <1>3
    <3> QED BY <3>1, ConcatProperties, Zenon
  <2> QED BY <1>1, <1>2, <1>3, <2>1
<1>5. \A k \in 1..Len(t) : t[k] = IF k < i THEN s[k] ELSE s[k + 1]
  <2> TAKE k \in 1..Len(t)
  <2> HIDE DEF t
  <2>1. k \in 1..(Len(a) + Len(b))
    BY <1>1, <1>2, <1>3, <1>4
  <2>2. CASE k < i
    BY <1>1, <1>2, <1>4, <2>1, <2>2
  <2>3. CASE ~(k < i)
    <3>1. k - (i - 1) \in 1..(Len(s) - i) /\ (k - (i - 1)) + i = k + 1
      BY <1>1, <1>2, <1>3, <2>1, <2>3
    <3> QED BY <1>1, <1>2, <1>3, <1>4, <2>1, <2>3, <3>1
  <2> QED BY <2>2, <2>3
<1> HIDE DEF t
<1>6. t \in Seq(S) /\ IsWithout(t, s, i)
  BY <1>4, <1>5 DEF IsWithout
<1> QED BY <1>6 DEF t, a, b

\* The i-th request of the queue of n leaves it and becomes q.
TakenOut(n, i, r, q) ==
  /\ i \in 1..Len(queue[n]) /\ r = queue[n][i]
  /\ \E t \in Seq(Requests) : IsWithout(t, queue[n], i) /\ queue' = [queue EXCEPT ![n] = t]
  /\ q.st # "queued" /\ req' = [req EXCEPT ![r] = q]

LEMMA QueueShrinks ==
  ASSUME TypeOK, QueueInv, NEW n \in Nodes, NEW i, NEW r, NEW q, TakenOut(n, i, r, q)
  PROVE  /\ QueueInv' /\ queue' \in [Nodes -> Seq(Requests)]
         /\ r \in Requests /\ req[r].st = "queued" /\ req[r].node = n
<1> USE DEF TakenOut
<1> PICK t \in Seq(Requests) : IsWithout(t, queue[n], i) /\ queue' = [queue EXCEPT ![n] = t]
  OBVIOUS
<1>1. queue[n] \in Seq(Requests) /\ r \in Requests
  BY DEF TypeOK
<1>2. req[r].st = "queued" /\ req[r].node = n
  BY <1>1 DEF QueueInv
<1>3. req'[r] = q /\ \A x \in Requests \ {r} : req'[x] = req[x]
  BY <1>1 DEF TypeOK
<1>4. queue'[n] = t /\ \A m \in Nodes \ {n} : queue'[m] = queue[m]
  BY DEF TypeOK
<1>5. QueueInv'
  <2> SUFFICES ASSUME NEW m \in Nodes
               PROVE  /\ \A k, j \in 1..Len(queue'[m]) : queue'[m][k] = queue'[m][j] => k = j
                      /\ \A x \in Requests :
                           (req'[x].st = "queued" /\ req'[x].node = m) <=>
                           \E k \in 1..Len(queue'[m]) : queue'[m][k] = x
    BY DEF QueueInv
  <2>1. CASE m # n
    <3>1. queue'[m] = queue[m]
      BY <1>4, <2>1
    <3>2. ~\E k \in 1..Len(queue[m]) : queue[m][k] = r
      BY <1>1, <1>2, <2>1 DEF QueueInv
    <3> QED BY <1>3, <3>1, <3>2 DEF QueueInv
  <2>2. CASE m = n
    <3> DEFINE s == queue[n]
    <3>1. /\ Len(s) \in Nat /\ Len(t) = Len(s) - 1 /\ i \in 1..Len(s) /\ s[i] = r
          /\ \A k \in 1..Len(t) : t[k] = IF k < i THEN s[k] ELSE s[k + 1]
      BY <1>1 DEF IsWithout
    <3>2. /\ \A k, j \in 1..Len(s) : s[k] = s[j] => k = j
          /\ \A x \in Requests :
               (req[x].st = "queued" /\ req[x].node = n) <=> \E k \in 1..Len(s) : s[k] = x
      BY DEF QueueInv
    <3> HIDE DEF s
    <3>3. \A k, j \in 1..Len(t) : t[k] = t[j] => k = j
      <4> SUFFICES ASSUME NEW k \in 1..Len(t), NEW j \in 1..Len(t), t[k] = t[j] PROVE k = j
        OBVIOUS
      <4>1. /\ k \in Int /\ j \in Int /\ i \in Int /\ k \in 1..Len(s) /\ k + 1 \in 1..Len(s)
            /\ j \in 1..Len(s) /\ j + 1 \in 1..Len(s)
        BY <3>1
      <4>2. t[k] = IF k < i THEN s[k] ELSE s[k + 1]
        BY <3>1
      <4>3. t[j] = IF j < i THEN s[j] ELSE s[j + 1]
        BY <3>1
      <4>4. CASE k < i /\ j < i
        BY <3>2, <4>1, <4>2, <4>3, <4>4, ZenonT(60)
      <4>5. CASE ~(k < i) /\ ~(j < i)
        <5>1. s[k + 1] = s[j + 1]
          BY <4>2, <4>3, <4>5
        <5>2. k + 1 = j + 1
          BY <3>2, <4>1, <5>1
        <5> QED BY <4>1, <5>2
      <4>6. CASE k < i /\ ~(j < i)
        <5>1. s[k] = s[j + 1]
          BY <4>2, <4>3, <4>6
        <5>2. k = j + 1
          BY <3>2, <4>1, <5>1
        <5> QED BY <4>1, <4>6, <5>2
      <4>7. CASE ~(k < i) /\ j < i
        <5>1. s[k + 1] = s[j]
          BY <4>2, <4>3, <4>7
        <5>2. k + 1 = j
          BY <3>2, <4>1, <5>1
        <5> QED BY <4>1, <4>7, <5>2
      <4> QED BY <4>4, <4>5, <4>6, <4>7
    <3>4. \A x \in Requests \ {r} :
            (\E k \in 1..Len(s) : s[k] = x) <=> \E k \in 1..Len(t) : t[k] = x
      <4> TAKE x \in Requests \ {r}
      <4>1. ASSUME NEW k \in 1..Len(s), s[k] = x PROVE \E j \in 1..Len(t) : t[j] = x
        <5>1. k # i
          BY <3>1, <4>1
        <5>2. CASE k < i
          <6>1. k \in 1..Len(t)
            BY <3>1, <5>2
          <6> QED BY <3>1, <4>1, <5>2, <6>1
        <5>3. CASE k > i
          <6>1. k - 1 \in 1..Len(t) /\ ~(k - 1 < i) /\ (k - 1) + 1 = k
            BY <3>1, <5>3
          <6>2. t[k - 1] = s[k]
            BY <3>1, <6>1
          <6> QED BY <4>1, <6>1, <6>2
        <5> QED BY <3>1, <5>1, <5>2, <5>3
      <4>2. ASSUME NEW j \in 1..Len(t), t[j] = x PROVE \E k \in 1..Len(s) : s[k] = x
        <5>1. j \in 1..Len(s) /\ j + 1 \in 1..Len(s)
          BY <3>1
        <5> QED BY <3>1, <4>2, <5>1
      <4> QED BY <4>1, <4>2
    <3>5. ~\E k \in 1..Len(t) : t[k] = r
      <4> SUFFICES ASSUME NEW k \in 1..Len(t), t[k] = r PROVE FALSE
        OBVIOUS
      <4>1. k \in 1..Len(s) /\ k + 1 \in 1..Len(s) /\ k \in Int /\ i \in Int
        BY <3>1
      <4> QED BY <3>1, <3>2, <4>1
    <3>6. queue'[m] = t
      BY <1>4, <2>2
    <3>7. \A x \in Requests : (req'[x].st = "queued" /\ req'[x].node = n) <=>
                              \E k \in 1..Len(t) : t[k] = x
      BY <1>3, <3>2, <3>4, <3>5
    <3> QED BY <2>2, <3>3, <3>6, <3>7
  <2> QED BY <2>1, <2>2
<1> QED BY <1>1, <1>2, <1>5 DEF TypeOK

\* A request joins the queue of its instance.
LEMMA QueueGrows ==
  ASSUME TypeOK, QueueInv, NEW n \in Nodes, NEW r \in Requests, req[r].st # "queued",
         queue' = [queue EXCEPT ![n] = Append(@, r)],
         NEW q, q.st = "queued", q.node = n, req' = [req EXCEPT ![r] = q]
  PROVE  QueueInv' /\ queue' \in [Nodes -> Seq(Requests)]
<1> DEFINE s == queue[n]
           t == Append(s, r)
<1>1. s \in Seq(Requests)
  BY DEF TypeOK
<1>2. req'[r] = q /\ \A x \in Requests \ {r} : req'[x] = req[x]
  BY DEF TypeOK
<1>3. queue'[n] = t /\ \A m \in Nodes \ {n} : queue'[m] = queue[m]
  BY DEF TypeOK
<1>4. /\ t \in Seq(Requests) /\ Len(s) \in Nat /\ Len(t) = Len(s) + 1 /\ t[Len(s) + 1] = r
      /\ \A k \in 1..Len(s) : t[k] = s[k]
  BY <1>1
<1>5. /\ \A k, j \in 1..Len(s) : s[k] = s[j] => k = j
      /\ \A x \in Requests :
           (req[x].st = "queued" /\ req[x].node = n) <=> \E k \in 1..Len(s) : s[k] = x
  BY DEF QueueInv
<1> HIDE DEF s, t
<1>6. \A k \in 1..Len(t) : k \in 1..Len(s) \/ k = Len(s) + 1
  BY <1>4
<1>7. \A k \in 1..Len(s) : s[k] # r
  BY <1>5
<1>8. \A k, j \in 1..Len(t) : t[k] = t[j] => k = j
  BY <1>4, <1>5, <1>6, <1>7
<1>9. \A x \in Requests : (req'[x].st = "queued" /\ req'[x].node = n) <=>
                          \E k \in 1..Len(t) : t[k] = x
  <2> TAKE x \in Requests
  <2>1. CASE x = r
    <3>1. Len(s) + 1 \in 1..Len(t)
      BY <1>4
    <3> QED BY <1>2, <1>4, <2>1, <3>1
  <2>2. CASE x # r
    <3>1. (\E k \in 1..Len(t) : t[k] = x) <=> \E k \in 1..Len(s) : s[k] = x
      <4>1. \A k \in 1..Len(s) : k \in 1..Len(t)
        BY <1>4
      <4> QED BY <1>4, <1>6, <2>2, <4>1
    <3> QED BY <1>2, <1>5, <2>2, <3>1
  <2> QED BY <2>1, <2>2
<1>10. QueueInv'
  <2> SUFFICES ASSUME NEW m \in Nodes
               PROVE  /\ \A k, j \in 1..Len(queue'[m]) : queue'[m][k] = queue'[m][j] => k = j
                      /\ \A x \in Requests :
                           (req'[x].st = "queued" /\ req'[x].node = m) <=>
                           \E k \in 1..Len(queue'[m]) : queue'[m][k] = x
    BY DEF QueueInv
  <2>1. CASE m # n
    <3>1. queue'[m] = queue[m] /\ \A k \in 1..Len(queue[m]) : queue[m][k] # r
      BY <1>3, <2>1 DEF QueueInv
    <3> QED BY <1>2, <2>1, <3>1 DEF QueueInv
  <2>2. CASE m = n
    <3>1. queue'[m] = t
      BY <1>3, <2>2
    <3>2. \A k, j \in 1..Len(queue'[m]) : queue'[m][k] = queue'[m][j] => k = j
      BY <1>8, <3>1
    <3>3. \A x \in Requests : (req'[x].st = "queued" /\ req'[x].node = m) <=>
                              \E k \in 1..Len(queue'[m]) : queue'[m][k] = x
      BY <1>9, <2>2, <3>1
    <3> QED BY <3>2, <3>3
  <2> QED BY <2>1, <2>2
<1>11. queue' \in [Nodes -> Seq(Requests)]
  <2>1. queue' = [queue EXCEPT ![n] = t]
    BY DEF t, s
  <2> QED BY <1>4, <2>1 DEF TypeOK
<1> QED BY <1>10, <1>11

\* The instance's own counter follows its queue, here when a request of u
\* leaves the queue of n ...
LEMMA LiteShrinks ==
  ASSUME TypeOK, LiteLedger, redis' = redis, NEW n \in Nodes, NEW r \in Requests,
         req[r].st = "queued", req[r].node = n,
         NEW q, q.st # "queued", req' = [req EXCEPT ![r] = q],
         perUser' = IF redis THEN perUser
                    ELSE [perUser EXCEPT ![n][UserOf[r]] = @ - 1]
  PROVE  LiteLedger' /\ perUser' \in [Nodes -> [Users -> Nat]]
<1> DEFINE u == UserOf[r]
<1>1. u \in Users
  BY QAAssumption DEF QAAssumption
<1>2. perUser \in [Nodes -> [Users -> Nat]]
  BY DEF TypeOK
<1>3. CASE redis
  BY <1>2, <1>3 DEF LiteLedger
<1>4. CASE ~redis
  <2>1. perUser' = [perUser EXCEPT ![n] = [perUser[n] EXCEPT ![u] = perUser[n][u] - 1]]
    BY <1>4
  <2>2. req'[r] = q /\ \A x \in Requests \ {r} : req'[x] = req[x]
    BY DEF TypeOK
  <2>3. \A m \in Nodes, v \in Users : (m # n \/ v # u) => Queued(m, v)' = Queued(m, v)
    BY <2>2 DEF Queued
  <2>4. /\ IsFiniteSet(Requests) /\ MaxPerUser \in Nat
        /\ Queued(n, u) \in SUBSET Requests /\ Queued(n, u)' \in SUBSET Requests
        /\ \A x \in Requests \ {r} : x \in Queued(n, u) <=> x \in Queued(n, u)'
        /\ r \in Queued(n, u) /\ r \notin Queued(n, u)'
    BY <2>2, QAAssumption DEF Queued, QAAssumption
  <2>5. /\ Cardinality(Queued(n, u)) \in Nat /\ Cardinality(Queued(n, u)') \in Nat
        /\ Cardinality(Queued(n, u)') = Cardinality(Queued(n, u)) - 1
    BY <2>4, CountOne
  <2>6. \A m \in Nodes, v \in Users : /\ perUser[m][v] = Cardinality(Queued(m, v))
                                      /\ perUser[m][v] <= MaxPerUser
    BY <1>4 DEF LiteLedger
  <2> HIDE DEF u
  <2>7. /\ perUser[n] \in [Users -> Nat] /\ perUser[n][u] \in Nat
        /\ perUser[n][u] - 1 = Cardinality(Queued(n, u)')
    BY <1>1, <1>2, <2>5, <2>6
  <2>8. [perUser[n] EXCEPT ![u] = perUser[n][u] - 1] \in [Users -> Nat]
    BY <1>1, <2>5, <2>7
  <2>9. perUser' \in [Nodes -> [Users -> Nat]]
    BY <1>2, <2>1, <2>8
  <2>10. \A m \in Nodes, v \in Users :
           perUser'[m][v] = IF m = n /\ v = u THEN perUser[n][u] - 1 ELSE perUser[m][v]
    BY <1>1, <1>2, <2>1
  <2>11. ASSUME NEW m \in Nodes, NEW v \in Users
         PROVE  /\ perUser'[m][v] = Cardinality(Queued(m, v)')
                /\ perUser'[m][v] <= MaxPerUser
    <3>1. CASE m = n /\ v = u
      <4>1. perUser'[m][v] = perUser[n][u] - 1 /\ perUser[n][u] <= MaxPerUser
        BY <1>1, <2>6, <2>10, <3>1
      <4> QED BY <2>4, <2>7, <3>1, <4>1
    <3>2. CASE m # n \/ v # u
      <4>1. perUser'[m][v] = perUser[m][v]
        BY <2>10, <3>2
      <4>2. Queued(m, v)' = Queued(m, v)
        BY <2>3, <3>2
      <4> QED BY <2>6, <4>1, <4>2
    <3> QED BY <3>1, <3>2
  <2> QED BY <2>9, <2>11 DEF LiteLedger
<1> QED BY <1>3, <1>4

\* ... and here when one joins it, which Enqueue allows below the limit only.
LEMMA LiteGrows ==
  ASSUME TypeOK, LiteLedger, redis' = redis, NEW n \in Nodes, NEW r \in Requests,
         req[r].st # "queued", redis \/ ~(perUser[n][UserOf[r]] >= MaxPerUser),
         NEW q, q.st = "queued", q.node = n, req' = [req EXCEPT ![r] = q],
         perUser' = IF redis THEN perUser
                    ELSE [perUser EXCEPT ![n][UserOf[r]] = @ + 1]
  PROVE  LiteLedger' /\ perUser' \in [Nodes -> [Users -> Nat]]
<1> DEFINE u == UserOf[r]
<1>1. u \in Users
  BY QAAssumption DEF QAAssumption
<1>2. perUser \in [Nodes -> [Users -> Nat]]
  BY DEF TypeOK
<1>3. CASE redis
  BY <1>2, <1>3 DEF LiteLedger
<1>4. CASE ~redis
  <2>1. perUser' = [perUser EXCEPT ![n] = [perUser[n] EXCEPT ![u] = perUser[n][u] + 1]]
    BY <1>4
  <2>2. req'[r] = q /\ \A x \in Requests \ {r} : req'[x] = req[x]
    BY DEF TypeOK
  <2>3. \A m \in Nodes, v \in Users : (m # n \/ v # u) => Queued(m, v)' = Queued(m, v)
    BY <2>2 DEF Queued
  <2>4. /\ IsFiniteSet(Requests) /\ MaxPerUser \in Nat
        /\ Queued(n, u) \in SUBSET Requests /\ Queued(n, u)' \in SUBSET Requests
        /\ \A x \in Requests \ {r} : x \in Queued(n, u) <=> x \in Queued(n, u)'
        /\ r \notin Queued(n, u) /\ r \in Queued(n, u)'
    BY <2>2, QAAssumption DEF Queued, QAAssumption
  <2>5. /\ Cardinality(Queued(n, u)) \in Nat /\ Cardinality(Queued(n, u)') \in Nat
        /\ Cardinality(Queued(n, u)') = Cardinality(Queued(n, u)) + 1
    BY <2>4, CountOne
  <2>6. \A m \in Nodes, v \in Users : /\ perUser[m][v] = Cardinality(Queued(m, v))
                                      /\ perUser[m][v] <= MaxPerUser
    BY <1>4 DEF LiteLedger
  <2>7. ~(perUser[n][u] >= MaxPerUser)
    BY <1>4
  <2> HIDE DEF u
  <2>8. /\ perUser[n] \in [Users -> Nat] /\ perUser[n][u] \in Nat
        /\ perUser[n][u] + 1 = Cardinality(Queued(n, u)')
        /\ perUser[n][u] + 1 <= MaxPerUser
    BY <1>1, <1>2, <2>4, <2>5, <2>6, <2>7
  <2>9. perUser' \in [Nodes -> [Users -> Nat]]
    <3>1. [perUser[n] EXCEPT ![u] = perUser[n][u] + 1] \in [Users -> Nat]
      BY <1>1, <2>8
    <3> QED BY <1>2, <2>1, <3>1
  <2>10. \A m \in Nodes, v \in Users :
           perUser'[m][v] = IF m = n /\ v = u THEN perUser[n][u] + 1 ELSE perUser[m][v]
    BY <1>1, <1>2, <2>1
  <2>11. ASSUME NEW m \in Nodes, NEW v \in Users
         PROVE  /\ perUser'[m][v] = Cardinality(Queued(m, v)')
                /\ perUser'[m][v] <= MaxPerUser
    <3>1. CASE m = n /\ v = u
      BY <2>8, <2>10, <3>1
    <3>2. CASE m # n \/ v # u
      <4>1. perUser'[m][v] = perUser[m][v]
        BY <2>10, <3>2
      <4>2. Queued(m, v)' = Queued(m, v)
        BY <2>3, <3>2
      <4> QED BY <2>6, <4>1, <4>2
    <3> QED BY <3>1, <3>2
  <2> QED BY <2>9, <2>11 DEF LiteLedger
<1> QED BY <1>3, <1>4

\* A request that is taken out of a queue, by a worker or by /stop.
LEMMA RemoveStep ==
  ASSUME IInv, NEW n \in Nodes, NEW i, NEW r, NEW q \in RequestStates, TakenOut(n, i, r, q),
         Sane(q), StillKept(r, q), q.slot = req[r].slot,
         perUser' = IF redis THEN perUser
                    ELSE [perUser EXCEPT ![n][UserOf[r]] = @ - 1],
         UNCHANGED <<redis, closed, reach, gate, doomed>>, faults \subseteq faults',
         users' \in [Users -> Key], UserLedger', StopOK'
  PROVE  IInv'
<1>1. /\ TypeOK /\ QueueInv /\ LiteLedger /\ GateLedger /\ AllDoomed /\ EntryOK
      /\ doomed \subseteq Requests /\ \A x \in Requests : Sane(req[x])
  BY DEF IInv, StopOK
<1>2. /\ QueueInv' /\ queue' \in [Nodes -> Seq(Requests)]
      /\ r \in Requests /\ req[r].st = "queued" /\ req[r].node = n
  BY <1>1, QueueShrinks
<1>0. q.st # "queued" /\ req' = [req EXCEPT ![r] = q]
  BY DEF TakenOut
<1>3. LiteLedger' /\ perUser' \in [Nodes -> [Users -> Nat]]
  BY <1>0, <1>1, <1>2, LiteShrinks
<1>4. req'[r] = q /\ \A x \in Requests \ {r} : req'[x] = req[x]
  BY <1>0, <1>1, <1>2 DEF TypeOK
<1>5. TypeOK'
  <2>1. req' \in [Requests -> RequestStates]
    BY <1>0, <1>1, <1>2 DEF TypeOK
  <2> QED BY <1>1, <1>2, <1>3, <2>1 DEF TypeOK, reach
<1>6. \A x \in Requests : Sane(req[x])'
  <2>1. Sane(req[r])'
    BY <1>0, <1>2, <1>4 DEF Sane
  <2>2. \A x \in Requests \ {r} : Sane(req[x])'
    BY <1>1, <1>4 DEF Sane
  <2> QED BY <2>1, <2>2
<1>7. GateLedger'
  <2>1. gate'.n = gate.n /\ redis' = redis /\ \A x \in Requests : req'[x].slot = req[x].slot
    BY <1>4
  <2> QED BY <1>1, <2>1, GateKept
<1>8. AllDoomed' /\ EntryOK'
  <2>1. marker \subseteq marker' /\ redis' = redis /\ doomed' = doomed /\ inflight' = inflight
    BY DEF reach
  <2>2. AllDoomed'
    BY <1>0, <1>1, <1>2, <2>1, DoomedKept
  <2> QED BY <1>1, <2>1, <2>2 DEF EntryOK
<1> QED BY <1>2, <1>3, <1>5, <1>6, <1>7, <1>8 DEF IInv

LEMMA DequeueKeeps ==
  ASSUME IInv, NEW n \in Nodes, Dequeue(n)
  PROVE  IInv'
<1> DEFINE r == queue[n][1]
           t == Tail(queue[n])
           q == [req[r] EXCEPT !.st = "taken"]
<1>1. TypeOK /\ QueueInv /\ UserLedger /\ StopOK /\ queue[n] \in Seq(Requests)
  BY DEF IInv, TypeOK
<1>2. /\ t \in Seq(Requests) /\ IsWithout(t, queue[n], 1) /\ Head(queue[n]) = r
      /\ 1 \in 1..Len(queue[n])
  BY <1>1, WithoutFirst DEF Dequeue
<1>3. /\ queue' = [queue EXCEPT ![n] = t]
      /\ perUser' = IF redis THEN perUser ELSE [perUser EXCEPT ![n][UserOf[r]] = @ - 1]
      /\ req' = [req EXCEPT ![r] = q]
      /\ UNCHANGED <<redis, closed, reach, users, gate, command, faults>>
  BY <1>2 DEF Dequeue, Move
<1>4. r \in Requests /\ req[r].st = "queued" /\ req[r].node = n /\ Sane(req[r])
      /\ req[r] \in RequestStates
  <2>1. r \in Requests
    BY <1>1, <1>2
  <2> QED BY <1>1, <1>2, <2>1 DEF QueueInv, IInv, TypeOK
<1>5. /\ q \in RequestStates /\ q.st = "taken" /\ q.how = req[r].how /\ q.live = req[r].live
      /\ q.node = req[r].node /\ q.counted = req[r].counted /\ q.slot = req[r].slot
  BY <1>4 DEF RequestStates, States, Busy
<1> HIDE DEF q, r, t
<1>6. Sane(q)
  BY <1>4, <1>5 DEF Sane, InHandler
<1>7. StillKept(r, q)
  BY <1>4, <1>5 DEF StillKept, Early
<1>8. req'[r] = q /\ \A x \in Requests \ {r} : req'[x] = req[x]
  BY <1>1, <1>3, <1>4 DEF TypeOK
<1>9. UserLedger'
  <2>1. \A x \in Requests : /\ req'[x].counted = req[x].counted
                            /\ (req'[x].st = "ended") = (req[x].st = "ended")
                            /\ (req'[x].st = "over") = (req[x].st = "over")
    BY <1>4, <1>5, <1>8
  <2> QED BY <1>1, <1>3, <2>1, UserKept
<1>10. /\ users' \in [Users -> Key] /\ StopOK' /\ faults \subseteq faults'
       /\ UNCHANGED <<redis, closed, reach, gate, doomed>>
  BY <1>1, <1>3 DEF TypeOK, StopOK, command
<1>11. TakenOut(n, 1, r, q)
  <2>1. r = queue[n][1]
    BY DEF r
  <2> QED BY <1>2, <1>3, <1>5, <2>1 DEF TakenOut
<1> QED BY <1>3, <1>5, <1>6, <1>7, <1>9, <1>10, <1>11, RemoveStep

LEMMA EnqueueKeeps ==
  ASSUME IInv, NEW r \in Requests, Enqueue(r)
  PROVE  IInv'
<1> USE StateNames
<1> DEFINE n == req[r].node
           q == [req[r] EXCEPT !.st = "queued"]
<1>1. /\ req[r].st = "counted" /\ queue' = [queue EXCEPT ![n] = Append(@, r)]
      /\ perUser' = IF redis THEN perUser ELSE [perUser EXCEPT ![n][UserOf[r]] = @ + 1]
      /\ req' = [req EXCEPT ![r] = q]
      /\ redis \/ ~(perUser[n][UserOf[r]] >= MaxPerUser)
      /\ UNCHANGED <<redis, closed, reach, users, gate, command, faults>>
  BY DEF Enqueue, Refused, Move
<1>2. /\ TypeOK /\ QueueInv /\ LiteLedger /\ UserLedger /\ GateLedger /\ StopOK /\ EntryOK
      /\ AllDoomed /\ doomed \subseteq Requests /\ \A x \in Requests : Sane(req[x])
  BY DEF IInv, StopOK
<1>3. /\ q \in RequestStates /\ q.st = "queued" /\ q.how = req[r].how /\ q.live = req[r].live
      /\ q.node = n /\ q.counted = req[r].counted /\ q.slot = req[r].slot
  <2>1. req[r] \in RequestStates
    OBVIOUS
  <2> QED BY <2>1 DEF RequestStates, States, Busy
<1>4. n \in Nodes
  BY <1>1
<1> HIDE DEF q, n
<1>5. req'[r] = q /\ \A x \in Requests \ {r} : req'[x] = req[x]
  BY <1>1, <1>2 DEF TypeOK
<1>6. QueueInv' /\ queue' \in [Nodes -> Seq(Requests)]
  BY <1>1, <1>2, <1>3, <1>4, QueueGrows
<1>7. LiteLedger' /\ perUser' \in [Nodes -> [Users -> Nat]]
  <2>1. redis' = redis /\ req[r].st # "queued"
    BY <1>1
  <2> QED BY <1>1, <1>2, <1>3, <1>4, <2>1, LiteGrows
<1>8. TypeOK'
  <2>1. req' \in [Requests -> RequestStates]
    BY <1>1, <1>2, <1>3 DEF TypeOK
  <2> QED BY <1>1, <1>2, <1>6, <1>7, <2>1 DEF TypeOK, reach
<1>9. \A x \in Requests : Sane(req[x])'
  <2>1. Sane(q)
    BY <1>1, <1>3 DEF Sane, InHandler, n
  <2>2. Sane(req[r])'
    BY <1>1, <1>5, <2>1 DEF Sane
  <2>3. \A x \in Requests \ {r} : Sane(req[x])'
    BY <1>1, <1>2, <1>5 DEF Sane
  <2> QED BY <2>2, <2>3
<1>10. UserLedger' /\ GateLedger'
  <2>1. \A x \in Requests : /\ req'[x].counted = req[x].counted /\ req'[x].slot = req[x].slot
                            /\ (req'[x].st = "ended") = (req[x].st = "ended")
                            /\ (req'[x].st = "over") = (req[x].st = "over")
    BY <1>1, <1>3, <1>5
  <2>2. faults \subseteq faults' /\ redis' = redis /\ users' = users /\ gate'.n = gate.n
    BY <1>1
  <2>3. UserLedger'
    BY <1>2, <2>1, <2>2, UserKept
  <2> QED BY <1>2, <2>1, <2>2, <2>3, GateKept
<1>11. AllDoomed' /\ StopOK' /\ EntryOK'
  <2>1. /\ faults \subseteq faults' /\ redis' = redis /\ marker \subseteq marker'
        /\ doomed' = doomed /\ stop' = stop /\ inflight' = inflight
    BY <1>1 DEF reach, command
  <2>2. StillKept(r, q)
    BY <1>1, <1>3 DEF StillKept, Early
  <2>3. AllDoomed'
    BY <1>1, <1>2, <2>1, <2>2, DoomedKept
  <2> QED BY <1>2, <2>1, <2>3 DEF StopOK, EntryOK
<1> QED BY <1>6, <1>7, <1>8, <1>9, <1>10, <1>11 DEF IInv

-----------------------------------------------------------------------------
(* The /stop command *)

\* A set of positions that is not empty has a first one.
LEMMA FirstExists ==
  ASSUME NEW T, T \subseteq Nat, T # {}
  PROVE  \E i \in T : \A j \in T : i <= j
<1> DEFINE R == OpToRel(<, Nat)
<1>1. R = {ss \in Nat \X Nat : ss[1] < ss[2]}
  BY DEF OpToRel
<1>2. IsWellFoundedOn(R, Nat)
  BY NatLessThanWellFounded, Zenon
<1> HIDE DEF R
<1>3. PICK i \in T : \A j \in T : ~(<<j, i>> \in R)
  BY <1>2, WFMin
<1>4. \A j \in T : i <= j
  <2> SUFFICES ASSUME NEW j \in T, ~(i <= j) PROVE FALSE
    OBVIOUS
  <2>1. j \in Nat /\ i \in Nat /\ j < i
    OBVIOUS
  <2>2. <<j, i>> \in R
    BY <1>1, <2>1
  <2> QED BY <1>3, <2>2
<1> QED BY <1>4

LEMMA StopQueuedKeeps ==
  ASSUME IInv, NEW n \in Nodes, NEW u \in Users, StopQueued(n, u)
  PROVE  IInv'
<1>1. TypeOK /\ QueueInv /\ UserLedger /\ GateLedger /\ StopOK /\ queue[n] \in Seq(Requests)
  BY DEF IInv, TypeOK
<1>2. UNCHANGED <<redis, closed, reach, gate, doomed>>
  BY DEF StopQueued
<1>3. ASSUME NEW pc \in {"lookup", "inflight"}, stop' = Heard(n, u, pc)
      PROVE  StopOK'
  <2>1. Sole(u) # None => redis /\ Sole(u) \in Requests /\ UserOf[Sole(u)] = u
    BY DEF Sole, Unfinished
  <2>2. stop' = [pc |-> pc, node |-> n, user |-> u, ids |-> None, sole |-> Sole(u)]
    BY <1>3 DEF Heard
  <2>3. Sole(u) \in Requests \cup {None} /\ doomed' \subseteq Requests /\ redis' = redis
    BY <1>1, <1>2, <2>1 DEF StopOK
  <2> QED BY <2>1, <2>2, <2>3 DEF StopOK
<1>4. CASE Waiting(n, u) # {}
  <2> DEFINE i == CHOOSE k \in Waiting(n, u) : \A j \in Waiting(n, u) : k <= j
             t == SubSeq(queue[n], 1, i - 1) \o SubSeq(queue[n], i + 1, Len(queue[n]))
             r == queue[n][i]
             q == End(req[r], "removed")
  <2>1. i \in Waiting(n, u)
    <3>1. Waiting(n, u) \subseteq Nat
      BY <1>1 DEF Waiting
    <3>2. \E k \in Waiting(n, u) : \A j \in Waiting(n, u) : k <= j
      BY <1>4, <3>1, FirstExists
    <3> QED BY <3>2
  <2>2. /\ queue' = [queue EXCEPT ![n] = t]
        /\ perUser' = IF redis THEN perUser ELSE [perUser EXCEPT ![n][u] = @ - 1]
        /\ req' = [req EXCEPT ![r] = q] /\ DecrUser(u) /\ stop' = Heard(n, u, "lookup")
    BY <1>4 DEF StopQueued, Finish
  <2> HIDE DEF i
  <2>3. i \in 1..Len(queue[n]) /\ UserOf[r] = u
    BY <2>1 DEF Waiting
  <2>4. t \in Seq(Requests) /\ IsWithout(t, queue[n], i)
    BY <1>1, <2>3, WithoutOne
  <2>5. r \in Requests /\ req[r].st = "queued" /\ Sane(req[r])
    <3>1. r \in Requests
      BY <1>1, <2>3
    <3> QED BY <2>3, <3>1 DEF QueueInv, IInv
  <2>6. r = queue[n][i]
    OBVIOUS
  <2> HIDE DEF t, r, q
  <2>7. /\ q \in RequestStates
        /\ q.st = "ended" /\ q.how = "removed" /\ q.live = FALSE
        /\ q.counted = (IF req[r].counted = "yes" THEN "no" ELSE req[r].counted)
        /\ q.node = req[r].node /\ q.slot = req[r].slot
    BY <1>1, <2>5, EndIs DEF q, Ways
  <2>8. TakenOut(n, i, r, q)
    BY <2>2, <2>3, <2>4, <2>6, <2>7 DEF TakenOut
  <2>9. Sane(q)
    BY <2>5, <2>7 DEF Sane, InHandler
  <2>10. StillKept(r, q)
    BY <2>5, <2>7 DEF StillKept, Sane
  <2>11. DecrUser(UserOf[r]) /\ redis' = redis
         /\ perUser' = IF redis THEN perUser ELSE [perUser EXCEPT ![n][UserOf[r]] = @ - 1]
    BY <1>2, <2>2, <2>3
  <2>12. UserLedger'
    BY <1>1, <2>2, <2>5, <2>7, <2>11, EndKeepsUsers
  <2>13. faults \subseteq faults' /\ users' \in [Users -> Key]
    BY <1>1, <2>2, DecrType
  <2>14. StopOK'
    BY <1>3, <2>2
  <2> QED BY <1>2, <2>7, <2>8, <2>9, <2>10, <2>11, <2>12, <2>13, <2>14, RemoveStep
<1>5. CASE Waiting(n, u) = {}
  <2>1. /\ stop' = Heard(n, u, "inflight") /\ UNCHANGED <<queue, perUser, req, users, faults>>
    BY <1>5 DEF StopQueued
  <2>2. /\ TypeOK' /\ EntryOK' /\ AllDoomed' /\ \A x \in Requests : Sane(req[x])'
    <3>1. /\ EntryOK /\ AllDoomed /\ \A x \in Requests : Sane(req[x])
      BY DEF IInv
    <3>2. TypeOK'
      BY <1>1, <1>2, <2>1 DEF TypeOK, reach
    <3>3. EntryOK' /\ AllDoomed'
      BY <1>2, <2>1, <3>1 DEF EntryOK, AllDoomed, Doomed, reach
    <3> QED BY <1>2, <2>1, <3>1, <3>2, <3>3 DEF Sane
  <2>3. UserLedger' /\ GateLedger'
    BY <1>1, <1>2, <2>1, UserKept, GateKept
  <2> QED BY <1>2, <1>3, <2>1, <2>2, <2>3, StayStep
<1> QED BY <1>4, <1>5

LEMMA StopInflightKeeps ==
  ASSUME IInv, StopInflight
  PROVE  IInv'
<1> DEFINE e == inflight[stop.node][stop.user]
<1>1. /\ TypeOK /\ UserLedger /\ GateLedger /\ StopOK /\ EntryOK /\ AllDoomed
      /\ \A x \in Requests : Sane(req[x])
  BY DEF IInv
<1>2. /\ stop.pc = "inflight" /\ inflight' = [inflight EXCEPT ![stop.node][stop.user] = Nobody]
      /\ req' = IF e = Nobody THEN req ELSE [req EXCEPT ![e.who].live = FALSE]
      /\ stop' = [stop EXCEPT !.pc = "lookup", !.ids = e.ids]
      /\ UNCHANGED <<redis, local, mapping, events, marker, users, gate, stops, doomed, faults>>
  BY DEF StopInflight
<1>3. stop.node \in Nodes /\ stop.user \in Users
  BY <1>1, <1>2 DEF StopOK
<1>4. e \in [who : Requests \cup {None}, ids : Requests \cup {None}]
  BY <1>1, <1>3 DEF TypeOK
<1>5. e # Nobody => e.who \in Requests
  BY <1>1, <1>3, <1>4 DEF EntryOK
<1> HIDE DEF e
<1>6. \A x \in Requests : /\ req'[x] \in RequestStates
                          /\ req'[x].st = req[x].st /\ req'[x].node = req[x].node
                          /\ req'[x].counted = req[x].counted /\ req'[x].slot = req[x].slot
                          /\ req'[x].how = req[x].how /\ (~req[x].live => ~req'[x].live)
  <2>1. req \in [Requests -> RequestStates]
    BY <1>1 DEF TypeOK
  <2>2. CASE e = Nobody
    BY <1>2, <2>1, <2>2
  <2>3. CASE e # Nobody
    <3> DEFINE q == [req[e.who] EXCEPT !.live = FALSE]
    <3>1. req' = [req EXCEPT ![e.who] = q]
      BY <1>2, <2>3
    <3>2. /\ q \in RequestStates /\ q.st = req[e.who].st /\ q.how = req[e.who].how /\ q.live = FALSE
          /\ q.node = req[e.who].node /\ q.counted = req[e.who].counted /\ q.slot = req[e.who].slot
      <4>1. req[e.who] \in RequestStates
        BY <1>5, <2>1, <2>3
      <4> QED BY <4>1 DEF RequestStates
    <3> HIDE DEF q
    <3> QED BY <1>5, <2>1, <2>3, <3>1, <3>2
  <2> QED BY <2>2, <2>3
<1>7. TypeOK'
  <2>1. req' \in [Requests -> RequestStates]
    <3>1. req' = req \/ req' = [req EXCEPT ![e.who].live = FALSE]
      BY <1>2
    <3>2. DOMAIN req' = Requests /\ req' = [x \in DOMAIN req' |-> req'[x]]
      BY <1>1, <3>1 DEF TypeOK
    <3> QED BY <1>6, <3>2
  <2>2. inflight' \in [Nodes -> [Users -> [who : Requests \cup {None}, ids : Requests \cup {None}]]]
    BY <1>1, <1>2, <1>3 DEF TypeOK, Nobody
  <2> QED BY <1>1, <1>2, <2>1, <2>2 DEF TypeOK, local
<1>8. \A x \in Requests : Sane(req[x])'
  BY <1>1, <1>2, <1>6 DEF Sane
<1>9. UserLedger' /\ GateLedger'
  BY <1>1, <1>2, <1>6, UserKept, GateKept
<1>10. EntryOK'
  <2>1. \A m \in Nodes, v \in Users :
          inflight'[m][v] = inflight[m][v] \/ inflight'[m][v] = Nobody
    BY <1>1, <1>2, <1>3 DEF TypeOK
  <2> QED BY <1>1, <2>1 DEF EntryOK
<1>11. StopOK'
  <2>1. e.ids \in Requests \cup {None}
    BY <1>4
  <2> QED BY <1>1, <1>2, <1>3, <2>1 DEF StopOK
<1>12. AllDoomed'
  <2> SUFFICES ASSUME NEW d \in doomed PROVE Doomed(d)'
    BY <1>2 DEF AllDoomed
  <2>1. Doomed(d) /\ d \in Requests
    BY <1>1 DEF AllDoomed, StopOK
  <2> QED BY <1>2, <1>6, <2>1 DEF Doomed
<1> QED BY <1>2, <1>6, <1>7, <1>8, <1>9, <1>10, <1>11, <1>12, StayStep DEF local

\* Only what /stop leaves behind changes.
LEMMA OutsideStep ==
  ASSUME IInv, UNCHANGED <<redis, req, queue, perUser, inflight, users, mapping, gate>>,
         closed' \subseteq Nodes, events' \subseteq Requests, marker' \subseteq Users,
         faults \subseteq faults', StopOK', AllDoomed'
  PROVE  IInv'
<1>1. /\ TypeOK /\ UserLedger /\ GateLedger /\ EntryOK /\ \A x \in Requests : Sane(req[x])
  BY DEF IInv
<1>2. TypeOK'
  BY <1>1 DEF TypeOK
<1>3. UserLedger' /\ GateLedger'
  BY <1>1, UserKept, GateKept
<1>4. EntryOK' /\ \A x \in Requests : Sane(req[x])'
  BY <1>1 DEF EntryOK, Sane
<1> QED BY <1>2, <1>3, <1>4, StayStep

LEMMA StopLookupKeeps ==
  ASSUME IInv, StopLookup
  PROVE  IInv'
<1>1. TypeOK /\ StopOK /\ AllDoomed
  BY DEF IInv
<1>2. /\ UNCHANGED <<redis, req, local, inflight, mapping, marker, users, gate, stops,
                     doomed, faults>>
      /\ stop' = [stop EXCEPT !.pc = "mark", !.ids = None] /\ stop.pc = "lookup"
  BY DEF StopLookup
<1>3. events' \subseteq Requests
  <2>1. /\ stop.ids \in Requests \cup {None} /\ stop.user \in Users
        /\ mapping[stop.user] \in Requests \cup {None}
    BY <1>1, <1>2 DEF StopOK, TypeOK
  <2> QED BY <1>1, <2>1 DEF StopLookup, TypeOK
<1>4. StopOK' /\ AllDoomed'
  BY <1>1, <1>2 DEF StopOK, AllDoomed, Doomed
<1>5. closed' \subseteq Nodes /\ marker' \subseteq Users
  BY <1>1, <1>2 DEF TypeOK, local
<1> QED BY <1>2, <1>3, <1>4, <1>5, OutsideStep DEF local

\* The request the command is meant for has not looked at the marker yet, and
\* will find it; or it is cancelled already.
LEMMA StopMarkKeeps ==
  ASSUME IInv, StopMark
  PROVE  IInv'
<1>1. TypeOK /\ StopOK /\ AllDoomed
  BY DEF IInv
<1>2. /\ UNCHANGED <<redis, req, local, inflight, mapping, events, users, gate, stops, faults>>
      /\ stop' = NoStop /\ stop.pc = "mark"
      /\ marker' = IF redis THEN marker \cup {stop.user} ELSE marker
      /\ doomed' = doomed \cup {r \in {stop.sole} \ {None} : InReach(r)}
  BY DEF StopMark, Closes
<1>3. stop.user \in Users /\ doomed \subseteq Requests
  BY <1>1, <1>2 DEF StopOK
<1>4. StopOK'
  <2>1. doomed' \subseteq Requests
    BY <1>1, <1>2, <1>3 DEF StopOK
  <2> QED BY <1>2, <2>1 DEF StopOK, NoStop
<1>5. AllDoomed'
  <2> SUFFICES ASSUME NEW d \in doomed' PROVE Doomed(d)'
    BY DEF AllDoomed
  <2>1. CASE d \in doomed
    <3>1. Doomed(d) /\ marker \subseteq marker'
      BY <1>1, <1>2, <2>1 DEF AllDoomed
    <3> QED BY <1>2, <3>1 DEF Doomed
  <2>2. CASE d = stop.sole /\ d # None /\ InReach(d)
    <3>1. redis /\ UserOf[d] = stop.user
      BY <1>1, <2>2 DEF StopOK
    <3>2. req'[d] = req[d] /\ redis' /\ UserOf[d] \in marker'
      BY <1>2, <3>1
    <3> QED BY <2>2, <3>2 DEF InReach, Doomed
  <2> QED BY <1>2, <2>1, <2>2
<1>6. closed' \subseteq Nodes /\ marker' \subseteq Users /\ events' \subseteq Requests
  BY <1>1, <1>2, <1>3 DEF TypeOK, local
<1> QED BY <1>2, <1>4, <1>5, <1>6, OutsideStep DEF local

-----------------------------------------------------------------------------
(* Instances and time *)

LEMMA CloseKeeps ==
  ASSUME IInv, NEW n \in Nodes, Close(n)
  PROVE  IInv'
<1>1. TypeOK /\ StopOK /\ AllDoomed
  BY DEF IInv
<1>2. /\ UNCHANGED <<redis, req, queue, perUser, reach, users, gate, command>>
      /\ faults \subseteq faults' /\ closed' = closed \cup {n}
  BY DEF Close, Fault
<1>3. StopOK'
  BY <1>1, <1>2 DEF StopOK, command
<1>4. AllDoomed'
  BY <1>1, <1>2 DEF AllDoomed, Doomed, command, reach
<1>5. closed' \subseteq Nodes /\ marker' \subseteq Users /\ events' \subseteq Requests
  BY <1>1, <1>2 DEF TypeOK, reach
<1> QED BY <1>2, <1>3, <1>4, <1>5, OutsideStep DEF reach

\* A marker that expires takes along no promise: while a request of the user
\* is unfinished, its loss is one of the faults.
LEMMA MarkerExpiresKeeps ==
  ASSUME IInv, NEW u \in Users, MarkerExpires(u)
  PROVE  IInv'
<1>1. TypeOK /\ StopOK /\ AllDoomed
  BY DEF IInv
<1>2. /\ UNCHANGED <<redis, req, local, inflight, mapping, events, users, gate, command>>
      /\ marker' = marker \ {u}
      /\ (Unfinished(u) = {} /\ faults' = faults) \/ "marker" \in faults'
      /\ faults \subseteq faults'
  BY DEF MarkerExpires, Fault
<1>3. StopOK'
  BY <1>1, <1>2 DEF StopOK, command
<1>4. AllDoomed'
  <2> SUFFICES ASSUME NEW d \in doomed, "marker" \notin faults' PROVE Doomed(d)'
    BY <1>2 DEF AllDoomed, command, Doomed
  <2>1. Doomed(d) /\ d \in Requests
    BY <1>1 DEF AllDoomed, StopOK
  <2>2. UserOf[d] = u => req[d].st \notin Early
    BY <1>2, <2>1 DEF Unfinished, Early
  <2>3. CASE /\ redis /\ UserOf[d] \in marker /\ req[d].how = "none" /\ req[d].st \in Early
    BY <1>2, <2>2, <2>3 DEF Doomed, Early
  <2> QED BY <1>2, <2>1, <2>3 DEF Doomed, Early
<1>5. closed' \subseteq Nodes /\ marker' \subseteq Users /\ events' \subseteq Requests
  BY <1>1, <1>2 DEF TypeOK, local
<1> QED BY <1>2, <1>3, <1>4, <1>5, OutsideStep DEF local

\* The user's key expires; only what it has been lowered too often is
\* forgotten with it, unless a request that is counted is unfinished.
LEMMA UserExpiresKeeps ==
  ASSUME IInv, NEW u \in Users, UserExpires(u)
  PROVE  IInv'
<1>1. /\ TypeOK /\ UserLedger /\ GateLedger /\ StopOK /\ EntryOK /\ AllDoomed
      /\ \A x \in Requests : Sane(req[x])
  BY DEF IInv
<1>2. /\ UNCHANGED <<redis, local, reach, gate, command>>
      /\ users' = [users EXCEPT ![u] = Absent]
      /\ req' = [r \in Requests |->
           [req[r] EXCEPT !.counted = IF r \in NeverEnded(u) THEN "no" ELSE @]]
      /\ faults \subseteq faults'
      /\ Yes(u) = {} \/ "ttl" \in faults'
  BY DEF UserExpires, Fault
<1>3. \A x \in Requests :
        /\ req'[x] \in RequestStates
        /\ req'[x].st = req[x].st /\ req'[x].node = req[x].node /\ req'[x].slot = req[x].slot
        /\ req'[x].how = req[x].how /\ req'[x].live = req[x].live
        /\ req'[x].counted = IF x \in NeverEnded(u) THEN "no" ELSE req[x].counted
  <2> TAKE x \in Requests
  <2>1. req[x] \in RequestStates
    BY <1>1 DEF TypeOK
  <2>2. req'[x] = [req[x] EXCEPT !.counted = IF x \in NeverEnded(u) THEN "no" ELSE req[x].counted]
    BY <1>2
  <2>3. CASE x \in NeverEnded(u)
    BY <2>1, <2>2, <2>3 DEF RequestStates
  <2>4. CASE x \notin NeverEnded(u)
    BY <2>1, <2>2, <2>4 DEF RequestStates
  <2> QED BY <2>3, <2>4
<1>4. TypeOK'
  <2>1. req' \in [Requests -> RequestStates]
    BY <1>2, <1>3
  <2>2. users' \in [Users -> Key]
    BY <1>1, <1>2 DEF TypeOK, Key, Absent
  <2> QED BY <1>1, <1>2, <2>1, <2>2 DEF TypeOK, local, reach
<1>5. \A x \in Requests : Sane(req[x])'
  <2> SUFFICES ASSUME NEW x \in Requests PROVE Sane(req[x])'
    OBVIOUS
  <2>1. Sane(req[x]) /\ redis' = redis
    BY <1>1, <1>2
  <2>2. CASE x \in NeverEnded(u)
    <3>1. req[x].st = "ended"
      BY <2>2 DEF NeverEnded
    <3>2. req'[x].st = "ended" /\ req'[x].counted = "no" /\ req'[x].node = req[x].node
      BY <1>3, <2>2, <3>1
    <3> QED BY <2>1, <3>1, <3>2, <1>3 DEF Sane, InHandler
  <2>3. CASE x \notin NeverEnded(u)
    BY <1>3, <2>1, <2>3 DEF Sane
  <2> QED BY <2>2, <2>3
<1>6. UserLedger'
  <2> SUFFICES ASSUME redis, "ttl" \notin faults', NEW v \in Users
               PROVE  /\ NoLoss' => users'[v].n = Cardinality(Yes(v)') - Cardinality(NeverEnded(v)')
                      /\ users'[v].n >= Cardinality(Yes(v)') - Cardinality(NeverEnded(v)')
                      /\ Cardinality(LetIn(v)') <= MaxPerUser + Cardinality(NeverEnded(v)')
    BY <1>2 DEF UserLedger, NoLoss
  <2>1. Yes(v)' = Yes(v) /\ LetIn(v)' = LetIn(v)
    <3>1. \A x \in Requests : (req'[x].counted = "yes") = (req[x].counted = "yes")
      BY <1>3 DEF NeverEnded, Never
    <3>2. Yes(v)' = Yes(v)
      BY <3>1 DEF Yes
    <3>3. \A x \in Yes(v) : req'[x].st = req[x].st
      BY <1>3 DEF Yes
    <3> QED BY <3>2, <3>3 DEF LetIn
  <2>2. CASE v = u
    <3>1. Yes(u) = {}
      BY <1>2
    <3>2. NeverEnded(u)' = {}
      BY <1>3 DEF NeverEnded, Never
    <3>3. LetIn(u) = {} /\ users'[u] = Absent
      BY <1>1, <1>2, <3>1 DEF LetIn, TypeOK
    <3>4. Cardinality({}) = 0 /\ MaxPerUser \in Nat
      BY FS_EmptySet, QAAssumption DEF QAAssumption
    <3> QED BY <2>1, <2>2, <3>1, <3>2, <3>3, <3>4 DEF Absent
  <2>3. CASE v # u
    <3>1. NeverEnded(v)' = NeverEnded(v) /\ users'[v] = users[v]
      <4>1. \A x \in Requests : UserOf[x] = v =>
              req'[x].counted = req[x].counted /\ req'[x].st = req[x].st
        BY <1>3, <2>3 DEF NeverEnded, Never
      <4>2. NeverEnded(v)' = NeverEnded(v)
        BY <4>1 DEF NeverEnded, Never
      <4> QED BY <1>1, <1>2, <2>3, <4>2 DEF TypeOK
    <3>2. (NoLoss' => NoLoss) /\ "ttl" \notin faults
      BY <1>2 DEF NoLoss
    <3> QED BY <1>1, <2>1, <3>1, <3>2 DEF UserLedger
  <2> QED BY <2>2, <2>3
<1>7. GateLedger'
  <2>1. gate'.n = gate.n /\ redis' = redis
    BY <1>2
  <2> QED BY <1>1, <1>2, <1>3, <2>1, GateKept
<1>8. StopOK' /\ EntryOK' /\ AllDoomed'
  <2>1. AllDoomed'
    <3> SUFFICES ASSUME NEW d \in doomed PROVE Doomed(d)'
      BY <1>2 DEF AllDoomed, command
    <3>1. Doomed(d) /\ d \in Requests
      BY <1>1 DEF AllDoomed, StopOK
    <3> QED BY <1>2, <1>3, <3>1 DEF Doomed, reach
  <2> QED BY <1>1, <1>2, <2>1 DEF StopOK, EntryOK, command, reach
<1> QED BY <1>2, <1>3, <1>4, <1>5, <1>6, <1>7, <1>8, StayStep DEF local

LEMMA GateExpiresKeeps ==
  ASSUME IInv, GateExpires
  PROVE  IInv'
<1>1. /\ TypeOK /\ UserLedger /\ GateLedger /\ StopOK /\ EntryOK /\ AllDoomed
      /\ \A x \in Requests : Sane(req[x])
  BY DEF IInv
<1>2. /\ UNCHANGED <<redis, local, reach, users, command>> /\ gate' = Absent
      /\ req' = [r \in Requests |->
           [req[r] EXCEPT !.slot = IF @ = "spent" THEN "no" ELSE @]]
      /\ faults \subseteq faults'
      /\ WithSlot = {} \/ "ttl" \in faults'
  BY DEF GateExpires, Fault, WithSlot
<1>3. \A x \in Requests :
        /\ req'[x] \in RequestStates
        /\ req'[x].st = req[x].st /\ req'[x].node = req[x].node
        /\ req'[x].counted = req[x].counted
        /\ req'[x].how = req[x].how /\ req'[x].live = req[x].live
        /\ req'[x].slot = IF req[x].slot = "spent" THEN "no" ELSE req[x].slot
  <2> TAKE x \in Requests
  <2>1. req[x] \in RequestStates
    BY <1>1 DEF TypeOK
  <2>2. req'[x] = [req[x] EXCEPT !.slot = IF req[x].slot = "spent" THEN "no" ELSE req[x].slot]
    BY <1>2
  <2>3. CASE req[x].slot = "spent"
    BY <2>1, <2>2, <2>3 DEF RequestStates
  <2>4. CASE req[x].slot # "spent"
    BY <2>1, <2>2, <2>4 DEF RequestStates
  <2> QED BY <2>3, <2>4
<1>4. TypeOK'
  <2>1. req' \in [Requests -> RequestStates]
    BY <1>2, <1>3
  <2>2. gate' \in Key
    BY <1>2 DEF Key, Absent
  <2> QED BY <1>1, <1>2, <2>1, <2>2 DEF TypeOK, local, reach
<1>5. \A x \in Requests : Sane(req[x])'
  <2> SUFFICES ASSUME NEW x \in Requests PROVE Sane(req[x])'
    OBVIOUS
  <2>1. Sane(req[x]) /\ redis' = redis
    BY <1>1, <1>2
  <2> QED BY <1>3, <2>1 DEF Sane
<1>6. GateLedger'
  <2> SUFFICES ASSUME "ttl" \notin faults'
               PROVE  /\ gate'.n = Cardinality(WithSlot') - Cardinality(Spent')
                      /\ gate'.n <= GlobalMax
    BY <1>2 DEF GateLedger, NoLoss, Absent
  <2>1. WithSlot' = {} /\ Spent' = {}
    BY <1>2, <1>3 DEF WithSlot, Spent
  <2>2. Cardinality({}) = 0 /\ GlobalMax \in Nat
    BY FS_EmptySet, QAAssumption DEF QAAssumption
  <2> QED BY <1>2, <2>1, <2>2 DEF Absent
<1>7. UserLedger'
  <2>1. users' = users /\ redis' = redis
    BY <1>2
  <2> QED BY <1>1, <1>2, <1>3, <2>1, UserKept
<1>8. StopOK' /\ EntryOK' /\ AllDoomed'
  <2>1. AllDoomed'
    <3> SUFFICES ASSUME NEW d \in doomed PROVE Doomed(d)'
      BY <1>2 DEF AllDoomed, command
    <3>1. Doomed(d) /\ d \in Requests
      BY <1>1 DEF AllDoomed, StopOK
    <3> QED BY <1>2, <1>3, <3>1 DEF Doomed, reach
  <2> QED BY <1>1, <1>2, <2>1 DEF StopOK, EntryOK, command, reach
<1> QED BY <1>2, <1>3, <1>4, <1>5, <1>6, <1>7, <1>8, StayStep DEF local

\* An instance dies: what its requests were counted for stays counted.
LEMMA CrashKeeps ==
  ASSUME IInv, NEW n \in Nodes, Crash(n)
  PROVE  IInv'
<1>1. /\ TypeOK /\ QueueInv /\ LiteLedger /\ UserLedger /\ GateLedger /\ StopOK /\ EntryOK
      /\ AllDoomed /\ \A x \in Requests : Sane(req[x])
  BY DEF IInv
<1>2. /\ "crash" \in faults' /\ faults \subseteq faults'
      /\ queue' = [queue EXCEPT ![n] = <<>>]
      /\ perUser' = [perUser EXCEPT ![n] = [u \in Users |-> 0]]
      /\ closed' = closed \ {n}
      /\ inflight' = [inflight EXCEPT ![n] = [u \in Users |-> Nobody]]
      /\ stop' = IF stop.node = n THEN NoStop ELSE stop
      /\ UNCHANGED <<redis, mapping, events, marker, users, gate, stops, doomed>>
  BY DEF Crash, Fault
<1>3. \A x \in Requests :
        \/ req'[x] = req[x] /\ (req[x].node # n \/ req[x].st = "ended")
        \/ \E how \in Ways :
             /\ req[x].node = n /\ req[x].st # "ended"
             /\ req'[x] = End(req[x], how)
             /\ how = IF req[x].how = "none" THEN "crashed" ELSE req[x].how
  <2> TAKE x \in Requests
  <2>1. req[x].how \in Ways /\ "crashed" \in Ways
    BY <1>1 DEF TypeOK, RequestStates, Ways
  <2>2. CASE x \in On(n) /\ req[x].st # "ended"
    BY <2>1, <2>2 DEF Crash, On
  <2>3. CASE ~(x \in On(n) /\ req[x].st # "ended")
    BY <2>3 DEF Crash, On
  <2> QED BY <2>2, <2>3
<1>4. \A x \in Requests :
        /\ req'[x] \in RequestStates
        /\ req'[x].node = req[x].node /\ req'[x].slot = req[x].slot
        /\ \/ req'[x] = req[x] /\ (req[x].node # n \/ req[x].st = "ended")
           \/ /\ req[x].node = n /\ req[x].st # "ended" /\ req'[x].st = "ended"
              /\ req'[x].counted = (IF req[x].counted = "yes" THEN "no" ELSE req[x].counted)
              /\ req'[x].how = IF req[x].how = "none" THEN "crashed" ELSE req[x].how
  <2> TAKE x \in Requests
  <2>1. CASE req'[x] = req[x] /\ (req[x].node # n \/ req[x].st = "ended")
    BY <1>1, <2>1 DEF TypeOK
  <2>2. ASSUME NEW how \in Ways, req[x].node = n, req[x].st # "ended", req'[x] = End(req[x], how),
               how = IF req[x].how = "none" THEN "crashed" ELSE req[x].how
        PROVE  /\ req'[x] \in RequestStates
               /\ req'[x].node = req[x].node /\ req'[x].slot = req[x].slot
               /\ req'[x].st = "ended" /\ req'[x].how = how
               /\ req'[x].counted = (IF req[x].counted = "yes" THEN "no" ELSE req[x].counted)
    <3> DEFINE q == End(req[x], how)
    <3>1. /\ q \in RequestStates /\ q.st = "ended" /\ q.how = how
          /\ q.counted = (IF req[x].counted = "yes" THEN "no" ELSE req[x].counted)
          /\ q.node = req[x].node /\ q.slot = req[x].slot
      <4>1. TypeOK /\ how \in Ways
        BY <1>1, <2>2
      <4> QED BY <4>1, EndIs, Zenon
    <3>2. req'[x] = q
      BY <2>2
    <3> HIDE DEF q
    <3> QED BY <3>1, <3>2
  <2> QED BY <1>3, <2>1, <2>2
<1>5. \A x \in Requests : req[x].st = "new" => req[x].node # n
  BY <1>1, QAAssumption DEF Sane, QAAssumption
<1>6. TypeOK'
  <2>1. req' \in [Requests -> RequestStates]
    BY <1>4 DEF Crash
  <2>2. /\ queue' \in [Nodes -> Seq(Requests)] /\ perUser' \in [Nodes -> [Users -> Nat]]
        /\ closed' \subseteq Nodes
    BY <1>1, <1>2 DEF TypeOK
  <2>3. inflight' \in [Nodes -> [Users -> [who : Requests \cup {None}, ids : Requests \cup {None}]]]
    <3>1. [u \in Users |-> Nobody] \in [Users -> [who : Requests \cup {None}, ids : Requests \cup {None}]]
      BY DEF Nobody
    <3> QED BY <1>1, <1>2, <3>1 DEF TypeOK
  <2> QED BY <1>1, <1>2, <2>1, <2>2, <2>3 DEF TypeOK
<1>7. \A x \in Requests : Sane(req[x])'
  <2> SUFFICES ASSUME NEW x \in Requests PROVE Sane(req[x])'
    OBVIOUS
  <2>1. Sane(req[x]) /\ redis' = redis
    BY <1>1, <1>2
  <2>2. CASE req'[x] = req[x]
    BY <2>1, <2>2 DEF Sane
  <2>3. CASE req'[x].st = "ended" /\ req[x].node = n /\ req[x].st # "ended"
    BY <1>4, <2>1, <2>3 DEF Sane, InHandler
  <2> QED BY <1>4, <2>2, <2>3
<1>8. UserLedger'
  <2> SUFFICES ASSUME redis, "ttl" \notin faults', NEW u \in Users
               PROVE  /\ users'[u].n >= Cardinality(Yes(u)') - Cardinality(NeverEnded(u)')
                      /\ Cardinality(LetIn(u)') <= MaxPerUser + Cardinality(NeverEnded(u)')
    BY <1>2 DEF UserLedger, NoLoss
  <2>1. /\ Yes(u)' \subseteq Yes(u) /\ NeverEnded(u) \subseteq NeverEnded(u)'
        /\ LetIn(u)' \subseteq LetIn(u) /\ NeverEnded(u)' \subseteq Requests
    <3>1. Yes(u)' \subseteq Yes(u)
      BY <1>4 DEF Yes
    <3>2. NeverEnded(u) \subseteq NeverEnded(u)' /\ NeverEnded(u)' \subseteq Requests
      BY <1>4 DEF NeverEnded, Never
    <3>3. LetIn(u)' \subseteq LetIn(u)
      BY <1>4 DEF LetIn, Yes
    <3> QED BY <3>1, <3>2, <3>3
  <2>2. IsFiniteSet(Yes(u)) /\ IsFiniteSet(LetIn(u)) /\ IsFiniteSet(NeverEnded(u)')
    BY <2>1, FiniteCounts, FS_Subset, QAAssumption DEF QAAssumption
  <2>3. /\ Cardinality(Yes(u)') <= Cardinality(Yes(u))
        /\ Cardinality(LetIn(u)') <= Cardinality(LetIn(u))
        /\ Cardinality(NeverEnded(u)) <= Cardinality(NeverEnded(u)')
        /\ IsFiniteSet(Yes(u)') /\ IsFiniteSet(LetIn(u)')
    BY <2>1, <2>2, FS_Subset
  <2>4. /\ Cardinality(Yes(u)') \in Nat /\ Cardinality(Yes(u)) \in Nat
        /\ Cardinality(LetIn(u)') \in Nat /\ Cardinality(LetIn(u)) \in Nat
        /\ Cardinality(NeverEnded(u)') \in Nat /\ Cardinality(NeverEnded(u)) \in Nat
    BY <2>2, <2>3, FiniteCounts, FS_CardinalityType
  <2>5. users[u].n \in Int /\ MaxPerUser \in Nat
    BY <1>1, QAAssumption DEF TypeOK, Key, QAAssumption
  <2>6. /\ users[u].n >= Cardinality(Yes(u)) - Cardinality(NeverEnded(u))
        /\ Cardinality(LetIn(u)) <= MaxPerUser + Cardinality(NeverEnded(u))
    BY <1>1, <1>2 DEF UserLedger
  <2>7. users'[u] = users[u]
    BY <1>2
  <2> QED BY <2>3, <2>4, <2>5, <2>6, <2>7
<1>9. GateLedger'
  <2>1. gate'.n = gate.n /\ redis' = redis
    BY <1>2
  <2> QED BY <1>1, <1>2, <1>4, <2>1, GateKept
<1>10. QueueInv'
  <2> SUFFICES ASSUME NEW m \in Nodes
               PROVE  /\ \A i, j \in 1..Len(queue'[m]) : queue'[m][i] = queue'[m][j] => i = j
                      /\ \A x \in Requests :
                           (req'[x].st = "queued" /\ req'[x].node = m) <=>
                           \E i \in 1..Len(queue'[m]) : queue'[m][i] = x
    BY DEF QueueInv
  <2>1. CASE m = n
    <3>1. queue'[m] = <<>> /\ Len(queue'[m]) = 0
      BY <1>1, <1>2, <2>1 DEF TypeOK
    <3>2. \A x \in Requests : ~(req'[x].st = "queued" /\ req'[x].node = m)
      BY <1>4, <2>1
    <3> QED BY <3>1, <3>2
  <2>2. CASE m # n
    <3>1. queue'[m] = queue[m]
      BY <1>1, <1>2, <2>2 DEF TypeOK
    <3>2. \A x \in Requests : (req'[x].st = "queued" /\ req'[x].node = m) <=>
                              (req[x].st = "queued" /\ req[x].node = m)
      BY <1>4, <2>2
    <3> QED BY <1>1, <3>1, <3>2 DEF QueueInv
  <2> QED BY <2>1, <2>2
<1>11. LiteLedger'
  <2> SUFFICES ASSUME ~redis, NEW m \in Nodes, NEW u \in Users
               PROVE  /\ perUser'[m][u] = Cardinality(Queued(m, u)')
                      /\ perUser'[m][u] <= MaxPerUser
    BY <1>2 DEF LiteLedger
  <2>1. CASE m = n
    <3>1. Queued(m, u)' = {}
      BY <1>4, <2>1 DEF Queued
    <3>2. perUser'[m][u] = 0
      BY <1>1, <1>2, <2>1 DEF TypeOK
    <3>3. MaxPerUser \in Nat /\ Cardinality({}) = 0
      BY FS_EmptySet, QAAssumption DEF QAAssumption
    <3> QED BY <3>1, <3>2, <3>3
  <2>2. CASE m # n
    <3>1. Queued(m, u)' = Queued(m, u)
      BY <1>4, <2>2 DEF Queued
    <3>2. perUser'[m][u] = perUser[m][u]
      BY <1>1, <1>2, <2>2 DEF TypeOK
    <3> QED BY <1>1, <3>1, <3>2 DEF LiteLedger
  <2> QED BY <2>1, <2>2
<1>12. EntryOK'
  <2>1. \A m \in Nodes, u \in Users :
          inflight'[m][u] = inflight[m][u] \/ inflight'[m][u] = Nobody
    BY <1>1, <1>2 DEF TypeOK
  <2> QED BY <1>1, <2>1 DEF EntryOK
<1>13. StopOK'
  BY <1>1, <1>2 DEF StopOK, NoStop
<1>14. AllDoomed'
  <2> SUFFICES ASSUME NEW d \in doomed PROVE Doomed(d)'
    BY <1>2 DEF AllDoomed
  <2>1. Doomed(d) /\ d \in Requests
    BY <1>1 DEF AllDoomed, StopOK
  <2>2. \A s \in Requests : req[s].how = "dropped" => req'[s].how = "dropped"
    BY <1>4
  <2>3. CASE req'[d] = req[d]
    BY <1>2, <2>1, <2>2, <2>3 DEF Doomed
  <2>4. CASE req'[d].how = IF req[d].how = "none" THEN "crashed" ELSE req[d].how
    BY <1>2, <2>1, <2>2, <2>4 DEF Doomed
  <2> QED BY <1>4, <2>1, <2>3, <2>4
<1> QED BY <1>6, <1>7, <1>8, <1>9, <1>10, <1>11, <1>12, <1>13, <1>14 DEF IInv

-----------------------------------------------------------------------------
(* The inductive invariant *)

LEMMA InitInv ==
  ASSUME Init
  PROVE  IInv
<1> USE DEF Init
<1>1. TypeOK
  <2>1. New \in RequestStates
    BY DEF New, RequestStates, States, Busy
  <2>2. /\ Nobody \in [who : Requests \cup {None}, ids : Requests \cup {None}]
        /\ Absent \in Key
    BY DEF Nobody, Absent, Key
  <2>3. queue \in [Nodes -> Seq(Requests)] /\ perUser \in [Nodes -> [Users -> Nat]]
    OBVIOUS
  <2> QED BY <2>1, <2>2, <2>3 DEF TypeOK
<1>2. \A x \in Requests : Sane(req[x])
  BY DEF Sane, New, InHandler
<1>3. QueueInv
  BY DEF QueueInv, New
<1>4. \A u : Yes(u) = {} /\ NeverEnded(u) = {} /\ LetIn(u) = {}
  BY DEF Yes, NeverEnded, Never, LetIn, New
<1>5. WithSlot = {} /\ Spent = {} /\ \A n, u : Queued(n, u) = {}
  BY DEF WithSlot, Spent, Queued, New
<1>6. Cardinality({}) = 0 /\ MaxPerUser \in Nat /\ GlobalMax \in Nat
  BY FS_EmptySet, QAAssumption DEF QAAssumption
<1>7. LiteLedger
  <2> SUFFICES ASSUME NEW n \in Nodes, NEW u \in Users
               PROVE  perUser[n][u] = Cardinality(Queued(n, u)) /\ perUser[n][u] <= MaxPerUser
    BY DEF LiteLedger
  <2>1. perUser[n][u] = 0
    OBVIOUS
  <2>2. Cardinality(Queued(n, u)) = 0
    BY <1>5, <1>6
  <2> QED BY <1>6, <2>1, <2>2
<1>8. UserLedger /\ GateLedger
  <2>1. ASSUME NEW u \in Users
        PROVE  /\ users[u].n = 0 /\ Cardinality(Yes(u)) = 0
               /\ Cardinality(NeverEnded(u)) = 0 /\ Cardinality(LetIn(u)) = 0
    BY <1>4, <1>6 DEF Absent
  <2>2. gate.n = 0 /\ Cardinality(WithSlot) = 0 /\ Cardinality(Spent) = 0
    BY <1>5, <1>6 DEF Absent
  <2> QED BY <1>6, <2>1, <2>2 DEF UserLedger, GateLedger
<1>9. StopOK /\ EntryOK /\ AllDoomed
  BY DEF StopOK, NoStop, EntryOK, AllDoomed
<1> QED BY <1>1, <1>2, <1>3, <1>7, <1>8, <1>9 DEF IInv

LEMMA NextInv ==
  ASSUME IInv, [Next]_vars
  PROVE  IInv'
<1>1. CASE UNCHANGED vars
  <2>1. /\ TypeOK /\ \A x \in Requests : Sane(req[x])
        /\ QueueInv /\ LiteLedger /\ UserLedger /\ GateLedger
        /\ StopOK /\ EntryOK /\ AllDoomed
    BY DEF IInv
  <2> USE <1>1 DEF vars
  <2>2. TypeOK'
    BY <2>1 DEF TypeOK
  <2>3. UserLedger' /\ GateLedger'
    BY <2>1, UserKept, GateKept
  <2>4. StopOK' /\ EntryOK' /\ AllDoomed' /\ \A x \in Requests : Sane(req[x])'
    BY <2>1 DEF StopOK, EntryOK, AllDoomed, Doomed, Sane
  <2> QED BY <2>2, <2>3, <2>4, StayStep
<1>2. ASSUME NEW r \in Requests, Serve(r)
      PROVE  IInv'
  <2>1. CASE RejectOver(r) \/ EnqueueRefused(r) \/ Discard(r) \/ GiveUp(r) \/ Uncount(r)
    BY <2>1, EndsKeep
  <2>2. CASE Enqueue(r)
    BY <2>2, EnqueueKeeps
  <2>3. CASE Admit(r)
    BY <2>3, AdmitKeeps
  <2>4. CASE StoreInflight(r)
    BY <2>4, StoreInflightKeeps
  <2>5. CASE CheckStopMarker(r)
    BY <2>5, CheckStopMarkerKeeps
  <2>6. CASE Ask(r)
    BY <2>6, AskKeeps
  <2>7. CASE Answer(r) \/ Abandon(r)
    BY <2>7, AnswerKeeps
  <2>8. CASE Watch(r)
    BY <2>8, WatchKeeps
  <2>9. CASE DeleteInflight(r)
    BY <2>9, DeleteInflightKeeps
  <2>10. CASE ReleaseGate(r)
    BY <2>10, ReleaseGateKeeps
  <2> QED BY <1>2, <2>1, <2>2, <2>3, <2>4, <2>5, <2>6, <2>7, <2>8, <2>9, <2>10 DEF Serve
<1>3. ASSUME NEW r \in Requests,
             AcquireGate(r) \/ GateFull(r) \/ PassGate(r) \/ CancelContext(r)
      PROVE  IInv'
  BY <1>3, AcquireGateKeeps, GateFullKeeps, CancelContextKeeps
<1>4. ASSUME NEW n \in Nodes, Dequeue(n) \/ Close(n) \/ Crash(n)
      PROVE  IInv'
  BY <1>4, DequeueKeeps, CloseKeeps, CrashKeeps
<1>5. ASSUME NEW r \in Requests, NEW n \in Nodes, CheckAndIncrUser(r, n)
      PROVE  IInv'
  BY <1>5, CheckAndIncrUserKeeps
<1>6. ASSUME NEW n \in Nodes, NEW u \in Users, StopQueued(n, u)
      PROVE  IInv'
  BY <1>6, StopQueuedKeeps
<1>7. CASE StopGoesOn
  BY <1>7, StopInflightKeeps, StopLookupKeeps, StopMarkKeeps DEF StopGoesOn
<1>8. ASSUME NEW u \in Users, UserExpires(u) \/ MarkerExpires(u)
      PROVE  IInv'
  BY <1>8, UserExpiresKeeps, MarkerExpiresKeeps
<1>9. CASE GateExpires
  BY <1>9, GateExpiresKeeps
<1> QED BY <1>1, <1>2, <1>3, <1>4, <1>5, <1>6, <1>7, <1>8, <1>9 DEF Next

-----------------------------------------------------------------------------
(* The theorems *)

\* The inductive invariant, of which the next theorems are consequences.
THEOREM Invariant == Spec => []IInv
<1>1. Init => IInv
  BY InitInv
<1>2. IInv /\ [Next]_vars => IInv'
  BY NextInv
<1> QED BY <1>1, <1>2, PTL DEF Spec

\* Every variable has its type; above all no counter of an instance's own
\* ever goes below zero.
THEOREM TypeCorrect == Spec => []TypeOK
<1>1. IInv => TypeOK
  BY DEF IInv
<1> QED BY <1>1, Invariant, PTL

\* While no key is lost, no DECR fails and no instance dies, every way a
\* request can end gives back exactly what it was counted for.
THEOREM NothingLeaks == Spec => []CountersExact
<1>1. IInv => CountersExact
  BY DEF IInv, CountersExact, UserLedger, GateLedger, LiteLedger, NoLoss
<1> QED BY <1>1, Invariant, PTL

\* A handler that runs has a slot or is one of those let in without.
LEMMA GateIsBound ==
  ASSUME IInv
  PROVE  GateHolds
<1> SUFFICES ASSUME redis, "ttl" \notin faults
             PROVE  Cardinality(Handling) <= GlobalMax + Cardinality(Strays)
  BY DEF GateHolds
<1> DEFINE Passed == {r \in Requests : req[r].slot = "stray"}
<1>1. \A r \in Requests : Sane(req[r])
  BY DEF IInv
<1>2. Handling \subseteq WithSlot \cup Passed
  BY <1>1 DEF Handling, Sane, WithSlot
<1>3. Strays = Passed \cup Spent /\ Passed \cap Spent = {}
  BY DEF Strays, Spent
<1>4. /\ IsFiniteSet(WithSlot) /\ IsFiniteSet(Spent) /\ IsFiniteSet(Passed)
      /\ WithSlot \cap Passed = {}
  <2>1. IsFiniteSet(Requests) /\ Passed \subseteq Requests
    BY QAAssumption DEF QAAssumption
  <2> QED BY <2>1, FiniteCounts, FS_Subset DEF WithSlot
<1> HIDE DEF Passed
<1>5. /\ IsFiniteSet(WithSlot \cup Passed)
      /\ Cardinality(WithSlot \cup Passed) = Cardinality(WithSlot) + Cardinality(Passed)
  <2>1. /\ IsFiniteSet(WithSlot \cup Passed)
        /\ Cardinality(WithSlot \cup Passed) =
             Cardinality(WithSlot) + Cardinality(Passed) - Cardinality(WithSlot \cap Passed)
    BY <1>4, FS_Union
  <2>2. /\ Cardinality(WithSlot) \in Nat /\ Cardinality(Passed) \in Nat
        /\ Cardinality(WithSlot \cap Passed) = 0
    BY <1>4, FS_EmptySet, FS_CardinalityType
  <2> QED BY <2>1, <2>2
<1>6. Cardinality(Strays) = Cardinality(Passed) + Cardinality(Spent)
  <2>1. Cardinality(Passed \cup Spent) =
          Cardinality(Passed) + Cardinality(Spent) - Cardinality(Passed \cap Spent)
    BY <1>4, FS_Union
  <2>2. /\ Cardinality(Spent) \in Nat /\ Cardinality(Passed) \in Nat
        /\ Cardinality(Passed \cap Spent) = 0
    BY <1>3, <1>4, FS_EmptySet, FS_CardinalityType
  <2> QED BY <1>3, <2>1, <2>2
<1>7. /\ Cardinality(Handling) <= Cardinality(WithSlot) + Cardinality(Passed)
      /\ Cardinality(Handling) \in Nat
  BY <1>2, <1>5, FS_Subset, FS_CardinalityType
<1>8. Cardinality(WithSlot) - Cardinality(Spent) <= GlobalMax
  <2>1. gate.n >= Cardinality(WithSlot) - Cardinality(Spent) /\ gate.n <= GlobalMax
    BY DEF IInv, GateLedger
  <2>2. gate.n \in Int /\ GlobalMax \in Nat
    BY QAAssumption DEF IInv, TypeOK, Key, QAAssumption
  <2> QED BY <2>1, <2>2, <1>4, FS_CardinalityType
<1>9. GlobalMax \in Nat
  BY QAAssumption DEF QAAssumption
<1> QED BY <1>4, <1>6, <1>7, <1>8, <1>9, FS_CardinalityType

\* An unfinished request is counted and was let in, or was let in uncounted.
LEMMA UserIsBound ==
  ASSUME IInv
  PROVE  UserLimit
<1> SUFFICES ASSUME "ttl" \notin faults
             PROVE  /\ redis => \A u \in Users :
                         Cardinality(Unfinished(u)) <= MaxPerUser + Cardinality(Never(u))
                    /\ ~redis => \A n \in Nodes, u \in Users :
                         Cardinality(Queued(n, u)) <= MaxPerUser
  BY DEF UserLimit
<1>1. ASSUME ~redis, NEW n \in Nodes, NEW u \in Users
      PROVE  Cardinality(Queued(n, u)) <= MaxPerUser
  BY <1>1 DEF IInv, LiteLedger
<1>2. ASSUME redis, NEW u \in Users
      PROVE  Cardinality(Unfinished(u)) <= MaxPerUser + Cardinality(Never(u))
  <2> DEFINE Rest == Never(u) \ NeverEnded(u)
  <2>1. \A r \in Requests : Sane(req[r])
    BY DEF IInv
  <2>2. Unfinished(u) \subseteq LetIn(u) \cup Rest
    BY <1>2, <2>1 DEF Unfinished, Sane, LetIn, Yes, Never, NeverEnded
  <2>3. IsFiniteSet(Never(u)) /\ NeverEnded(u) \subseteq Never(u)
    <3>1. IsFiniteSet(Requests) /\ Never(u) \subseteq Requests
      BY QAAssumption DEF QAAssumption, Never
    <3> QED BY <3>1, FS_Subset DEF NeverEnded
  <2>4. /\ IsFiniteSet(Rest) /\ IsFiniteSet(LetIn(u)) /\ IsFiniteSet(NeverEnded(u))
        /\ Cardinality(Rest) = Cardinality(Never(u)) - Cardinality(NeverEnded(u))
    <3>1. /\ IsFiniteSet(Rest)
          /\ Cardinality(Rest) = Cardinality(Never(u)) - Cardinality(Never(u) \cap NeverEnded(u))
      BY <2>3, FS_Difference
    <3>2. Never(u) \cap NeverEnded(u) = NeverEnded(u)
      BY <2>3
    <3> QED BY <3>1, <3>2, FiniteCounts
  <2> HIDE DEF Rest
  <2>5. /\ IsFiniteSet(LetIn(u) \cup Rest)
        /\ Cardinality(LetIn(u) \cup Rest) =
             Cardinality(LetIn(u)) + Cardinality(Rest) - Cardinality(LetIn(u) \cap Rest)
    BY <2>4, FS_Union
  <2>6. Cardinality(Unfinished(u)) <= Cardinality(LetIn(u) \cup Rest)
        /\ IsFiniteSet(Unfinished(u)) /\ IsFiniteSet(LetIn(u) \cap Rest)
    BY <2>2, <2>4, <2>5, FS_Subset
  <2>7. Cardinality(LetIn(u)) <= MaxPerUser + Cardinality(NeverEnded(u))
    BY <1>2 DEF IInv, UserLedger
  <2>8. /\ MaxPerUser \in Nat /\ Cardinality(LetIn(u)) \in Nat /\ Cardinality(Rest) \in Nat
        /\ Cardinality(Never(u)) \in Nat /\ Cardinality(NeverEnded(u)) \in Nat
        /\ Cardinality(Unfinished(u)) \in Nat /\ Cardinality(LetIn(u) \cap Rest) \in Nat
        /\ Cardinality(LetIn(u) \cup Rest) \in Nat
    BY <2>3, <2>4, <2>5, <2>6, FS_CardinalityType, QAAssumption DEF QAAssumption
  <2> QED BY <2>4, <2>5, <2>6, <2>7, <2>8
<1> QED BY <1>1, <1>2

\* The limits of the gate and of a user hold over all instances, whatever
\* crashes and whatever DECR is lost, as long as no key expires too early.
THEOREM LimitsAreKept == Spec => []LimitsHold
<1>1. IInv => LimitsHold
  BY GateIsBound, UserIsBound DEF LimitsHold
<1> QED BY <1>1, Invariant, PTL

\* A request that /stop has reached before its marker check is not answered,
\* unless the marker was lost or another request of the user has met it.
THEOREM StopIsObeyed == Spec => []StopReaches
<1>1. IInv => StopReaches
  BY DEF IInv, AllDoomed, Doomed, StopReaches, CaughtInstead
<1> QED BY <1>1, Invariant, PTL
=============================================================================
