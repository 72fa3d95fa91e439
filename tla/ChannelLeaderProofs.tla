------------------------ MODULE ChannelLeaderProofs ------------------------
(***************************************************************************)
(* The theorems about ChannelLeader, for any number of instances, starts,  *)
(* toggles and faults.                                                     *)
(*                                                                         *)
(* NoLeak is not inductive: a start may replace what its instance has      *)
(* registered, so Registered says what a registered start looks like.      *)
(* Exclusive needs the link between connections and the lock: whoever is   *)
(* electing itself, or renews and has not been told to stop, holds the     *)
(* lock of its instance, and there is one of those at the most (OneHolder).*)
(* Of long polls, one that drains keeps the lock from everybody (Draining).*)
(***************************************************************************)
EXTENDS ChannelLeader, FiniteSetTheorems, TLAPS

\* What the code relies on: Redis answers, and no start outlives its lock.
Sound(fl) == fl \cap {"redis", "slow"} = {}

\* A registered start belongs to its instance and has not been stopped.
Registered(st, ch) ==
  \A n \in Nodes : ch[n] # None =>
    /\ st[ch[n]].node = n
    /\ st[ch[n]].pc \in Renewing
    /\ st[ch[n]].live

\* Only a start that renews can be told to stop, and each has an instance.
Begun(s) ==
  /\ s.pc \notin Renewing \cup {"over"} => s.live
  /\ s.pc \notin {"none", "over"} => s.node \in Nodes
  /\ s.pc = "none" => s = Unused

Started(st) == \A a \in Starts : Begun(st[a])

\* An open connection is about to be registered, or is.
OpenKnown(st, ch, op) ==
  \A a \in op :
    \/ st[a].pc = "register"
    \/ st[a].pc \in Renewing /\ ch[st[a].node] = a

\* A start that counts on the lock.
Holder(s) ==
  \/ s.pc \in Electing
  \/ s.pc \in Renewing /\ s.live

\* The holder of the lock is the only start that counts on it.
OneHolder(st, lk) ==
  /\ \A a \in Starts : Holder(st[a]) => lk = st[a].node
  /\ \A a, b \in Starts : Holder(st[a]) /\ Holder(st[b]) => a = b

\* While a long poll drains its instance has the lock, and nobody counts on it.
Draining(st, cl, lk) ==
  \A n \in Nodes : cl[n] # {} =>
    /\ lk = n
    /\ \A a \in Starts : ~Holder(st[a])
    /\ \A a, b \in cl[n] : a = b

\* The invariant, of given values: what is stopped first and then changed is
\* dealt with one change after the other.
Good(st, ch, op, cl, lk, fl) ==
  /\ st \in [Starts -> StartStates]
  /\ ch \in [Nodes -> Starts \cup {None}]
  /\ op \subseteq Starts /\ cl \in [Nodes -> SUBSET Starts] /\ lk \in Nodes \cup {None}
  /\ Registered(st, ch) /\ Started(st) /\ OpenKnown(st, ch, op)
  /\ Sound(fl) => OneHolder(st, lk) /\ (longpoll => Draining(st, cl, lk))

IInv == TypeOK /\ Good(start, chan, open, closing, lock, faults)

-----------------------------------------------------------------------------
(* What may be done to one start *)

\* Stopping a channel leaves a state in which nothing is registered.
LEMMA StoppedGood ==
  ASSUME Good(start, chan, open, closing, lock, faults), NEW n \in Nodes
  PROVE  Good(Stopped(n).start, [chan EXCEPT ![n] = None],
              Stopped(n).open, Stopped(n).closing, Stopped(n).lock, faults)
<1> DEFINE st == Stopped(n).start
           ch == [chan EXCEPT ![n] = None]
<1> USE LeaderAssumption DEF Good
<1>1. /\ st \in [Starts -> StartStates]
      /\ \A b \in Starts : /\ st[b].pc = start[b].pc /\ st[b].node = start[b].node
                           /\ st[b].live = (start[b].live /\ chan[n] # b)
                           /\ chan[n] # b => st[b] = start[b]
  BY ZenonT(60) DEF Stopped, StartStates, Starts
<1>2. ch \in [Nodes -> Starts \cup {None}] /\ ch[n] = None
      /\ \A m \in Nodes : m # n => ch[m] = chan[m]
  OBVIOUS
<1>3. /\ Stopped(n).open = open \ {chan[n]} /\ Stopped(n).lock \in Nodes \cup {None}
      /\ Stopped(n).closing \in [Nodes -> SUBSET Starts]
      /\ Stopped(n).closing[n] = closing[n] \cup (open \cap {chan[n]})
      /\ \A m \in Nodes : m # n => Stopped(n).closing[m] = closing[m]
  <2>1. Stopped(n).open = open \ {chan[n]} /\ Stopped(n).lock \in Nodes \cup {None}
    BY DEF Stopped, Release
  <2>2. Stopped(n).closing = [closing EXCEPT ![n] = @ \cup (open \cap {chan[n]})]
    BY DEF Stopped
  <2> QED
    BY <2>1, <2>2
<1> HIDE DEF st, ch
<1>4. Registered(st, ch)
  BY <1>1, <1>2 DEF Registered
<1>5. Started(st)
  <2> SUFFICES ASSUME NEW b \in Starts PROVE Begun(st[b])
    BY DEF Started
  <2>1. CASE chan[n] = b
    <3>1. start[b].pc \in Renewing
      BY <2>1 DEF Registered, Starts
    <3> QED
      BY <1>1, <3>1 DEF Started, Begun, Renewing
  <2>2. CASE chan[n] # b
    BY <1>1, <2>2 DEF Started
  <2> QED
    BY <2>1, <2>2
<1>6. OpenKnown(st, ch, Stopped(n).open)
  BY <1>1, <1>2, <1>3 DEF OpenKnown, Registered, Started, Begun, Renewing
<1>7. Sound(faults) => /\ OneHolder(st, Stopped(n).lock)
                       /\ longpoll => Draining(st, Stopped(n).closing, Stopped(n).lock)
  <2> SUFFICES ASSUME Sound(faults)
               PROVE  /\ OneHolder(st, Stopped(n).lock)
                      /\ longpoll => Draining(st, Stopped(n).closing, Stopped(n).lock)
    OBVIOUS
  <2>1. \A b \in Starts : Holder(st[b]) => Holder(start[b])
    BY <1>1 DEF Holder
  <2>2. CASE chan[n] = None
    <3>1. OneHolder(st, lock) /\ Stopped(n).lock = lock
      BY <2>1, <2>2, <1>1 DEF Stopped, OneHolder
    <3>2. open \cap {chan[n]} = {}
      BY <2>2 DEF Starts
    <3>3. \A m \in Nodes : Stopped(n).closing[m] = closing[m]
      BY <1>3, <3>2
    <3> QED
      BY <2>1, <3>1, <3>3 DEF Draining
  <2>3. CASE chan[n] # None
    <3>1. chan[n] \in Starts /\ Holder(start[chan[n]]) /\ lock = n
      BY <2>3 DEF Registered, Holder, OneHolder
    <3>2. \A b \in Starts : ~Holder(st[b])
      BY <2>1, <3>1, <1>1, <2>3
      DEF OneHolder, Holder, Registered, Renewing, Electing
    <3>3. ASSUME longpoll PROVE Draining(st, Stopped(n).closing, Stopped(n).lock)
      <4>1. Stopped(n).lock = n /\ \A m \in Nodes : closing[m] = {}
        BY <3>1, <3>3 DEF Draining, Stopped
      <4>2. \A m \in Nodes : m # n => Stopped(n).closing[m] = {}
        BY <1>3, <4>1
      <4>3. \A a, b \in Stopped(n).closing[n] : a = b
        BY <1>3, <4>1
      <4> QED
        BY <3>2, <4>1, <4>2, <4>3 DEF Draining
    <3> QED
      BY <3>2, <3>3 DEF OneHolder
  <2> QED
    BY <2>2, <2>3
<1> QED
  BY <1>1, <1>2, <1>3, <1>4, <1>5, <1>6, <1>7 DEF st, ch

\* One start that is not registered changes its record; connections and the
\* lock may change with it.
LEMMA LooseChangeGood ==
  ASSUME NEW st, NEW ch, NEW op, NEW cl, NEW lk, NEW fl, Good(st, ch, op, cl, lk, fl),
         NEW a \in Starts, NEW r \in StartStates,
         NEW op2 \in SUBSET (op \cup {a}), NEW lk2 \in Nodes \cup {None}, NEW fl2,
         \A n \in Nodes : ch[n] # a,
         Begun(r),
         a \in op2 => r.pc = "register",
         Sound(fl2) => Sound(fl) /\ \/ Holder(r) /\ lk2 = r.node
                                       /\ (lk = None \/ Holder(st[a]))
                                       /\ \A b \in Starts \ {a} : ~Holder(st[b])
                                    \/ ~Holder(r) /\ lk2 = lk
                                    \/ ~Holder(r) /\ Holder(st[a])
  PROVE  Good([st EXCEPT ![a] = r], ch, op2, cl, lk2, fl2)
<1> DEFINE new == [st EXCEPT ![a] = r]
<1> USE DEF Good
<1>1. /\ new \in [Starts -> StartStates] /\ new[a] = r
      /\ \A b \in Starts : b # a => new[b] = st[b]
  OBVIOUS
<1> HIDE DEF new
<1>2. Registered(new, ch)
  BY <1>1, LeaderAssumption DEF Registered
<1>3. Started(new)
  BY <1>1 DEF Started
<1>4. OpenKnown(new, ch, op2) /\ op2 \subseteq Starts
  BY <1>1 DEF OpenKnown
<1>5. ASSUME Sound(fl2) PROVE OneHolder(new, lk2)
  <2>1. OneHolder(st, lk)
    BY <1>5
  <2>2. CASE Holder(r) /\ lk2 = r.node /\ \A b \in Starts \ {a} : ~Holder(st[b])
    BY <1>1, <2>2 DEF OneHolder
  <2>3. CASE ~Holder(r) /\ lk2 = lk
    BY <1>1, <2>1, <2>3 DEF OneHolder
  <2>4. CASE ~Holder(r) /\ Holder(st[a])
    BY <1>1, <2>1, <2>4 DEF OneHolder
  <2> QED
    BY <1>5, <2>2, <2>3, <2>4
<1>6. ASSUME Sound(fl2), longpoll PROVE Draining(new, cl, lk2)
  <2>1. Sound(fl) /\ Draining(st, cl, lk)
    BY <1>6
  <2>2. CASE Holder(st[a]) \/ lk = None
    BY <2>1, <2>2, LeaderAssumption DEF Draining
  <2>3. CASE ~Holder(r) /\ lk2 = lk
    BY <1>1, <2>1, <2>3 DEF Draining
  <2> QED
    BY <1>6, <2>2, <2>3
<1> QED
  BY <1>1, <1>2, <1>3, <1>4, <1>5, <1>6 DEF new

\* The renewal loop goes from one of its steps to the other.
LEMMA RenewingGood ==
  ASSUME Good(start, chan, open, closing, lock, faults), NEW fl2, Sound(fl2) => Sound(faults),
         NEW a \in Starts, start[a].pc \in Renewing, NEW pc \in Renewing
  PROVE  Good([start EXCEPT ![a].pc = pc], chan, open, closing, lock, fl2)
<1> DEFINE new == [start EXCEPT ![a].pc = pc]
<1> USE DEF Good
<1>1. /\ new \in [Starts -> StartStates]
      /\ new[a].pc = pc /\ new[a].node = start[a].node /\ new[a].live = start[a].live
      /\ \A b \in Starts : b # a => new[b] = start[b]
  BY DEF StartStates
<1> HIDE DEF new
<1>2. Registered(new, chan)
  BY <1>1 DEF Registered
<1>3. Started(new)
  BY <1>1 DEF Started, Begun, Renewing
<1>4. OpenKnown(new, chan, open)
  BY <1>1 DEF OpenKnown, Renewing
<1>5. Sound(fl2) => OneHolder(new, lock) /\ (longpoll => Draining(new, closing, lock))
  <2>1. \A b \in Starts : Holder(new[b]) <=> Holder(start[b])
    BY <1>1 DEF Holder, Renewing, Electing
  <2> QED
    BY <1>1, <2>1 DEF OneHolder, Draining
<1> QED
  BY <1>1, <1>2, <1>3, <1>4, <1>5 DEF new

\* A start is registered where nothing is.
LEMMA RegisterGood ==
  ASSUME NEW st, NEW ch, NEW op, NEW cl, NEW lk, NEW fl, Good(st, ch, op, cl, lk, fl),
         NEW a \in Starts, st[a].pc = "register",
         ch[st[a].node] = None
  PROVE  Good([st EXCEPT ![a].pc = "renew"], [ch EXCEPT ![st[a].node] = a], op, cl, lk, fl)
<1> DEFINE new == [st EXCEPT ![a].pc = "renew"]
           n   == st[a].node
           reg == [ch EXCEPT ![n] = a]
<1> USE DEF Good
<1>1. /\ new \in [Starts -> StartStates]
      /\ new[a].pc = "renew" /\ new[a].node = n /\ new[a].live = st[a].live
      /\ \A b \in Starts : b # a => new[b] = st[b]
  BY DEF StartStates, Renewing
<1>2. n \in Nodes /\ st[a].live
  BY DEF Started, Begun, Renewing
<1>3. /\ reg \in [Nodes -> Starts \cup {None}] /\ reg[n] = a
      /\ \A m \in Nodes : m # n => reg[m] = ch[m]
  BY <1>2
<1>4. \A m \in Nodes : ch[m] # a
  BY LeaderAssumption DEF Registered, Renewing, Starts
<1> HIDE DEF new, reg
<1>5. Registered(new, reg)
  <2> SUFFICES ASSUME NEW m \in Nodes, reg[m] # None
               PROVE  /\ new[reg[m]].node = m
                      /\ new[reg[m]].pc \in Renewing /\ new[reg[m]].live
    BY DEF Registered
  <2>1. CASE m = n
    BY <1>1, <1>2, <1>3, <2>1 DEF Renewing
  <2>2. CASE m # n
    <3>1. ch[m] # None /\ reg[m] = ch[m] /\ ch[m] # a
      BY <1>3, <1>4, <2>2
    <3>2. new[reg[m]] = st[ch[m]]
      BY <1>1, <3>1
    <3> QED
      BY <3>1, <3>2 DEF Registered
  <2> QED
    BY <2>1, <2>2
<1>6. Started(new)
  BY <1>1, <1>2 DEF Started, Begun, Renewing
<1>7. OpenKnown(new, reg, op)
  <2> SUFFICES ASSUME NEW b \in op
               PROVE  \/ new[b].pc = "register"
                      \/ new[b].pc \in Renewing /\ reg[new[b].node] = b
    BY DEF OpenKnown
  <2>1. CASE b = a
    BY <1>1, <1>3, <2>1 DEF Renewing
  <2>2. CASE b # a /\ st[b].pc \in Renewing
    <3>1. ch[st[b].node] = b /\ st[b].node \in Nodes
      BY <2>2 DEF OpenKnown, Started, Begun, Renewing
    <3>2. st[b].node # n
      BY <3>1, LeaderAssumption DEF Starts
    <3> QED
      BY <1>1, <1>3, <2>2, <3>1, <3>2
  <2>3. CASE b # a /\ st[b].pc \notin Renewing
    BY <1>1, <2>3 DEF OpenKnown
  <2> QED
    BY <2>1, <2>2, <2>3
<1>8. Sound(fl) => OneHolder(new, lk) /\ (longpoll => Draining(new, cl, lk))
  <2>1. \A b \in Starts : Holder(new[b]) <=> Holder(st[b])
    BY <1>1, <1>2 DEF Holder, Renewing, Electing
  <2> QED
    BY <1>1, <2>1 DEF OneHolder, Draining
<1> QED
  BY <1>1, <1>3, <1>5, <1>6, <1>7, <1>8 DEF new, reg

\* Whoever is connected and has not been told to close counts on the lock.
LEMMA OpenHolds ==
  ASSUME Good(start, chan, open, closing, lock, faults)
  PROVE  \A a \in open : Holder(start[a])
BY LeaderAssumption
DEF Good, OpenKnown, Registered, Started, Begun, Holder, Electing, Renewing, Starts

\* An instance stops: nothing of it is left, and the lock at most released.
LEMMA EndsGood ==
  ASSUME Good(start, chan, open, closing, lock, faults), NEW n \in Nodes, NEW cl2, NEW lk2,
         NEW fl2, Sound(fl2) => Sound(faults),
         \/ cl2 = [closing EXCEPT ![n] = {}] /\ lk2 = lock
         \/ cl2 = [closing EXCEPT ![n] = @ \cup Ours(n)] /\ lk2 = Stopped(n).lock
  PROVE  Good(Ends(n), [chan EXCEPT ![n] = None], open \ Ours(n), cl2, lk2, fl2)
<1> DEFINE ch == [chan EXCEPT ![n] = None]
           op == open \ Ours(n)
<1> USE DEF Good
<1>1. /\ Ends(n) \in [Starts -> StartStates]
      /\ \A b \in Starts : start[b].node = n => Ends(n)[b] = Over
      /\ \A b \in Starts : start[b].node # n => Ends(n)[b] = start[b]
  BY DEF Ends, Over, StartStates
<1>2. /\ ch \in [Nodes -> Starts \cup {None}] /\ ch[n] = None
      /\ \A m \in Nodes : m # n => ch[m] = chan[m]
  OBVIOUS
<1>3. lk2 \in Nodes \cup {None} /\ (lk2 = lock \/ (lk2 = None /\ lock = n))
  <2>1. Stopped(n).lock = IF chan[n] = None \/ longpoll THEN lock ELSE Release(n)
    BY DEF Stopped
  <2>2. Stopped(n).lock = lock \/ (Stopped(n).lock = None /\ lock = n)
    BY <2>1 DEF Release
  <2> QED
    BY <2>2
<1>4. Registered(Ends(n), ch)
  BY <1>1, <1>2 DEF Registered
<1>5. Started(Ends(n))
  BY <1>1 DEF Started, Begun, Over, Renewing
<1>6. OpenKnown(Ends(n), ch, op)
  BY <1>1, <1>2 DEF OpenKnown, Started, Begun, Renewing, Ours
<1>7. Ours(n) \subseteq Starts /\ cl2 \in [Nodes -> SUBSET Starts]
      /\ (cl2[n] = {} \/ cl2[n] = closing[n] \cup Ours(n))
      /\ \A m \in Nodes : m # n => cl2[m] = closing[m]
  BY DEF Ours
<1>8. \A b \in Starts : Holder(Ends(n)[b]) => start[b].node # n /\ Holder(start[b])
  BY <1>1 DEF Holder, Over, Electing, Renewing
<1>9. Sound(fl2) => OneHolder(Ends(n), lk2)
  BY <1>1, <1>3, <1>8 DEF OneHolder
<1>10. ASSUME Sound(fl2), longpoll PROVE Draining(Ends(n), cl2, lk2)
  <2>1. lk2 = lock /\ Draining(start, closing, lock) /\ OneHolder(start, lock)
    BY <1>10 DEF Stopped
  <2>2. CASE Ours(n) = {} \/ cl2[n] = {}
    BY <1>7, <1>8, <2>1, <2>2 DEF Draining
  <2>3. CASE Ours(n) # {}
    <3>1. PICK a \in Ours(n) : TRUE
      BY <2>3
    <3>2. a \in Starts /\ Holder(start[a]) /\ start[a].node = n
      BY <3>1, OpenHolds DEF Ours
    <3>3. lock = n /\ (\A m \in Nodes : closing[m] = {})
      BY <2>1, <3>2 DEF OneHolder, Draining
    <3>4. \A b \in Starts : ~Holder(Ends(n)[b])
      BY <1>8, <2>1, <3>2 DEF OneHolder
    <3>5. \A b \in Ours(n) : b = a
      BY <2>1, <3>2, OpenHolds DEF OneHolder, Ours
    <3> QED
      BY <1>7, <2>1, <3>3, <3>4, <3>5 DEF Draining
  <2> QED
    BY <2>2, <2>3
<1> QED
  BY <1>1, <1>2, <1>3, <1>4, <1>5, <1>6, <1>7, <1>9, <1>10 DEF Ours

-----------------------------------------------------------------------------
(* The loops *)

LEMMA SoundShrinks == faults \subseteq faults' => (Sound(faults') => Sound(faults))
BY DEF Sound

LEMMA FaultGrows ==
  ASSUME NEW f \in {"redis", "db", "factory", "slow", "crash"}, Fault(f)
  PROVE  /\ faults \subseteq faults' /\ f \in faults'
         /\ Sound(faults') => Sound(faults)
         /\ f \in {"redis", "slow"} => ~Sound(faults')
BY DEF Fault, Sound

\* A locked or retrying start goes on: its record and where it is not.
LEMMA GotoIs ==
  ASSUME Good(start, chan, open, closing, lock, faults), NEW a \in Starts,
         NEW pc \in {"elect", "retry"} \cup Electing,
         start[a].pc \notin {"none", "over"} \cup Renewing
  PROVE  LET r == [start[a] EXCEPT !.pc = pc]
         IN  /\ [start EXCEPT ![a].pc = pc] = [start EXCEPT ![a] = r]
             /\ r \in StartStates /\ r.pc = pc /\ r.node = start[a].node /\ Begun(r)
             /\ start[a].node \in Nodes
             /\ \A n \in Nodes : chan[n] # a
<1> USE DEF Good
<1>1. Begun(start[a]) /\ start[a] \in StartStates
  BY DEF Started
<1>2. start[a].node \in Nodes /\ start[a].live
  BY <1>1 DEF Begun
<1>3. \A n \in Nodes : chan[n] # a
  BY LeaderAssumption DEF Registered, Starts
<1> DEFINE r == [start[a] EXCEPT !.pc = pc]
<1>4. r \in StartStates /\ r.pc = pc /\ r.node = start[a].node /\ r.live = start[a].live
  BY <1>1 DEF StartStates
<1>5. Begun(r)
  BY <1>2, <1>4 DEF Begun, Electing
<1> QED
  BY <1>2, <1>3, <1>4, <1>5
LEMMA OverIs == Over \in StartStates /\ Begun(Over) /\ ~Holder(Over)
BY DEF Over, StartStates, Begun, Holder, Electing, Renewing

\* Unchanged faults and more faults alike: what is relied on only shrinks.
LEMMA SameFaults == faults' = faults => (Sound(faults') => Sound(faults))
BY DEF Sound

LEMMA FreeMeansNoHolder ==
  ASSUME Good(start, chan, open, closing, lock, faults), lock = None, Sound(faults)
  PROVE  \A b \in Starts : ~Holder(start[b])
BY LeaderAssumption DEF Good, OneHolder, Holder, Started, Begun, Electing, Renewing

\* An instance that takes itself for the leader.
LEMMA GrantedGood ==
  ASSUME Good(start, chan, open, closing, lock, faults), NEW a \in Starts,
         start[a].pc \in {"elect", "retry"}, NEW pc \in Electing, Goto(a, pc),
         \/ lock = None /\ lock' = start[a].node /\ UNCHANGED faults
         \/ Fault("redis") /\ UNCHANGED lock,
         UNCHANGED <<chan, open, closing>>
  PROVE  Good(start', chan', open', closing', lock', faults')
<1> DEFINE r == [start[a] EXCEPT !.pc = pc]
<1>1. /\ start' = [start EXCEPT ![a] = r]
      /\ r \in StartStates /\ r.pc = pc /\ r.node = start[a].node /\ Begun(r)
      /\ start[a].node \in Nodes
      /\ \A n \in Nodes : chan[n] # a
  BY GotoIs, ZenonT(60) DEF Goto, Electing, Renewing
<1>2. a \notin open
  BY DEF Good, OpenKnown, Renewing
<1>3. Holder(r)
  BY <1>1 DEF Holder
<1>4. lock' \in Nodes \cup {None}
  BY <1>1 DEF Good
<1>5. Sound(faults') => /\ Sound(faults) /\ lock' = r.node /\ lock = None
                        /\ \A b \in Starts \ {a} : ~Holder(start[b])
  BY <1>1, FreeMeansNoHolder, SameFaults, FaultGrows
<1> HIDE DEF r
<1>6. Good([start EXCEPT ![a] = r], chan, open, closing, lock', faults')
  BY <1>1, <1>2, <1>3, <1>4, <1>5, LooseChangeGood
<1> QED
  BY <1>1, <1>6

\* A start that does not hold the lock goes on without it, or ends.
LEMMA UngrantedGood ==
  ASSUME Good(start, chan, open, closing, lock, faults), NEW a \in Starts,
         start[a].pc \in {"elect", "retry"},
         Goto(a, "retry") \/ Quit(a),
         UNCHANGED <<chan, open, closing, lock, faults>>
  PROVE  Good(start', chan', open', closing', lock', faults')
<1>1. lock \in Nodes \cup {None} /\ a \notin open /\ \A n \in Nodes : chan[n] # a
  BY LeaderAssumption DEF Good, OpenKnown, Registered, Renewing, Starts
<1>2. CASE Goto(a, "retry")
  <2> DEFINE r == [start[a] EXCEPT !.pc = "retry"]
  <2>1. start' = [start EXCEPT ![a] = r] /\ r \in StartStates /\ r.pc = "retry" /\ Begun(r)
    BY <1>2, GotoIs DEF Goto, Renewing
  <2>2. ~Holder(r)
    BY <2>1 DEF Holder, Electing, Renewing
  <2> HIDE DEF r
  <2>3. Good([start EXCEPT ![a] = r], chan, open, closing, lock, faults)
    BY <1>1, <2>1, <2>2, LooseChangeGood
  <2> QED
    BY <2>1, <2>3
<1>3. CASE Quit(a)
  <2>1. Good([start EXCEPT ![a] = Over], chan, open, closing, lock, faults)
    BY <1>1, OverIs, LooseChangeGood
  <2> QED
    BY <1>3, <2>1 DEF Quit
<1> QED
  BY <1>2, <1>3

LEMMA ElectGood ==
  ASSUME Good(start, chan, open, closing, lock, faults), NEW a \in Starts, Elect(a)
  PROVE  Good(start', chan', open', closing', lock', faults')
BY GrantedGood, UngrantedGood DEF Elect, Acquire, Electing

LEMMA RetryGood ==
  ASSUME Good(start, chan, open, closing, lock, faults), NEW a \in Starts, Retry(a)
  PROVE  Good(start', chan', open', closing', lock', faults')
<1>1. CASE chan[start[a].node] # None
  BY <1>1, UngrantedGood DEF Retry
<1>2. CASE chan[start[a].node] = None
  BY <1>2, GrantedGood DEF Retry, Acquire, Electing
<1> QED
  BY <1>1, <1>2
\* A start that holds the lock goes on; or gives it back, and retries or ends.
LEMMA HolderGoesOn ==
  ASSUME Good(start, chan, open, closing, lock, faults), NEW a \in Starts,
         start[a].pc \in Electing, NEW pc \in Electing, Goto(a, pc),
         open' = open \/ (open' = open \cup {a} /\ pc = "register"),
         start[a].pc = "register" => pc = "register",
         UNCHANGED <<chan, closing, lock, faults>>
  PROVE  Good(start', chan', open', closing', lock', faults')
<1> DEFINE r == [start[a] EXCEPT !.pc = pc]
<1>1. /\ start' = [start EXCEPT ![a] = r]
      /\ r \in StartStates /\ r.pc = pc /\ r.node = start[a].node /\ Begun(r)
      /\ start[a].node \in Nodes
      /\ \A n \in Nodes : chan[n] # a
  BY GotoIs, ZenonT(60) DEF Goto, Electing, Renewing
<1>2. a \in open' => r.pc = "register"
  BY <1>1 DEF Good, OpenKnown, Renewing, Electing
<1>3. Holder(r) /\ Holder(start[a])
  BY <1>1 DEF Holder
<1>4. lock \in Nodes \cup {None}
  BY DEF Good
<1>5. Sound(faults) => lock = r.node /\ \A b \in Starts \ {a} : ~Holder(start[b])
  BY <1>1, <1>3 DEF Good, OneHolder
<1> HIDE DEF r
<1>6. open' \in SUBSET (open \cup {a})
  OBVIOUS
<1>7. Good([start EXCEPT ![a] = r], chan, open', closing, lock, faults)
  BY <1>1, <1>2, <1>3, <1>4, <1>5, <1>6, LooseChangeGood
<1> QED
  BY <1>1, <1>7

LEMMA HolderGivesUp ==
  ASSUME Good(start, chan, open, closing, lock, faults), NEW a \in Starts,
         start[a].pc \in {"check", "factory"},
         Goto(a, "retry") \/ Quit(a),
         lock' = Release(start[a].node),
         Sound(faults') => Sound(faults),
         UNCHANGED <<chan, open, closing>>
  PROVE  Good(start', chan', open', closing', lock', faults')
<1>1. /\ lock' \in Nodes \cup {None} /\ a \notin open /\ Holder(start[a])
      /\ \A n \in Nodes : chan[n] # a
  BY LeaderAssumption
  DEF Good, OpenKnown, Registered, Renewing, Starts, Release, Holder, Electing
<1>2. CASE Goto(a, "retry")
  <2> DEFINE r == [start[a] EXCEPT !.pc = "retry"]
  <2>1. start' = [start EXCEPT ![a] = r] /\ r \in StartStates /\ r.pc = "retry" /\ Begun(r)
    BY <1>2, GotoIs DEF Goto, Renewing
  <2>2. ~Holder(r)
    BY <2>1 DEF Holder, Electing, Renewing
  <2> HIDE DEF r
  <2>3. Good([start EXCEPT ![a] = r], chan, open, closing, lock', faults')
    BY <1>1, <2>1, <2>2, LooseChangeGood
  <2> QED
    BY <2>1, <2>3
<1>3. CASE Quit(a)
  <2>1. Good([start EXCEPT ![a] = Over], chan, open, closing, lock', faults')
    BY <1>1, OverIs, LooseChangeGood
  <2> QED
    BY <1>3, <2>1 DEF Quit
<1> QED
  BY <1>2, <1>3

LEMMA RetryCheckGood ==
  ASSUME Good(start, chan, open, closing, lock, faults), NEW a \in Starts, RetryCheck(a)
  PROVE  Good(start', chan', open', closing', lock', faults')
<1>1. CASE Wanted /\ Goto(a, "factory") /\ UNCHANGED <<lock, faults>>
  BY <1>1, HolderGoesOn DEF RetryCheck, Electing
<1>2. CASE ~Wanted /\ Quit(a) /\ lock' = Release(start[a].node) /\ UNCHANGED faults
  BY <1>2, HolderGivesUp, SameFaults DEF RetryCheck
<1>3. CASE Fault("db") /\ Goto(a, "retry") /\ lock' = Release(start[a].node)
  BY <1>3, HolderGivesUp, FaultGrows DEF RetryCheck
<1> QED
  BY <1>1, <1>2, <1>3 DEF RetryCheck

LEMMA FactoryGood ==
  ASSUME Good(start, chan, open, closing, lock, faults), NEW a \in Starts, Factory(a)
  PROVE  Good(start', chan', open', closing', lock', faults')
<1>1. CASE Goto(a, "register") /\ open' = open \cup {a} /\ UNCHANGED <<lock, faults>>
  BY <1>1, HolderGoesOn DEF Factory, Electing
<1>2. CASE Fault("factory") /\ Quit(a) /\ lock' = Release(start[a].node) /\ UNCHANGED open
  BY <1>2, HolderGivesUp, FaultGrows DEF Factory
<1> QED
  BY <1>1, <1>2 DEF Factory

LEMMA RegisteredGood ==
  ASSUME Good(start, chan, open, closing, lock, faults), NEW a \in Starts, Register(a)
  PROVE  Good(start', chan', open', closing', lock', faults')
<1> DEFINE n  == start[a].node
           st == Stopped(n).start
           ch == [chan EXCEPT ![n] = None]
<1>1. n \in Nodes /\ chan[n] # a
  <2>1. start[a].pc = "register" /\ Begun(start[a])
    BY DEF Register, Good, Started
  <2>2. n \in Nodes
    BY <2>1 DEF Begun
  <2> QED
    BY <2>1, <2>2, LeaderAssumption DEF Good, Registered, Renewing, Starts
<1>2. Good(st, ch, Stopped(n).open, Stopped(n).closing, Stopped(n).lock, faults)
  BY <1>1, StoppedGood
<1>3. st[a] = start[a] /\ chan \in [Nodes -> Starts \cup {None}]
  BY <1>1 DEF Stopped, Good
<1>4. start[a].pc = "register" /\ start' = [st EXCEPT ![a].pc = "renew"]
      /\ chan' = [chan EXCEPT ![n] = a]
      /\ open' = Stopped(n).open /\ closing' = Stopped(n).closing
      /\ lock' = Stopped(n).lock /\ faults' = faults
  BY DEF Register
<1>5. ch[n] = None /\ chan' = [ch EXCEPT ![n] = a]
  BY <1>1, <1>3, <1>4
<1> HIDE DEF st, ch
<1>6. Good([st EXCEPT ![a].pc = "renew"], [ch EXCEPT ![st[a].node] = a],
           Stopped(n).open, Stopped(n).closing, Stopped(n).lock, faults)
  BY <1>2, <1>3, <1>4, <1>5, RegisterGood
<1> QED
  BY <1>3, <1>4, <1>5, <1>6
LEMMA StepDownGood ==
  ASSUME Good(start, chan, open, closing, lock, faults), NEW a \in Starts,
         start[a].pc \in Renewing, StepDown(a),
         Sound(faults') => Sound(faults)
  PROVE  Good(start', chan', open', closing', lock', faults')
<1> DEFINE n  == start[a].node
           st == Stopped(n).start
           ch == [chan EXCEPT ![n] = None]
           op == Stopped(n).open
           cl == Stopped(n).closing
           lk == Stopped(n).lock
<1>1. n \in Nodes
  BY DEF Good, Started, Begun, Renewing
<1>2. Good(st, ch, op, cl, lk, faults)
  BY <1>1, StoppedGood
<1>3. st[a].pc \in Renewing /\ st[a].node = n /\ ch[n] = None
  BY <1>1 DEF Stopped, Good, StartStates
<1>4. start' = [st EXCEPT ![a] = Over] /\ chan' = ch /\ open' = op /\ closing' = cl /\ lock' = lk
  BY DEF StepDown, StopChannel
<1> HIDE DEF st, ch, op, cl, lk
<1>5. lk \in Nodes \cup {None} /\ a \notin op /\ \A m \in Nodes : ch[m] # a
  BY <1>2, <1>3, LeaderAssumption DEF Good, OpenKnown, Registered, Renewing, Starts
<1>6. op \in SUBSET (op \cup {a})
  OBVIOUS
<1>7. Good([st EXCEPT ![a] = Over], ch, op, cl, lk, faults')
  BY <1>2, <1>5, <1>6, OverIs, LooseChangeGood
<1> QED
  BY <1>4, <1>7

LEMMA RenewGood ==
  ASSUME Good(start, chan, open, closing, lock, faults), NEW a \in Starts, Renew(a)
  PROVE  Good(start', chan', open', closing', lock', faults')
<1>1. start[a].pc \in Renewing
  BY DEF Renew, Renewing
<1>2. CASE Goto(a, "dbcheck") /\ UNCHANGED <<chan, open, closing, lock, faults>>
  <2>1. Good([start EXCEPT ![a].pc = "dbcheck"], chan, open, closing, lock, faults)
    BY <1>1, RenewingGood DEF Renewing
  <2> QED
    BY <1>2, <2>1 DEF Goto
<1>3. CASE StepDown(a) /\ UNCHANGED faults
  BY <1>1, <1>3, StepDownGood, SameFaults
<1>4. CASE StepDown(a) /\ Fault("redis")
  BY <1>1, <1>4, StepDownGood, FaultGrows
<1> QED
  BY <1>2, <1>3, <1>4 DEF Renew

LEMMA RenewCheckGood ==
  ASSUME Good(start, chan, open, closing, lock, faults), NEW a \in Starts, RenewCheck(a)
  PROVE  Good(start', chan', open', closing', lock', faults')
<1>1. start[a].pc \in Renewing
  BY DEF RenewCheck, Renewing
<1>2. CASE /\ Goto(a, "renew") /\ UNCHANGED <<chan, open, closing, lock>>
           /\ UNCHANGED faults \/ Fault("db")
  <2>1. Sound(faults') => Sound(faults)
    BY <1>2, SameFaults, FaultGrows
  <2>2. Good([start EXCEPT ![a].pc = "renew"], chan, open, closing, lock, faults')
    BY <1>1, <2>1, RenewingGood DEF Renewing
  <2> QED
    BY <1>2, <2>2 DEF Goto
<1>3. CASE StepDown(a) /\ UNCHANGED faults
  BY <1>1, <1>3, StepDownGood, SameFaults
<1> QED
  BY <1>2, <1>3 DEF RenewCheck

LEMMA RenewEndsGood ==
  ASSUME Good(start, chan, open, closing, lock, faults), NEW a \in Starts, RenewEnds(a)
  PROVE  Good(start', chan', open', closing', lock', faults')
<1>1. /\ start[a].pc = "renew" /\ ~start[a].live /\ start' = [start EXCEPT ![a] = Over]
      /\ UNCHANGED <<chan, open, closing, lock, faults>>
  BY DEF RenewEnds, Quit
<1>2. \A n \in Nodes : chan[n] # a
  BY <1>1, LeaderAssumption DEF Good, Registered, Starts
<1>3. a \notin open /\ lock \in Nodes \cup {None}
  BY <1>1, <1>2 DEF Good, OpenKnown, Started, Begun, Renewing
<1>4. open \in SUBSET (open \cup {a})
  OBVIOUS
<1>5. Good([start EXCEPT ![a] = Over], chan, open, closing, lock, faults)
  BY <1>2, <1>3, <1>4, OverIs, LooseChangeGood
<1> QED
  BY <1>1, <1>5

-----------------------------------------------------------------------------
(* What is asked of an instance *)

LEMMA StopChannelGood ==
  ASSUME Good(start, chan, open, closing, lock, faults), NEW n \in Nodes,
         StopChannel(n), start' = Stopped(n).start, UNCHANGED faults
  PROVE  Good(start', chan', open', closing', lock', faults')
BY StoppedGood DEF StopChannel

LEMMA StartChannelGood ==
  ASSUME Good(start, chan, open, closing, lock, faults), NEW n \in Nodes,
         StartChannel(n), UNCHANGED faults
  PROVE  Good(start', chan', open', closing', lock', faults')
<1> DEFINE st == Stopped(n).start
           ch == [chan EXCEPT ![n] = None]
           op == Stopped(n).open
           cl == Stopped(n).closing
           lk == Stopped(n).lock
           r  == [pc |-> "elect", node |-> n, live |-> TRUE]
<1>1. PICK a \in Starts : start[a] = Unused /\ start' = [st EXCEPT ![a] = r]
  BY DEF StartChannel
<1>2. Good(st, ch, op, cl, lk, faults)
  BY StoppedGood
<1>3. chan' = ch /\ open' = op /\ closing' = cl /\ lock' = lk
  BY DEF StartChannel, StopChannel
<1>4. chan[n] # a
  BY <1>1, LeaderAssumption DEF Good, Registered, Unused, Renewing, Starts
<1>5. st[a] = Unused
  BY <1>1, <1>4 DEF Stopped, Good
<1>6. r \in StartStates /\ Begun(r) /\ ~Holder(r)
  BY DEF StartStates, Begun, Holder, Electing, Renewing
<1> HIDE DEF st, ch, op, cl, lk, r
<1>7. lk \in Nodes \cup {None} /\ a \notin op /\ \A m \in Nodes : ch[m] # a
  BY <1>2, <1>5, LeaderAssumption
  DEF Good, OpenKnown, Registered, Unused, Renewing, Starts
<1>8. op \in SUBSET (op \cup {a})
  OBVIOUS
<1>9. Good([st EXCEPT ![a] = r], ch, op, cl, lk, faults)
  BY <1>2, <1>6, <1>7, <1>8, LooseChangeGood
<1> QED
  BY <1>1, <1>3, <1>9

LEMMA AskedGood ==
  ASSUME Good(start, chan, open, closing, lock, faults), NEW n \in Nodes,
         Boot(n) \/ UpdateChannel(n) \/ ToggleChannel(n) \/ DeleteChannel(n) \/ MessageStarts(n)
  PROVE  Good(start', chan', open', closing', lock', faults')
<1>1. faults' = faults
  BY DEF Boot, UpdateChannel, ToggleChannel, DeleteChannel, MessageStarts
<1>2. CASE StartChannel(n)
  BY <1>1, <1>2, StartChannelGood
<1>3. CASE StopChannel(n) /\ start' = Stopped(n).start
  BY <1>1, <1>3, StopChannelGood
<1>4. CASE UNCHANGED <<start, chan, open, closing, lock>>
  BY <1>1, <1>4
<1> QED
  BY <1>2, <1>3, <1>4
  DEF Boot, UpdateChannel, ToggleChannel, DeleteChannel, MessageStarts

LEMMA HaltGood ==
  ASSUME Good(start, chan, open, closing, lock, faults), NEW n \in Nodes, Shutdown(n) \/ Crash(n)
  PROVE  Good(start', chan', open', closing', lock', faults')
<1>1. CASE Shutdown(n)
  <2>1. Good(Ends(n), [chan EXCEPT ![n] = None], open \ Ours(n),
             [closing EXCEPT ![n] = @ \cup Ours(n)], Stopped(n).lock, faults)
    BY EndsGood
  <2> QED
    BY <1>1, <2>1 DEF Shutdown
<1>2. CASE Crash(n)
  <2>1. Sound(faults') => Sound(faults)
    BY <1>2, FaultGrows DEF Crash
  <2>2. Good(Ends(n), [chan EXCEPT ![n] = None], open \ Ours(n),
             [closing EXCEPT ![n] = {}], lock, faults')
    BY <2>1, EndsGood
  <2> QED
    BY <1>2, <2>2 DEF Crash
<1> QED
  BY <1>1, <1>2

\* A connection that was told to close is closed.
LEMMA HangUpGood ==
  ASSUME Good(start, chan, open, closing, lock, faults), NEW n \in Nodes, HangUp(n)
  PROVE  Good(start', chan', open', closing', lock', faults')
<1> USE DEF Good
<1>1. PICK a \in closing[n] : closing' = [closing EXCEPT ![n] = @ \ {a}]
  BY DEF HangUp
<1>2. closing' \in [Nodes -> SUBSET Starts] /\ \A m \in Nodes : closing'[m] \subseteq closing[m]
  BY <1>1
<1>3. Draining(start, closing, lock) => Draining(start, closing', lock)
  BY <1>2 DEF Draining
<1> QED
  BY <1>2, <1>3 DEF HangUp

LEMMA LockExpiresGood ==
  ASSUME Good(start, chan, open, closing, lock, faults), LockExpires
  PROVE  Good(start', chan', open', closing', lock', faults')
<1>1. lock # None /\ lock' = None /\ UNCHANGED <<start, chan, open, closing>>
  BY DEF LockExpires
<1>2. Sound(faults') => OneHolder(start, None) /\ (longpoll => Draining(start, closing, None))
  <2>1. CASE Fault("slow")
    BY <2>1, FaultGrows
  <2>2. CASE UNCHANGED faults /\ ~Counted(lock)
    <3>1. ASSUME Sound(faults), NEW a \in Starts PROVE ~Holder(start[a])
      BY <2>2, <3>1
      DEF Counted, Good, OneHolder, Holder, Started, Begun, Electing, Renewing
    <3>2. ASSUME Sound(faults), longpoll, NEW m \in Nodes PROVE closing[m] = {}
      BY <2>2, <3>2 DEF Counted, Good, Draining
    <3> QED
      BY <2>2, <3>1, <3>2 DEF OneHolder, Draining, Sound
  <2> QED
    BY <2>1, <2>2 DEF LockExpires
<1> QED
  BY <1>1, <1>2 DEF Good
-----------------------------------------------------------------------------
(* The theorems *)

LEMMA GoodStep ==
  IInv /\ [Next]_vars => Good(start', chan', open', closing', lock', faults')
<1> SUFFICES ASSUME Good(start, chan, open, closing, lock, faults), [Next]_vars
             PROVE  Good(start', chan', open', closing', lock', faults')
  BY DEF IInv
<1>1. ASSUME NEW a \in Starts, Loop(a)
      PROVE  Good(start', chan', open', closing', lock', faults')
  BY <1>1, ElectGood, RetryGood, RetryCheckGood, FactoryGood, RegisteredGood,
     RenewGood, RenewCheckGood, RenewEndsGood DEF Loop
<1>2. CASE UNCHANGED vars
  BY <1>2 DEF vars
<1> QED
  BY <1>1, <1>2, AskedGood, HaltGood, HangUpGood, LockExpiresGood DEF Next

LEMMA TypeStep ==
  TypeOK /\ [Next]_vars =>
    /\ longpoll' \in BOOLEAN /\ row' \in {"enabled", "disabled", "gone"}
    /\ up' \subseteq Nodes
    /\ toggles' \in 0..MaxToggles /\ faults' \subseteq FaultKinds
<1> SUFFICES ASSUME TypeOK, [Next]_vars
             PROVE  /\ longpoll' \in BOOLEAN /\ row' \in {"enabled", "disabled", "gone"}
                    /\ up' \subseteq Nodes
                    /\ toggles' \in 0..MaxToggles /\ faults' \subseteq FaultKinds
  OBVIOUS
<1> USE LeaderAssumption DEF TypeOK
<1>1. \A f : Fault(f) => faults' \subseteq FaultKinds
  BY DEF Fault, CanFail
<1>2. ASSUME NEW a \in Starts, Loop(a)
      PROVE  UNCHANGED <<longpoll, row, up, toggles>> /\ faults' \subseteq FaultKinds
  BY <1>1, <1>2
  DEF Loop, Elect, Retry, RetryCheck, Factory, Register, Renew, RenewCheck, RenewEnds, Acquire
<1>3. ASSUME NEW n \in Nodes, Boot(n) \/ UpdateChannel(n) \/ DeleteChannel(n)
                                \/ MessageStarts(n) \/ Shutdown(n) \/ Crash(n) \/ HangUp(n)
      PROVE  /\ UNCHANGED <<longpoll, toggles>> /\ faults' \subseteq FaultKinds
             /\ row' \in {row, "gone"} /\ up' \subseteq Nodes
  BY <1>1, <1>3 DEF Boot, UpdateChannel, DeleteChannel, MessageStarts, Shutdown, Crash, HangUp
<1>4. ASSUME NEW n \in Nodes, ToggleChannel(n)
      PROVE  /\ UNCHANGED <<longpoll, up, faults>> /\ toggles' \in 0..MaxToggles
             /\ row' \in {"enabled", "disabled"}
  BY <1>4 DEF ToggleChannel
<1>5. CASE LockExpires
  BY <1>1, <1>5 DEF LockExpires
<1>6. CASE UNCHANGED vars
  BY <1>6 DEF vars
<1> QED
  BY <1>2, <1>3, <1>4, <1>5, <1>6 DEF Next

\* The mode of a channel is not changed.
LEMMA LongpollStays == [Next]_vars => longpoll' = longpoll
BY DEF Next, vars, Loop, Elect, Retry, RetryCheck, Factory, Register, Renew, RenewCheck,
       RenewEnds, Boot, UpdateChannel, ToggleChannel, DeleteChannel, MessageStarts,
       Shutdown, Crash, HangUp, LockExpires

LEMMA InitInv == Init => IInv
<1> SUFFICES ASSUME Init PROVE IInv
  OBVIOUS
<1> USE LeaderAssumption
<1>1. TypeOK
  BY DEF Init, TypeOK, Unused, StartStates
<1>2. Registered(start, chan) /\ OpenKnown(start, chan, open)
  BY DEF Init, Registered, OpenKnown
<1>3. Started(start)
  BY DEF Init, Started, Begun, Unused
<1>4. OneHolder(start, lock) /\ Draining(start, closing, lock)
  BY DEF Init, OneHolder, Draining, Holder, Unused, Electing, Renewing
<1> QED
  BY <1>1, <1>2, <1>3, <1>4 DEF IInv, Good, TypeOK

LEMMA StepInv == IInv /\ [Next]_vars => IInv'
<1> SUFFICES ASSUME IInv, [Next]_vars PROVE IInv'
  OBVIOUS
<1>1. Good(start', chan', open', closing', lock', faults') /\ longpoll' = longpoll
  BY GoodStep, LongpollStays
<1>2. TypeOK'
  BY <1>1, TypeStep DEF IInv, Good, TypeOK
<1> QED
  BY <1>1, <1>2 DEF IInv, Good

\* What the invariant says of the connections.
LEMMA OpenExclusive == IInv => NoLeak /\ Exclusive
<1> SUFFICES ASSUME IInv PROVE NoLeak /\ Exclusive
  OBVIOUS
<1> USE DEF IInv, Good
<1>1. NoLeak
  BY DEF NoLeak, OpenKnown, Started, Begun, Renewing
<1>2. ASSUME Sound(faults) PROVE \A a, b \in open : a = b
  BY <1>2, OpenHolds DEF OneHolder
<1>3. ASSUME Sound(faults), longpoll PROVE \A a, b \in Connected : a = b
  <2>1. Connected = open \cup UNION {closing[n] : n \in Nodes}
    BY DEF Connected
  <2>2. CASE open = {}
    <3>1. ASSUME NEW a \in Connected, NEW b \in Connected PROVE a = b
      <4>1. PICK n \in Nodes : a \in closing[n]
        BY <2>1, <2>2, <3>1
      <4>2. PICK m \in Nodes : b \in closing[m]
        BY <2>1, <2>2, <3>1
      <4>3. n = m
        BY <1>3, <4>1, <4>2 DEF Draining
      <4> QED
        BY <1>3, <4>1, <4>2, <4>3 DEF Draining
    <3> QED
      BY <3>1
  <2>3. CASE open # {}
    <3>1. \A n \in Nodes : closing[n] = {}
      BY <1>3, <2>3, OpenHolds DEF Draining
    <3>2. Connected = open
      BY <2>1, <3>1
    <3> QED
      BY <1>2, <1>3, <3>2
  <2> QED
    BY <2>2, <2>3
<1>4. \A S \in {open, Connected} : (\A a, b \in S : a = b) => Cardinality(S) <= 1
  <2> SUFFICES ASSUME NEW S, \A a, b \in S : a = b PROVE Cardinality(S) <= 1
    OBVIOUS
  <2>1. CASE S = {}
    BY <2>1, FS_EmptySet
  <2>2. CASE S # {}
    <3>1. PICK a \in S : TRUE
      BY <2>2
    <3>2. S = {a}
      BY <3>1
    <3>3. Cardinality({a}) = 1
      BY FS_Singleton
    <3> QED
      BY <3>2, <3>3
  <2> QED
    BY <2>1, <2>2
<1> QED
  BY <1>1, <1>2, <1>3, <1>4 DEF Exclusive, Sound

\* The invariant of the election: what is registered, what is open or closing
\* and who counts on the lock of the channel.
THEOREM Invariant == Spec => []IInv
BY InitInv, StepInv, PTL DEF Spec

\* The variables of the election keep their types.
THEOREM TypeCorrect == Spec => []TypeOK
<1>1. IInv => TypeOK
  BY DEF IInv
<1> QED
  BY <1>1, Invariant, PTL

\* "so its adapter / long connection doesn't leak" (startChannelInternal):
\* whatever fails and however starts replace each other, a connection is the
\* registered one of its instance, or about to be, or has been told to close.
THEOREM ConnectionsDoNotLeak == Spec => []NoLeak
BY Invariant, OpenExclusive, PTL

\* "Only one instance should actively poll or maintain a persistent connection
\* for each channel": with any number of instances, starts, updates, shutdowns
\* and crashes, there are never two connections that have not been told to
\* close, and never two long polls at all, while Redis answers and nobody
\* outlives the lock.
THEOREM OneConnection == Spec => []Exclusive
BY Invariant, OpenExclusive, PTL
=============================================================================
