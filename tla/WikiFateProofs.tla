--------------------------- MODULE WikiFateProofs ---------------------------
(***************************************************************************)
(* What becomes of the rows of WikiQueue, and of the page, for any number  *)
(* of documents, workers and rows and under every fault.                   *)
(*                                                                         *)
(* NoneDropped and SlotReleased look at a row that has left the table; the *)
(* invariant follows it through the batch that has it in hand.  Judged     *)
(* says what the batch has decided on at each of its phases, Released      *)
(* which slots it has released by then; both need to know who can be       *)
(* queued beside whom (Queued), for a row that a later one of its document *)
(* replaces is dropped without a decision of its own.                      *)
(*                                                                         *)
(* AppliedStays and DeletedIsRetracted look at the page.  A batch whose    *)
(* write will be accepted has read the page as it is now, unless the       *)
(* clean-up of a deleted document has written past it (Current): either    *)
(* it holds the slug lock, which keeps all others out (LockOK), or its     *)
(* version is compared.  Once a retract has been carried out no writer     *)
(* has the document any more (Retracted).                                  *)
(***************************************************************************)
EXTENDS WikiQueueProofs

Inserted == 1..Len(log)

\* The states of a document whose delete has scrubbed the queue, and of one
\* whose page the clean-up has changed without a version.
Fixed   == {"retractKnown", "doneKnown", "unqueued"}
Cleaned == {"list", "fix", "retract", "done"} \cup Fixed
Deleting == {"scrub"} \cup Cleaned
DelStates == {"no", "cancel", "cancelled"} \cup Deleting

EndStates ==
  {"open", "closed", "applied", "unlinked", "mistaken", "unwritten", "refused",
   "given up", "replaced"}

\* Who may be queued beside whom.
Queued ==
  /\ del \in [Docs -> DelStates]
  /\ ended \in [Ids -> EndStates]
  /\ \A i \in Ids : ended[i] = "mistaken" => "db" \in faults
  /\ \A d \in Docs : d \in gone <=> del[d] \in Deleting
  /\ \A i \in Retracts(Inserted) : del[log[i].doc] \in {"done", "doneKnown"}
  /\ \A d \in Docs : del[d] \in {"done", "doneKnown"} =>
        \E i \in Retracts(Inserted) : log[i].doc = d
  /\ \A i \in Ingests(InTable) : log[i].doc \notin plan
  /\ \A i, j \in Ingests(Inserted) : log[i].doc = log[j].doc /\ i < j => row[i] = "absent"
  /\ \A i \in Ids \ Inserted : ended[i] = "open" /\ drained[i] = 0

Writing(s) == s.pc \in {"write", "meta"}
Judges(s) == Writing(s) \/ s.pc \in {"reduce", "settle"}

\* The updates that a batch has yet to decide on, and the rows it has dealt with.
Pending(s) == IF s.pc = "reduce" THEN s.upd ELSE s.kept
Worked(s)  == Canonical(s.held) \ s.failed

JudgedBatch(s) ==
  /\ s.upd \cup s.failed \subseteq Canonical(s.held)
  /\ s.pc # "settle" => s.upd \cap s.failed = {}
  /\ Judges(s) => \A i \in Worked(s) \ Pending(s) : ended[i] # "open"
  /\ \A i \in s.held \ InTable : ended[i] = "replaced"

Decided == \A i \in Inserted : row[i] = "absent" => ended[i] # "open"

Judged == Decided /\ \A b \in Batches : JudgedBatch(batch[b])

\* An ingest that was found moot has released its slot.
DrainedBatch(s) == Judges(s) => \A i \in Ingests(Worked(s)) \ s.upd : drained[i] > 0

\* A row of a deleted document that was queued after the scrub.
QueuedLate(i) ==
  del[log[i].doc] \in Cleaned =>
    /\ ended[i] \in {"open", "replaced"} \/ drained[i] > 0
    /\ \A b \in Batches : i \notin batch[b].upd \cup batch[b].failed

Untouched(i) == ended[i] = "open" /\ drained[i] = 0

\* Without faults a row is released by the one batch that has worked it off.
ReleasedOnce(i) ==
  /\ (\A b \in Batches : Judges(batch[b]) => i \notin Worked(batch[b])) => Untouched(i)
  /\ \A b \in Batches : Judges(batch[b]) /\ i \in Worked(batch[b]) =>
       /\ drained[i] = IF i \in batch[b].upd THEN 0 ELSE 1
       /\ batch[b].pc = "reduce" /\ i \in batch[b].upd => ended[i] = "open"

Released ==
  /\ \A b \in Batches : DrainedBatch(batch[b])
  /\ \A i \in Ingests(InTable) : QueuedLate(i) /\ (faults = {} => ReleasedOnce(i))
  /\ SlotReleased

\* The slug lock has never been lost: whoever writes holds it.
Guarded == faults \cap {"redis", "ttl"} = {}

LockOK ==
  \A b \in Batches :
    /\ batch[b].locked => Writing(batch[b])
    /\ Guarded /\ Writing(batch[b]) => batch[b].locked /\ lock = b

\* A batch whose write will be accepted, short of an unguarded one.
Writer(s) == (s.pc = "write" /\ ~s.moved) \/ (s.pc = "meta" /\ Guarded)

Cites(p) == p = NoPage \/ p \subseteq Docs

PageOK ==
  /\ Cites(page)
  /\ \A b \in Batches : Writing(batch[b]) => Cites(batch[b].base)
  /\ \A d \in Docs : del[d] = "fix" => copy[d].refs \subseteq Docs
  /\ \A d \in gone \ late, b \in Batches : d \notin Adds(b)

\* The page does not cite d, and nobody is about to put it back.
GoneForGood(d) ==
  d \notin page /\ \A b \in Batches : Writer(batch[b]) => d \notin batch[b].base

Retracting(d) ==
  \A i \in Retracts(Inserted) : ended[i] \in {"applied", "closed", "unlinked"} => GoneForGood(d)

\* Who writes has read the page as it is, but for what a clean-up did to it.
Current ==
  ~Unguarded =>
    /\ page = NoPage => \A b \in Batches : Writer(batch[b]) => batch[b].base = NoPage
    /\ (\A d \in Docs : del[d] \notin Fixed) =>
          \A b \in Batches : Writer(batch[b]) => batch[b].base = page

Retracted == ~Unguarded => \A d \in gone \ late : gone = {d} => Retracting(d)

Fates == Queued /\ Judged /\ Released /\ PageOK /\ Current /\ AppliedStays /\ Retracted

FInv == IInv /\ LockOK /\ Fates

-----------------------------------------------------------------------------
(* Small facts *)

LEMMA InsertedIds ==
  ASSUME TableOK
  PROVE  /\ Inserted \subseteq Ids /\ Len(log) \in Nat
         /\ InTable \subseteq Inserted
         /\ \A i \in Inserted : log[i].doc \in Docs /\ log[i].op \in {"ingest", "retract"}
<1>1. Len(log) \in Nat /\ Len(log) <= MaxOps
  BY LenProperties DEF TableOK
<1>2. Inserted \subseteq Ids
  BY <1>1, WikiAssumption DEF Inserted, Ids
<1>3. InTable \subseteq Inserted
  BY InTableInserted DEF Inserted
<1>4. \A i \in Inserted : log[i] \in [doc : Docs, op : {"ingest", "retract"}]
  BY <1>1, ElementOfSeq DEF TableOK, Inserted
<1> QED
  BY <1>1, <1>2, <1>3, <1>4

LEMMA Part ==
  ASSUME NEW I
  PROVE  /\ Ingests(I) \subseteq I /\ Retracts(I) \subseteq I /\ Canonical(I) \subseteq I
         /\ Ingests(I) \cap Retracts(I) = {}
BY DEF Ingests, Retracts, Canonical

\* t is s, but for a write that will be refused by now.
Same(s, t) ==
  /\ t.pc = s.pc \/ (s.pc = "meta" /\ t.pc = "write" /\ t.moved)
  /\ t.held = s.held /\ t.upd = s.upd /\ t.stale = s.stale /\ t.failed = s.failed
  /\ t.kept = s.kept /\ t.base = s.base
  /\ t.pc = "write" /\ ~t.moved => s.pc = "write" /\ ~s.moved

LEMMA MovedSame ==
  ASSUME BatchOK, NEW pcs \in SUBSET {"write", "meta"}, "write" \in pcs
  PROVE  \A c \in Batches :
           /\ Same(batch[c], Moved(pcs)[c])
           /\ Moved(pcs)[c].pc = "write" => Moved(pcs)[c].moved
           /\ Moved(pcs)[c].pc = "meta" => "meta" \notin pcs
           /\ Moved(pcs)[c].locked = batch[c].locked
<1> TAKE c \in Batches
<1> DEFINE Refused(s) == [s EXCEPT !.pc = "write", !.moved = TRUE]
           Ok(s) == [s EXCEPT !.moved = FALSE]
           Like2(s, t) ==
             /\ t.held = s.held /\ t.upd = s.upd /\ t.stale = s.stale
             /\ t.failed = s.failed /\ t.kept = s.kept /\ t.base = s.base
             /\ t.locked = s.locked
           t == Moved(pcs)[c]
<1>1. ASSUME NEW s \in BatchStates
      PROVE  /\ Like2(s, Refused(s)) /\ Refused(s).pc = "write" /\ Refused(s).moved = TRUE
             /\ Like2(s, Ok(s)) /\ Ok(s).pc = s.pc
  BY DEF BatchStates
<1>2. batch[c] \in BatchStates
  BY DEF BatchOK
<1>3. t = IF batch[c].pc \in pcs THEN Refused(batch[c]) ELSE Ok(batch[c])
  BY DEF Moved
<1> HIDE DEF t, Refused, Ok
<1>4. Like2(batch[c], t)
  BY <1>1, <1>2, <1>3
<1>5. CASE batch[c].pc \in pcs
  <2>1. t.pc = "write" /\ t.moved = TRUE
    BY <1>1, <1>2, <1>3, <1>5
  <2>2. batch[c].pc \in {"write", "meta"}
    BY <1>5
  <2> QED
    BY <1>4, <2>1, <2>2 DEF Same, t
<1>6. CASE batch[c].pc \notin pcs
  <2>1. t.pc = batch[c].pc
    BY <1>1, <1>2, <1>3, <1>6
  <2>2. t.pc # "write" /\ (t.pc = "meta" => "meta" \notin pcs)
    BY <1>6, <2>1
  <2> QED
    BY <1>4, <2>1, <2>2 DEF Same, t
<1> QED
  BY <1>5, <1>6

-----------------------------------------------------------------------------
(* What a batch does to the rows *)

Later(i) ==
  /\ i \in InTable' => i \in InTable
  /\ ended[i] # "open" => ended'[i] # "open"
  /\ ended[i] = "replaced" => ended'[i] = "replaced"
  /\ drained'[i] >= drained[i]

\* An end may be known better later on, but it stays one.
Settles(i) ==
  {ended[i], ended'[i]} \cap {"open", "replaced"} # {} => ended'[i] = ended[i]

Alone(i) ==
  Settles(i) /\ drained'[i] = drained[i] /\ (i \in InTable => i \in InTable')

\* Only an error of the database makes a row end by mistake.
Mistakes(i) == ended'[i] = "mistaken" => "db" \in faults'

\* A step of batch b leaves the rows of the others alone.
Frame(b) ==
  /\ UNCHANGED <<log, plan, gone, del>> /\ faults \subseteq faults'
  /\ ended' \in [Ids -> EndStates] /\ \A i \in Ids : Mistakes(i)
  /\ \A c \in Batches \ {b} : Same(batch[c], batch'[c])
  /\ Judges(batch'[b]) => batch'[b].held = batch[b].held
  /\ batch'[b].upd \cup batch'[b].failed \subseteq batch[b].held
  /\ \A i \in Ids : Later(i)
  /\ \A i \in Ids \ batch[b].held : Alone(i)

\* What SlotReleased asks of a row.
SlotDone(i) ==
  ended[i] = "replaced" \/ drained[i] = 1 \/ (drained[i] > 0 /\ faults # {})

\* ReleasedOnce, as far as batch b is concerned.
OnceBy(i, b) ==
  IF Judges(batch[b]) /\ i \in Worked(batch[b])
  THEN /\ drained[i] = IF i \in batch[b].upd THEN 0 ELSE 1
       /\ batch[b].pc = "reduce" /\ i \in batch[b].upd => ended[i] = "open"
  ELSE Untouched(i)

\* The rows it holds it decides on before they leave, and releases their slots.
Own(b) ==
  /\ JudgedBatch(batch[b])' /\ DrainedBatch(batch[b])'
  /\ \A i \in (batch[b].held \cap InTable) \ InTable' :
       ended'[i] # "open" /\ (i \in Ingests(Inserted) => SlotDone(i)')
  /\ \A i \in Ingests(batch[b].held \cap InTable') :
       /\ del[log[i].doc] \in Cleaned =>
            /\ ended'[i] \in {"open", "replaced"} \/ drained'[i] > 0
            /\ i \notin batch'[b].upd \cup batch'[b].failed
       /\ faults' = {} => OnceBy(i, b)'

LEMMA AdvanceQueued ==
  ASSUME IInv, Queued, NEW b \in Batches, Frame(b)
  PROVE  Queued' /\ Inserted' = Inserted /\ InTable' \subseteq InTable
<1>1. Inserted' = Inserted
  BY DEF Frame, Inserted
<1>2. InTable' \subseteq InTable
  BY DEF Frame, Later, InTable
<1>3. \A i \in Ids \ Inserted : i \notin batch[b].held
  BY DEF IInv, TypeOK, BatchOK, Consistent, Inserted
<1>4. \A i \in Ids \ Inserted : ended'[i] = "open" /\ drained'[i] = 0
  BY <1>3 DEF Frame, Alone, Settles, Queued
<1>5. \A i \in Inserted : i \in InTable' => i \in InTable
  BY <1>2
<1>6. \A i, j \in Ingests(Inserted) : log[i].doc = log[j].doc /\ i < j => row'[i] = "absent"
  <2>1. \A i \in Inserted : row[i] = "absent" => row'[i] = "absent"
    BY <1>5, InsertedIds DEF InTable, IInv, TypeOK
  <2> QED
    BY <2>1, Part DEF Queued
<1>7. /\ UNCHANGED <<log, plan, gone, del>> /\ ended' \in [Ids -> EndStates]
      /\ \A i \in Ids : ended'[i] = "mistaken" => "db" \in faults'
  BY DEF Frame, Mistakes
<1>8. Ingests(InTable)' \subseteq Ingests(InTable)
  BY <1>2, <1>7 DEF Ingests
<1>9. Ingests(Inserted)' = Ingests(Inserted) /\ Retracts(Inserted)' = Retracts(Inserted)
  BY <1>1, <1>7 DEF Ingests, Retracts
<1> QED
  BY <1>1, <1>2, <1>4, <1>6, <1>7, <1>8, <1>9 DEF Queued

\* With the log as it is, a batch that is the same judges the same rows.
LEMMA SameBatch ==
  ASSUME NEW c \in Batches, log' = log, Same(batch[c], batch'[c])
  PROVE  /\ (Judges(batch[c]))' <=> Judges(batch[c])
         /\ (Worked(batch[c]))' = Worked(batch[c])
         /\ (Pending(batch[c]))' = Pending(batch[c])
         /\ batch'[c].upd = batch[c].upd /\ batch'[c].failed = batch[c].failed
         /\ batch'[c].held = batch[c].held
         /\ batch'[c].pc = "reduce" <=> batch[c].pc = "reduce"
         /\ batch'[c].pc = "settle" <=> batch[c].pc = "settle"
BY DEF Same, Judges, Writing, Worked, Pending, Canonical

LEMMA SameWriter ==
  ASSUME NEW c \in Batches, faults \subseteq faults', Same(batch[c], batch'[c])
  PROVE  /\ Writer(batch[c])' => Writer(batch[c])
         /\ Writing(batch'[c]) <=> Writing(batch[c])
         /\ batch'[c].base = batch[c].base
BY DEF Same, Writer, Writing, Guarded

LEMMA AdvanceJudged ==
  ASSUME IInv, Queued, Judged, NEW b \in Batches, Frame(b), Own(b)
  PROVE  Judged'
<1>1. /\ log' = log /\ \A c \in Batches \ {b} : Same(batch[c], batch'[c])
      /\ Inserted' = Inserted /\ InTable' \subseteq InTable
  BY AdvanceQueued DEF Frame
<1>2. ASSUME NEW c \in Batches, c # b
      PROVE  JudgedBatch(batch[c])'
  <2>1. Same(batch[c], batch'[c]) /\ log' = log
    BY <1>1, <1>2
  <2>2. JudgedBatch(batch[c])
    BY DEF Judged
  <2>3. (/\ batch[c].upd \cup batch[c].failed \subseteq Canonical(batch[c].held)
         /\ batch[c].pc # "settle" => batch[c].upd \cap batch[c].failed = {})'
    BY <2>1, <2>2, SameBatch DEF JudgedBatch, Canonical
  <2>4. (Judges(batch[c]) => \A i \in Worked(batch[c]) \ Pending(batch[c]) : ended[i] # "open")'
    <3>1. Worked(batch[c]) \subseteq Ids
      BY Part DEF Worked, IInv, TypeOK, BatchOK, BatchStates
    <3> QED
      BY <2>1, <2>2, <3>1, SameBatch DEF JudgedBatch, Frame, Later
  <2>5. (\A i \in batch[c].held \ InTable : ended[i] = "replaced")'
    <3> SUFFICES ASSUME NEW i \in batch[c].held, i \notin InTable'
                 PROVE  ended'[i] = "replaced"
      BY <2>1, SameBatch
    <3>1. i \in Ids
      BY DEF IInv, TypeOK, BatchOK, BatchStates
    <3>2. CASE i \notin InTable
      BY <2>2, <3>1, <3>2 DEF JudgedBatch, Frame, Later
    <3>3. CASE i \in InTable
      <4>1. i \notin batch[b].held
        BY <1>2, <3>3 DEF IInv, ClaimsDisjoint
      <4> QED
        BY <3>1, <3>3, <4>1 DEF Frame, Alone
    <3> QED
      BY <3>2, <3>3
  <2> QED
    BY <2>3, <2>4, <2>5 DEF JudgedBatch
<1>3. Decided'
  <2> SUFFICES ASSUME NEW i \in Inserted, i \notin InTable'
               PROVE  ended'[i] # "open"
    BY <1>1, InsertedIds DEF Decided, InTable, Inserted, IInv, TypeOK
  <2>1. i \in Ids
    BY InsertedIds DEF IInv, TypeOK
  <2>2. CASE i \notin InTable
    <3>1. ended[i] # "open"
      BY <2>1, <2>2 DEF Judged, Decided, InTable, Inserted
    <3> QED
      BY <2>1, <3>1 DEF Frame, Later
  <2>3. CASE i \in InTable
    <3>1. i \in batch[b].held
      BY <2>1, <2>3 DEF Frame, Alone
    <3> QED
      BY <2>3, <3>1 DEF Own
  <2> QED
    BY <2>2, <2>3
<1>4. JudgedBatch(batch[b])'
  BY DEF Own
<1> QED
  BY <1>2, <1>3, <1>4 DEF Judged

LEMMA WorkedHeld ==
  ASSUME NEW c \in Batches, NEW i, i \notin batch[c].held
  PROVE  i \notin Worked(batch[c])
BY Part DEF Worked

LEMMA WorkedHeldNext ==
  ASSUME NEW c \in Batches, NEW i, i \notin batch'[c].held
  PROVE  i \notin (Worked(batch[c]))'
BY DEF Worked, Canonical

LEMMA AdvanceOnce ==
  ASSUME IInv, Released, NEW b \in Batches, Frame(b), Own(b),
         faults' = {}, NEW i \in Ingests(InTable')
  PROVE  ReleasedOnce(i)'
<1>1. /\ log' = log /\ \A c \in Batches \ {b} : Same(batch[c], batch'[c])
      /\ faults = {} /\ i \in Ids /\ i \in InTable' /\ i \in InTable
  BY Part DEF Frame, Later, InTable
<1>2. i \in Ingests(InTable)
  BY <1>1 DEF Ingests
<1>3. ReleasedOnce(i)
  BY <1>1, <1>2 DEF Released
<1>4. CASE i \in batch[b].held
  <2>1. OnceBy(i, b)'
    <3>1. i \in Ingests(batch[b].held \cap InTable')
      BY <1>4 DEF Ingests
    <3> QED
      BY <3>1 DEF Own
  <2>2. \A c \in Batches \ {b} : i \notin (Worked(batch[c]))'
    <3> TAKE c \in Batches \ {b}
    <3>1. i \notin batch[c].held
      BY <1>1, <1>4 DEF IInv, ClaimsDisjoint
    <3> QED
      BY <1>1, <3>1, SameBatch, WorkedHeldNext
  <2> QED
    BY <2>1, <2>2 DEF OnceBy, ReleasedOnce
<1>5. CASE i \notin batch[b].held
  <2>1. (ended'[i] = "open" <=> ended[i] = "open") /\ drained'[i] = drained[i]
    BY <1>1, <1>5 DEF Frame, Alone, Settles
  <2>2. (Judges(batch[b]))' => i \notin (Worked(batch[b]))'
    <3>1. (Judges(batch[b]))' => batch'[b].held = batch[b].held
      BY DEF Frame, Judges
    <3> QED
      BY <1>5, <3>1, WorkedHeldNext
  <2>3. i \notin Worked(batch[b])
    BY <1>5, WorkedHeld
  <2>4. ASSUME NEW c \in Batches, c # b
        PROVE  /\ (Judges(batch[c]))' <=> Judges(batch[c])
               /\ (Worked(batch[c]))' = Worked(batch[c])
               /\ batch'[c].upd = batch[c].upd
               /\ batch'[c].pc = "reduce" <=> batch[c].pc = "reduce"
    BY <1>1, <2>4, SameBatch
  <2>5. (Untouched(i))' <=> Untouched(i)
    BY <2>1 DEF Untouched
  <2>6. (\A c \in Batches : Judges(batch[c]) => i \notin Worked(batch[c]))' => Untouched(i)'
    <3> SUFFICES ASSUME (\A c \in Batches : Judges(batch[c]) => i \notin Worked(batch[c]))'
                 PROVE  Untouched(i)
      BY <2>5
    <3>1. \A c \in Batches : Judges(batch[c]) => i \notin Worked(batch[c])
      <4> TAKE c \in Batches
      <4>1. CASE c = b
        BY <2>3, <4>1
      <4>2. CASE c # b
        BY <2>4, <4>2
      <4> QED
        BY <4>1, <4>2
    <3> QED
      BY <1>3, <3>1 DEF ReleasedOnce
  <2>7. ASSUME NEW c \in Batches, (Judges(batch[c]) /\ i \in Worked(batch[c]))'
        PROVE  (/\ drained[i] = IF i \in batch[c].upd THEN 0 ELSE 1
                /\ batch[c].pc = "reduce" /\ i \in batch[c].upd => ended[i] = "open")'
    <3>1. c # b
      BY <2>2, <2>7
    <3> QED
      BY <1>3, <2>1, <2>4, <2>7, <3>1 DEF ReleasedOnce
  <2> QED
    BY <2>6, <2>7 DEF ReleasedOnce
<1> QED
  BY <1>4, <1>5

LEMMA AdvanceReleased ==
  ASSUME IInv, Queued, Judged, Released, NEW b \in Batches, Frame(b), Own(b), TypeOK'
  PROVE  Released'
<1>1. /\ log' = log /\ del' = del /\ \A c \in Batches \ {b} : Same(batch[c], batch'[c])
      /\ Inserted' = Inserted /\ InTable' \subseteq InTable /\ faults \subseteq faults'
  BY AdvanceQueued DEF Frame
<1>2. drained \in [Ids -> Nat] /\ drained' \in [Ids -> Nat] /\ \A i \in Ids : drained'[i] >= drained[i]
  BY DEF Frame, Later, IInv, TypeOK
<1>3. ASSUME NEW c \in Batches
      PROVE  DrainedBatch(batch[c])'
  <2>1. CASE c = b
    BY <2>1 DEF Own
  <2>2. CASE c # b
    <3>1. DrainedBatch(batch[c])
      BY DEF Released
    <3>2. Ingests(Worked(batch[c])) \subseteq Ids
      BY Part DEF Worked, IInv, TypeOK, BatchOK, BatchStates
    <3>3. Same(batch[c], batch'[c])
      BY <1>1, <2>2
    <3>4. (Ingests(Worked(batch[c])))' = Ingests(Worked(batch[c]))
      BY <1>1, <3>3, SameBatch DEF Ingests
    <3>5. /\ (Judges(batch[c]))' <=> Judges(batch[c])
          /\ batch'[c].upd = batch[c].upd
      BY <1>1, <3>3, SameBatch
    <3>6. ASSUME NEW i \in Ids, drained[i] > 0
          PROVE  drained'[i] > 0
      BY <1>2, <3>6
    <3> QED
      BY <3>1, <3>2, <3>4, <3>5, <3>6 DEF DrainedBatch
  <2> QED
    BY <2>1, <2>2
<1>4. (Ingests(InTable))' = Ingests(InTable') /\ Ingests(InTable') \subseteq Ingests(InTable)
  BY <1>1 DEF Ingests
<1>5. ASSUME NEW i \in Ingests(InTable')
      PROVE  QueuedLate(i)'
  <2> SUFFICES ASSUME del[log[i].doc] \in Cleaned
               PROVE  /\ ended'[i] \in {"open", "replaced"} \/ drained'[i] > 0
                      /\ \A c \in Batches : i \notin batch'[c].upd \cup batch'[c].failed
    BY <1>1 DEF QueuedLate
  <2>1. QueuedLate(i) /\ i \in Ids /\ i \in InTable /\ i \in InTable'
    BY <1>4, <1>5, Part DEF Released, InTable
  <2>2. /\ ended[i] \in {"open", "replaced"} \/ drained[i] > 0
        /\ \A c \in Batches : i \notin batch[c].upd \cup batch[c].failed
    BY <2>1 DEF QueuedLate
  <2>3. \A c \in Batches \ {b} : i \notin batch'[c].upd \cup batch'[c].failed
    BY <1>1, <2>2, SameBatch
  <2>4. CASE i \in batch[b].held
    <3>1. i \in Ingests(batch[b].held \cap InTable')
      BY <1>5, <2>4 DEF Ingests
    <3> QED
      BY <2>3, <3>1 DEF Own
  <2>5. CASE i \notin batch[b].held
    <3>1. i \notin batch'[b].upd \cup batch'[b].failed
      BY <2>5 DEF Frame
    <3>2. (ended[i] \in {"open", "replaced"} => ended'[i] = ended[i]) /\ drained'[i] = drained[i]
      BY <2>1, <2>5 DEF Frame, Alone, Settles
    <3> QED
      BY <2>2, <2>3, <3>1, <3>2
  <2> QED
    BY <2>4, <2>5
<1>6. ASSUME NEW i \in Ingests(InTable'), faults' = {}
      PROVE  ReleasedOnce(i)'
  BY <1>6, AdvanceOnce
<1>7. SlotReleased'
  <2> SUFFICES ASSUME NEW i \in Ingests(Inserted), i \notin InTable'
               PROVE  SlotDone(i)'
    <3>1. \A i \in Inserted : row'[i] = "absent" => i \notin InTable'
      BY DEF InTable
    <3> QED
      BY <1>1, <3>1 DEF SlotReleased, SlotDone, Inserted, Ingests
  <2>1. i \in Inserted /\ i \in Ids
    BY Part, InsertedIds DEF IInv, TypeOK
  <2>2. CASE i \in InTable
    <3>1. i \in batch[b].held
      BY <2>1, <2>2 DEF Frame, Alone
    <3> QED
      BY <2>2, <3>1 DEF Own
  <2>3. CASE i \notin InTable
    <3>1. SlotDone(i)
      BY <2>1, <2>3, Part DEF Released, SlotReleased, SlotDone, InTable, Inserted, Ingests
    <3>2. CASE i \in batch[b].held
      <4>1. ended[i] = "replaced"
        BY <2>3, <3>2 DEF Judged, JudgedBatch
      <4> QED
        BY <2>1, <4>1 DEF Frame, Later, SlotDone
    <3>3. CASE i \notin batch[b].held
      <4>1. (ended[i] = "replaced" => ended'[i] = ended[i]) /\ drained'[i] = drained[i]
        BY <2>1, <3>3 DEF Frame, Alone, Settles
      <4> QED
        BY <1>1, <3>1, <4>1 DEF SlotDone
    <3> QED
      BY <3>2, <3>3
  <2> QED
    BY <2>2, <2>3
<1> QED
  BY <1>3, <1>4, <1>5, <1>6, <1>7 DEF Released

\* How a retract has ended that has been carried out.
Carried == {"applied", "closed", "unlinked"}

\* Short of writing, a batch leaves the page, and what it is to write from now on
\* starts from the page as it is and adds no document that is gone.
Reads(b) ==
  /\ UNCHANGED <<page, copy, late, unversioned>>
  /\ Writing(batch'[b]) => Cites(batch'[b].base)
  /\ Writer(batch[b])' =>
       batch'[b].base = page \/ (Writer(batch[b]) /\ batch'[b].base = batch[b].base)
  /\ Adds(b)' \cap (gone \ late) = {}
  /\ \A i \in Ids : ended'[i] = "applied" => ended[i] = "applied"
  /\ ~Unguarded => \A d \in gone \ late : gone = {d} =>
       \A i \in Retracts(Inserted) : ended'[i] \in Carried =>
          ended[i] \in Carried \/ GoneForGood(d)

LEMMA StillUnguarded ==
  ASSUME unversioned => unversioned', faults \subseteq faults', unversioned \in BOOLEAN
  PROVE  Unguarded => Unguarded'
BY DEF Unguarded

LEMMA WriterOf ==
  ASSUME NEW b \in Batches, Frame(b), Reads(b), NEW c \in Batches, Writer(batch[c])'
  PROVE  batch'[c].base = page \/ (Writer(batch[c]) /\ batch'[c].base = batch[c].base)
<1>1. CASE c = b
  BY <1>1 DEF Reads
<1>2. CASE c # b
  <2>1. Same(batch[c], batch'[c]) /\ faults \subseteq faults'
    BY <1>2 DEF Frame
  <2> QED
    BY <2>1, SameWriter
<1> QED
  BY <1>1, <1>2

LEMMA GoodStays ==
  ASSUME NEW b \in Batches, Frame(b), Reads(b), NEW d, GoneForGood(d)
  PROVE  GoneForGood(d)'
<1>1. page' = page /\ d \notin page
  BY DEF Reads, GoneForGood
<1>2. ASSUME NEW c \in Batches, Writer(batch[c])'
      PROVE  d \notin batch'[c].base
  BY <1>1, <1>2, WriterOf DEF GoneForGood
<1> QED
  BY <1>1, <1>2 DEF GoneForGood

LEMMA AddsStay ==
  ASSUME NEW c \in Batches, log' = log, Same(batch[c], batch'[c])
  PROVE  Adds(c)' = Adds(c)
BY DEF Adds, Additions, Ingests, DocsOf, Same

LEMMA AdvancePage ==
  ASSUME FInv, TypeOK', NEW b \in Batches, Frame(b), Reads(b)
  PROVE  PageOK' /\ Current' /\ AppliedStays' /\ Retracted'
<1>1. /\ UNCHANGED <<log, gone, del, page, copy, late, unversioned>> /\ Inserted' = Inserted
      /\ \A c \in Batches \ {b} : Same(batch[c], batch'[c])
  BY AdvanceQueued DEF Frame, Reads, FInv, Fates
<1>2. ~Unguarded' => ~Unguarded
  BY <1>1, StillUnguarded DEF Frame, FInv, IInv, TypeOK
<1>3. ASSUME NEW c \in Batches, Writer(batch[c])'
      PROVE  batch'[c].base = page \/ (Writer(batch[c]) /\ batch'[c].base = batch[c].base)
  BY <1>3, WriterOf
<1>4. PageOK'
  <2>1. ASSUME NEW c \in Batches, Writing(batch'[c])
        PROVE  Cites(batch'[c].base)
    <3>1. CASE c = b
      BY <2>1, <3>1 DEF Reads
    <3>2. CASE c # b
      <4>1. Same(batch[c], batch'[c]) /\ faults \subseteq faults'
        BY <3>2 DEF Frame
      <4> QED
        BY <2>1, <4>1, SameWriter DEF FInv, Fates, PageOK
    <3> QED
      BY <3>1, <3>2
  <2>2. (\A c \in Batches : Writing(batch[c]) => Cites(batch[c].base))'
    BY <2>1 DEF Writing, Cites, NoPage
  <2>3. Cites(page)'
    BY <1>1 DEF FInv, Fates, PageOK, Cites, NoPage
  <2>4. (\A d \in Docs : del[d] = "fix" => copy[d].refs \subseteq Docs)'
    BY <1>1 DEF FInv, Fates, PageOK
  <2>5. ASSUME NEW d \in gone \ late, NEW c \in Batches
        PROVE  d \notin Adds(c)'
    <3>1. CASE c = b
      BY <3>1 DEF Reads
    <3>2. CASE c # b
      BY <1>1, <3>2, AddsStay DEF FInv, Fates, PageOK
    <3> QED
      BY <3>1, <3>2
  <2> QED
    BY <1>1, <2>2, <2>3, <2>4, <2>5 DEF PageOK
<1>5. Current'
  <2> SUFFICES ASSUME ~Unguarded'
               PROVE  (/\ page = NoPage => \A c \in Batches : Writer(batch[c]) => batch[c].base = NoPage
                       /\ (\A d \in Docs : del[d] \notin Fixed) =>
                            \A c \in Batches : Writer(batch[c]) => batch[c].base = page)'
    BY DEF Current
  <2>1. /\ page = NoPage => \A c \in Batches : Writer(batch[c]) => batch[c].base = NoPage
        /\ (\A d \in Docs : del[d] \notin Fixed) =>
             \A c \in Batches : Writer(batch[c]) => batch[c].base = page
    BY <1>2 DEF FInv, Fates, Current
  <2>2. ASSUME page = NoPage, NEW c \in Batches, Writer(batch[c])'
        PROVE  batch'[c].base = NoPage
    BY <1>3, <2>1, <2>2
  <2>3. ASSUME \A d \in Docs : del[d] \notin Fixed, NEW c \in Batches, Writer(batch[c])'
        PROVE  batch'[c].base = page
    BY <1>3, <2>1, <2>3
  <2> QED
    BY <1>1, <2>2, <2>3 DEF NoPage
<1>6. AppliedStays'
  <2>1. \A i \in Inserted : ended'[i] = "applied" => ended[i] = "applied"
    BY InsertedIds DEF Reads, FInv, IInv, TypeOK
  <2> QED
    BY <1>1, <1>2, <2>1 DEF FInv, Fates, AppliedStays, Inserted
<1>7. Retracted'
  <2> SUFFICES ASSUME ~Unguarded', NEW d \in gone \ late, gone = {d}
               PROVE  Retracting(d)'
    BY <1>1 DEF Retracted
  <2>1. Retracting(d)
    BY <1>2 DEF FInv, Fates, Retracted
  <2>2. ASSUME NEW i \in Retracts(Inserted), ended'[i] \in Carried
        PROVE  GoneForGood(d)
    <3>1. ended[i] \in Carried \/ GoneForGood(d)
      BY <1>2, <2>2 DEF Reads
    <3> QED
      BY <2>1, <3>1 DEF Retracting, Carried
  <2>3. (Retracts(Inserted))' = Retracts(Inserted)
    BY <1>1 DEF Retracts
  <2> QED
    BY <2>2, <2>3, GoodStays DEF Retracting, Carried
<1> QED
  BY <1>4, <1>5, <1>6, <1>7

\* What a batch does short of writing keeps the invariant.
LEMMA Advance ==
  ASSUME FInv, IInv', NEW b \in Batches, Frame(b), Own(b), Reads(b)
  PROVE  Fates'
BY AdvanceQueued, AdvanceJudged, AdvanceReleased, AdvancePage DEF FInv, Fates, IInv

LEMMA IdleFacts ==
  /\ Idle.pc = "idle" /\ Idle.held = {} /\ Idle.upd = {} /\ Idle.failed = {}
  /\ Idle.kept = {}
  /\ ~Judges(Idle) /\ ~Writing(Idle) /\ ~Writer(Idle)
BY DEF Idle, Judges, Writing, Writer

\* A batch that does not write adds nothing to the page.
LEMMA NothingToWrite ==
  ASSUME BatchOK, NEW b \in Batches, ~Writing(batch[b])
  PROVE  Adds(b) = {} /\ ~Writer(batch[b])
<1>1. batch[b].kept = {}
  BY DEF BatchOK, Consistent, Writing
<1> QED
  BY <1>1 DEF Adds, Additions, Ingests, DocsOf, Writer, Writing

LEMMA NothingToWriteNext ==
  ASSUME IInv', NEW b \in Batches, ~Writing(batch'[b])
  PROVE  Adds(b)' = {} /\ ~Writer(batch[b])'
<1>1. batch'[b].kept = {}
  BY DEF IInv, TypeOK, BatchOK, Consistent, Writing
<1> QED
  BY <1>1 DEF Adds, Additions, Ingests, DocsOf, Writer, Writing

\* A batch stops: the rows it lets go are decided on, and their slots released.
Lets(b) ==
  /\ UNCHANGED <<log, service, page, unversioned>> /\ faults \subseteq faults'
  /\ ended' \in [Ids -> EndStates] /\ \A i \in Ids : Mistakes(i)
  /\ \A i \in Ids : Later(i)
  /\ \A i \in Ids \ batch[b].held : Alone(i)
  /\ \A i \in Ids : ended'[i] \in Carried => ended'[i] = ended[i]
  /\ \A i \in (batch[b].held \cap InTable) \ InTable' :
       ended'[i] # "open" /\ (i \in Ingests(Inserted) => SlotDone(i)')
  /\ \A i \in Ingests(batch[b].held \cap InTable') :
       /\ ended'[i] = ended[i] \/ ended'[i] = "replaced"
       /\ faults' = {} => Untouched(i)'

LEMMA Stops ==
  ASSUME FInv, IInv', NEW b \in Batches, batch' = [batch EXCEPT ![b] = Idle], Lets(b)
  PROVE  Fates'
<1>1. /\ batch'[b] = Idle /\ \A c \in Batches \ {b} : batch'[c] = batch[c]
  BY DEF FInv, IInv, TypeOK, BatchOK
<1>2. /\ batch'[b].pc = "idle" /\ batch'[b].held = {} /\ batch'[b].upd = {}
      /\ batch'[b].failed = {} /\ ~Judges(batch'[b]) /\ ~Writing(batch'[b])
  BY <1>1, IdleFacts
<1>3. /\ UNCHANGED <<log, plan, gone, del, copy, late, page, unversioned>> /\ faults \subseteq faults'
  BY DEF Lets, service
<1>4. Frame(b)
  <2>1. \A c \in Batches \ {b} : Same(batch[c], batch'[c])
    BY <1>1 DEF Same
  <2> QED
    BY <1>2, <1>3, <2>1 DEF Lets, Frame
<1>5. Reads(b)
  <2>1. Adds(b)' = {} /\ ~Writer(batch[b])'
    BY <1>2, NothingToWriteNext
  <2> QED
    BY <1>2, <1>3, <2>1, InsertedIds DEF Lets, Reads, Retracts, Carried, FInv, IInv, TypeOK
<1>6. Own(b)
  <2>1. JudgedBatch(batch[b])' /\ DrainedBatch(batch[b])'
    BY <1>2 DEF JudgedBatch, DrainedBatch, Judges
  <2>2. ASSUME NEW i \in Ingests(batch[b].held \cap InTable'),
               del[log[i].doc] \in Cleaned
        PROVE  /\ ended'[i] \in {"open", "replaced"} \/ drained'[i] > 0
               /\ i \notin batch'[b].upd \cup batch'[b].failed
    <3>1. i \in Ids /\ i \in InTable
      BY Part DEF Lets, Later, InTable
    <3>2. i \in Ingests(InTable)
      BY <3>1 DEF Ingests
    <3>3. ended[i] \in {"open", "replaced"} \/ drained[i] > 0
      BY <2>2, <3>2 DEF FInv, Fates, Released, QueuedLate
    <3>4. drained'[i] >= drained[i] /\ drained[i] \in Nat /\ drained'[i] \in Nat
      BY <3>1 DEF Lets, Later, FInv, IInv, TypeOK
    <3>5. ended'[i] = ended[i] \/ ended'[i] = "replaced"
      BY DEF Lets
    <3> QED
      BY <1>2, <3>3, <3>4, <3>5
  <2>3. ASSUME NEW i \in Ingests(batch[b].held \cap InTable'), faults' = {}
        PROVE  OnceBy(i, b)'
    <3>1. Untouched(i)'
      BY <2>3 DEF Lets
    <3> QED
      BY <1>2, <3>1 DEF OnceBy, Judges
  <2> QED
    BY <1>3, <2>1, <2>2, <2>3 DEF Own, Lets
<1> QED
  BY <1>4, <1>5, <1>6, Advance

\* A step that decides on no row and touches no batch and no page.
LEMMA Aside ==
  ASSUME FInv, IInv', InTable' = InTable, faults \subseteq faults',
         UNCHANGED <<log, service, page, unversioned, batch, ended, drained>>
  PROVE  Fates'
<1>1. /\ UNCHANGED <<log, plan, gone, del, copy, late, page, unversioned, batch, ended, drained>>
      /\ InTable' = InTable /\ Inserted' = Inserted
  BY DEF service, Inserted
<1>2. \A i \in Ids : row'[i] = "absent" <=> row[i] = "absent"
  BY DEF InTable
<1>3. Inserted \subseteq Ids
  BY InsertedIds DEF FInv, IInv, TypeOK
<1>4. Queued'
  <2>1. Queued
    BY DEF FInv, Fates
  <2> QED
    BY <1>1, <1>2, <1>3, <2>1 DEF Queued, Ingests, Retracts
<1>5. Decided' /\ SlotReleased'
  BY <1>1, <1>2, <1>3 DEF FInv, Fates, Judged, Released, Decided, SlotReleased, Inserted
<1>6. (\A c \in Batches : JudgedBatch(batch[c]))'
  BY <1>1 DEF FInv, Fates, Judged, JudgedBatch, Judges, Writing, Worked, Pending, Canonical
<1>7. (\A c \in Batches : DrainedBatch(batch[c]))'
  BY <1>1 DEF FInv, Fates, Released, DrainedBatch, Judges, Writing, Worked, Canonical, Ingests
<1>8. ASSUME NEW i \in Ingests(InTable)
      PROVE  QueuedLate(i)' /\ (faults' = {} => ReleasedOnce(i)')
  <2>1. QueuedLate(i)'
    BY <1>1 DEF FInv, Fates, Released, QueuedLate
  <2>2. ASSUME faults' = {} PROVE ReleasedOnce(i)'
    <3>1. ReleasedOnce(i)
      BY <2>2 DEF FInv, Fates, Released
    <3> QED
      BY <1>1, <3>1 DEF ReleasedOnce, Untouched, Judges, Writing, Worked, Canonical
  <2> QED
    BY <2>1, <2>2
<1>9. PageOK'
  <2>1. \A c \in Batches : Adds(c)' = Adds(c) /\ (Writing(batch[c]))' = Writing(batch[c])
    BY <1>1 DEF Adds, Additions, DocsOf, Ingests, Writing
  <2>2. Cites(page)' = Cites(page) /\ \A c \in Batches : Cites(batch[c].base)' = Cites(batch[c].base)
    BY <1>1 DEF Cites, NoPage
  <2> QED
    BY <1>1, <2>1, <2>2 DEF FInv, Fates, PageOK
<1>10. Current' /\ AppliedStays' /\ Retracted'
  <2>1. ~Unguarded' => ~Unguarded
    BY <1>1, StillUnguarded DEF FInv, IInv, TypeOK
  <2>2. \A c \in Batches : Writer(batch[c])' => Writer(batch[c])
    BY <1>1, SameWriter DEF Same
  <2>3. Current'
    BY <1>1, <2>1, <2>2 DEF FInv, Fates, Current, NoPage
  <2>4. \A d : GoneForGood(d) => GoneForGood(d)'
    BY <1>1, <2>2 DEF GoneForGood
  <2>5. (Retracts(Inserted))' = Retracts(Inserted)
    BY <1>1 DEF Retracts
  <2>6. Retracted'
    BY <1>1, <2>1, <2>4, <2>5 DEF FInv, Fates, Retracted, Retracting
  <2> QED
    BY <1>1, <2>1, <2>3, <2>6 DEF FInv, Fates, AppliedStays
<1>11. (Ingests(InTable))' = Ingests(InTable)
  BY <1>1 DEF Ingests
<1> QED
  BY <1>4, <1>5, <1>6, <1>7, <1>8, <1>9, <1>10, <1>11 DEF Fates, Judged, Released

\* Nobody but the holder of a row in the table has worked on it.
LEMMA OnceHeld ==
  ASSUME FInv, faults = {}, NEW b \in Batches, NEW i \in Ingests(InTable), i \in batch[b].held
  PROVE  OnceBy(i, b)
<1>1. ReleasedOnce(i) /\ i \in InTable
  BY Part DEF FInv, Fates, Released
<1>2. ASSUME NEW c \in Batches, c # b PROVE i \notin Worked(batch[c])
  <2>1. i \notin batch[c].held
    BY <1>1, <1>2 DEF FInv, IInv, ClaimsDisjoint
  <2> QED
    BY <2>1, WorkedHeld
<1> QED
  BY <1>1, <1>2 DEF ReleasedOnce, OnceBy

\* A batch that has decided on nothing yet touches no row.
LEMMA Rests ==
  ASSUME FInv, IInv', NEW b \in Batches, NEW s, batch' = [batch EXCEPT ![b] = s],
         s.pc \in {"idle", "claim", "map"}, s.upd = {}, s.failed = {},
         batch[b].pc \in {"idle", "claim"},
         \A i \in s.held \ InTable : ended[i] = "replaced",
         InTable' = InTable,
         UNCHANGED <<log, service, page, unversioned, ended, drained, faults>>
  PROVE  Fates'
<1>1. /\ batch'[b] = s /\ \A c \in Batches \ {b} : batch'[c] = batch[c]
      /\ ~Judges(batch'[b]) /\ ~Judges(batch[b]) /\ ~Writing(batch'[b])
  BY DEF FInv, IInv, TypeOK, BatchOK, Judges, Writing
<1>2. /\ UNCHANGED <<log, plan, gone, del, copy, late, page, unversioned>>
      /\ ended \in [Ids -> EndStates] /\ drained \in [Ids -> Nat]
  BY DEF service, FInv, Fates, Queued, IInv, TypeOK
<1>3. Frame(b)
  <2>1. \A c \in Batches \ {b} : Same(batch[c], batch'[c])
    BY <1>1 DEF Same
  <2>2. \A i \in Ids : Later(i) /\ Alone(i) /\ Mistakes(i)
    BY <1>2 DEF Later, Alone, Settles, Mistakes, FInv, Fates, Queued
  <2> QED
    BY <1>1, <1>2, <2>1, <2>2 DEF Frame
<1>4. Reads(b)
  <2>1. Adds(b)' = {} /\ ~Writer(batch[b])'
    BY <1>1, NothingToWriteNext
  <2> QED
    BY <1>1, <1>2, <2>1, InsertedIds DEF Reads, FInv, IInv, TypeOK
<1>5. Own(b)
  <2>1. JudgedBatch(batch[b])' /\ DrainedBatch(batch[b])'
    BY <1>1 DEF JudgedBatch, DrainedBatch, Judges
  <2>2. ASSUME NEW i \in Ingests(batch[b].held \cap InTable')
        PROVE  /\ del[log[i].doc] \in Cleaned =>
                    /\ ended'[i] \in {"open", "replaced"} \/ drained'[i] > 0
                    /\ i \notin batch'[b].upd \cup batch'[b].failed
               /\ faults' = {} => OnceBy(i, b)'
    <3>1. i \in Ingests(InTable) /\ i \in InTable /\ i \in batch[b].held
      BY DEF Ingests
    <3>2. QueuedLate(i)
      BY <3>1 DEF FInv, Fates, Released
    <3>4. faults = {} => Untouched(i)
      BY <1>1, <3>1, OnceHeld DEF OnceBy
    <3>5. faults' = {} => OnceBy(i, b)'
      BY <1>1, <3>4 DEF OnceBy, Untouched, Judges
    <3> QED
      BY <1>1, <3>2, <3>5 DEF QueuedLate
  <2> QED
    BY <1>2, <2>1, <2>2 DEF Own
<1> QED
  BY <1>3, <1>4, <1>5, Advance

LEMMA StartFates ==
  ASSUME FInv, IInv', NEW b \in Batches, Start(b)
  PROVE  Fates'
<1>1. ASSUME NEW k \in Kinds, TurnedAway(b, k)
      PROVE  Fates'
  <2>1. UNCHANGED <<log, service, page, unversioned, batch, ended, drained, faults>> /\ InTable' = InTable
    BY <1>1 DEF TurnedAway, table, wiki, ghosts, InTable
  <2> QED
    BY <2>1, Aside
<1>2. ASSUME NEW k \in Kinds, Begin(b, k)
      PROVE  Fates'
  <2> DEFINE s == Begun(batch[b], k, Candidates)
  <2>1. /\ UNCHANGED <<log, service, page, unversioned, ended, drained, faults>> /\ InTable' = InTable
        /\ batch' = [batch EXCEPT ![b] = s] /\ batch[b].pc = "idle"
    BY <1>2 DEF Begin, table, wiki, ghosts, InTable, Begun
  <2>2. batch[b] \in BatchStates /\ Candidates \in SUBSET Docs /\ Consistent(batch[b])
    BY CandidatesType DEF FInv, IInv, TypeOK, BatchOK
  <2>3. Like(s, "claim", batch[b].held, batch[b].upd, batch[b].stale,
                  batch[b].failed, batch[b].kept)
    BY <2>2, BegunType
  <2> HIDE DEF s
  <2>4. s.pc = "claim" /\ s.upd = {} /\ s.failed = {} /\ s.held = batch[b].held
    BY <2>1, <2>2, <2>3 DEF Like, Consistent
  <2>5. \A i \in s.held \ InTable : ended[i] = "replaced"
    BY <2>4 DEF FInv, Fates, Judged, JudgedBatch
  <2> QED
    BY <2>1, <2>4, <2>5, Rests
<1> QED
  BY <1>1, <1>2 DEF Start

LEMMA ClaimFates ==
  ASSUME FInv, IInv', NEW b \in Batches, ClaimBatch(b) \/ NothingToClaim(b)
  PROVE  Fates'
<1>1. CASE ClaimBatch(b)
  <2> DEFINE rows == Claimable(batch[b].keys)
             s == Claimed(batch[b], rows)
  <2>1. /\ UNCHANGED <<log, service, page, unversioned, ended, drained, faults>>
        /\ batch' = [batch EXCEPT ![b] = s] /\ batch[b].pc = "claim"
        /\ row' = [i \in Ids |-> IF i \in rows THEN "fresh" ELSE row[i]]
    BY <1>1 DEF ClaimBatch, wiki, ghosts, Claimed
  <2>2. batch[b] \in BatchStates /\ Consistent(batch[b]) /\ rows \subseteq InTable /\ rows \in SUBSET Ids
    BY ClaimableType DEF FInv, IInv, TypeOK, BatchOK, InTable
  <2>3. Like(s, "map", rows, batch[b].upd, batch[b].stale, batch[b].failed, batch[b].kept)
    BY <2>2, ClaimedType
  <2>4. InTable' = InTable
    BY <2>1, <2>2 DEF InTable
  <2> HIDE DEF s, rows
  <2>5. s.pc = "map" /\ s.upd = {} /\ s.failed = {} /\ s.held = rows
    BY <2>1, <2>2, <2>3 DEF Like, Consistent
  <2> QED
    BY <2>1, <2>2, <2>4, <2>5, Rests
<1>2. CASE NothingToClaim(b)
  <2>1. /\ UNCHANGED <<log, service, page, unversioned, ended, drained, faults>> /\ InTable' = InTable
        /\ batch' = [batch EXCEPT ![b] = Idle] /\ batch[b].pc = "claim"
    BY <1>2 DEF NothingToClaim, table, wiki, ghosts, InTable
  <2> QED
    BY <2>1, IdleFacts, Rests
<1> QED
  BY <1>1, <1>2

LEMMA TimeFates ==
  ASSUME FInv, IInv', (\E i \in Ids : ClaimGoesStale(i)) \/ LockExpires \/ LeaseExpires
  PROVE  Fates'
<1>1. /\ UNCHANGED <<log, service, page, unversioned, batch, ended, drained>>
      /\ faults \subseteq faults' /\ InTable' = InTable
  <2>1. ASSUME NEW i \in Ids, ClaimGoesStale(i)
        PROVE  /\ UNCHANGED <<log, service, page, unversioned, batch, ended, drained>>
               /\ faults \subseteq faults' /\ InTable' = InTable
    BY <2>1 DEF ClaimGoesStale, wiki, ghosts, InTable, FInv, IInv, TypeOK, TableOK
  <2>2. CASE LockExpires
    BY <2>2 DEF LockExpires, table, tasks, Fault, InTable
  <2>3. CASE LeaseExpires
    BY <2>3 DEF LeaseExpires, table, wiki, ghosts, InTable
  <2> QED
    BY <2>1, <2>2, <2>3
<1> QED
  BY <1>1, Aside


\* The rows in I come to an end, or to another one; what had ended stays so.
Ends(I) ==
  /\ ended' \in [Ids -> EndStates]
  /\ \A i \in Ids : ended[i] = "replaced" => ended'[i] = "replaced"
  /\ \A i \in I : ended'[i] # "open"
  /\ \A i \in Ids \ I : Settles(i)
  /\ \A i \in Ids : Mistakes(i)

\* From the reduce phase on, a batch ends the updates in I one way or another and
\* keeps the others, or collects those it could not make.
Proceeds(b, I) ==
  /\ batch[b].pc = "reduce" \/ Writing(batch[b])
  /\ batch'[b].pc = "settle" \/ Writing(batch'[b])
  /\ batch'[b].held = batch[b].held /\ batch'[b].upd = batch[b].upd
  /\ batch[b].failed \subseteq batch'[b].failed
  /\ batch'[b].failed \subseteq batch[b].failed \cup batch[b].upd
  /\ batch'[b].pc # "settle" => batch'[b].failed = batch[b].failed
  /\ batch[b].pc = "reduce" \/ batch'[b].failed = batch[b].failed
  /\ \A c \in Batches \ {b} : Same(batch[c], batch'[c])
  /\ UNCHANGED <<log, plan, gone, del, drained>> /\ InTable' = InTable
  /\ faults \subseteq faults'
  /\ Ends(I)
  /\ I \subseteq batch[b].upd /\ I \cap batch'[b].failed = {}
  /\ Pending(batch[b]) \subseteq (IF batch'[b].pc = "settle" THEN {} ELSE batch'[b].kept)
                                   \cup I \cup batch'[b].failed

LEMMA ProceedsOwn ==
  ASSUME FInv, IInv', NEW b \in Batches, NEW I, Proceeds(b, I)
  PROVE  Frame(b) /\ Own(b)
<1> DEFINE held == batch[b].held
           upd == batch[b].upd
           failed == batch'[b].failed
<1>0. /\ held \subseteq Ids /\ upd \cup failed \subseteq held /\ I \subseteq Ids
      /\ ended \in [Ids -> EndStates] /\ drained \in [Ids -> Nat]
      /\ upd \cup batch[b].failed \subseteq Canonical(held)
  BY DEF Proceeds, FInv, IInv, TypeOK, BatchOK, BatchStates, Consistent,
         Fates, Queued, Judged, JudgedBatch
<1>1. Ends(I) /\ batch[b].pc # "settle" /\ batch'[b].pc # "reduce"
  BY DEF Proceeds, Writing
<1>2. Frame(b)
  <2>1. ended' \in [Ids -> EndStates] /\ \A i \in Ids : Mistakes(i)
    BY <1>1 DEF Ends
  <2>2. \A i \in Ids : Later(i)
    <3> TAKE i \in Ids
    <3>1. ended[i] # "open" => ended'[i] # "open"
      BY <1>1 DEF Ends, Settles
    <3> QED
      BY <1>0, <1>1, <3>1 DEF Proceeds, Later, Ends
  <2>3. \A i \in Ids \ held : Alone(i)
    BY <1>0, <1>1 DEF Proceeds, Alone, Ends
  <2> QED
    BY <1>0, <2>1, <2>2, <2>3 DEF Proceeds, Frame
<1>3. (Worked(batch[b]))' = Canonical(held) \ failed
  BY DEF Worked, Canonical, Proceeds
<1>4. (Pending(batch[b]))' = batch'[b].kept
  BY <1>1 DEF Pending
<1>5. JudgedBatch(batch[b])'
  <2>1. (/\ batch[b].upd \cup batch[b].failed \subseteq Canonical(batch[b].held)
         /\ batch[b].pc # "settle" => batch[b].upd \cap batch[b].failed = {})'
    <3>1. (Canonical(batch[b].held))' = Canonical(held)
      BY DEF Canonical, Proceeds
    <3>2. upd \cap batch[b].failed = {}
      BY <1>1 DEF FInv, Fates, Judged, JudgedBatch
    <3> QED
      BY <1>0, <3>1, <3>2 DEF Proceeds
  <2>2. ASSUME NEW i \in Canonical(held) \ failed, i \notin batch'[b].kept
        PROVE  ended'[i] # "open"
    <3>1. i \in Ids /\ i \in Worked(batch[b])
      BY <1>0, Part DEF Worked, Proceeds
    <3>2. CASE i \in I
      BY <1>1, <3>2 DEF Ends
    <3>3. CASE i \notin I
      <4>1. i \notin Pending(batch[b])
        BY <2>2, <3>3 DEF Proceeds
      <4>2. ended[i] # "open"
        BY <3>1, <4>1 DEF Proceeds, Judges, FInv, Fates, Judged, JudgedBatch
      <4> QED
        BY <1>1, <3>1, <3>3, <4>2 DEF Ends, Settles
    <3> QED
      BY <3>2, <3>3
  <2>3. (\A i \in batch[b].held \ InTable : ended[i] = "replaced")'
    BY <1>0, <1>1 DEF Proceeds, Ends, FInv, Fates, Judged, JudgedBatch
  <2> QED
    BY <1>3, <1>4, <2>1, <2>2, <2>3 DEF JudgedBatch
<1>6. DrainedBatch(batch[b])'
  <2>1. (Ingests(Worked(batch[b])))' \subseteq Ingests(Worked(batch[b]))
    BY <1>3 DEF Ingests, Proceeds, Worked
  <2>2. \A i \in Ingests(Worked(batch[b])) \ upd : drained[i] > 0
    BY DEF Proceeds, Judges, FInv, Fates, Released, DrainedBatch
  <2> QED
    BY <2>1, <2>2 DEF DrainedBatch, Proceeds
<1>7. ASSUME NEW i \in Ingests(held \cap InTable')
      PROVE  /\ i \in Ids /\ i \in InTable /\ i \in held /\ i \in Ingests(InTable)
             /\ QueuedLate(i)
  <2>1. i \in InTable /\ i \in held /\ i \in Ingests(InTable)
    BY DEF Ingests, Proceeds
  <2> QED
    BY <1>0, <2>1 DEF FInv, Fates, Released
<1>8. ASSUME NEW i \in Ingests(held \cap InTable'), del[log[i].doc] \in Cleaned
      PROVE  /\ ended'[i] \in {"open", "replaced"} \/ drained'[i] > 0
             /\ i \notin batch'[b].upd \cup batch'[b].failed
  <2>1. /\ ended[i] \in {"open", "replaced"} \/ drained[i] > 0
        /\ i \notin upd \cup batch[b].failed
    BY <1>7, <1>8 DEF QueuedLate
  <2>2. i \notin I /\ Settles(i)
    BY <1>1, <1>7, <2>1 DEF Proceeds, Ends
  <2> QED
    BY <1>7, <2>1, <2>2 DEF Proceeds, Settles
<1>9. ASSUME NEW i \in Ingests(held \cap InTable'), faults' = {}
      PROVE  OnceBy(i, b)'
  <2>1. OnceBy(i, b)
    BY <1>7, <1>9, OnceHeld DEF Proceeds
  <2>2. CASE i \in Canonical(held) \ failed
    <3>1. i \in Worked(batch[b])
      BY <2>2 DEF Worked, Proceeds
    <3>2. drained'[i] = IF i \in batch'[b].upd THEN 0 ELSE 1
      BY <2>1, <3>1 DEF Proceeds, Judges, OnceBy
    <3>3. Judges(batch[b])' /\ batch'[b].pc # "reduce" /\ (i \in Worked(batch[b]))'
      BY <1>1, <1>3, <2>2 DEF Proceeds, Judges, Writing
    <3> QED
      BY <3>2, <3>3 DEF OnceBy
  <2>3. CASE i \notin Canonical(held) \ failed
    <3>1. i \notin I
      BY <1>0, <2>3 DEF Proceeds
    <3>2. Untouched(i)
      <4>1. CASE i \in Worked(batch[b])
        <5>1. batch[b].pc = "reduce" /\ i \in upd
          BY <2>3, <4>1, Part DEF Proceeds, Worked
        <5> QED
          BY <2>1, <4>1, <5>1 DEF OnceBy, Judges, Untouched
      <4>2. CASE i \notin Worked(batch[b])
        BY <2>1, <4>2 DEF OnceBy
      <4> QED
        BY <4>1, <4>2
    <3>3. Untouched(i)'
      BY <1>1, <1>7, <3>1, <3>2 DEF Untouched, Proceeds, Ends, Settles
    <3> QED
      BY <1>3, <2>3, <3>3 DEF OnceBy
  <2> QED
    BY <2>2, <2>3
<1> QED
  BY <1>2, <1>5, <1>6, <1>8, <1>9 DEF Own, Proceeds

LEMMA OneBatchSame ==
  ASSUME BatchOK, NEW b \in Batches, NEW s, batch' = [batch EXCEPT ![b] = s]
  PROVE  batch'[b] = s /\ \A c \in Batches \ {b} : Same(batch[c], batch'[c])
BY DEF BatchOK, Same

LEMMA SlugBusyFates ==
  ASSUME FInv, IInv', NEW b \in Batches, SlugBusy(b)
  PROVE  Fates'
<1> DEFINE s == Collected(batch[b], batch[b].failed \cup batch[b].upd)
<1>1. /\ batch[b].pc = "reduce" /\ batch' = [batch EXCEPT ![b] = s]
      /\ UNCHANGED <<log, row, plan, gone, del, copy, late, page, unversioned, drained, ended, faults>>
  BY DEF SlugBusy, Collected, table, service, wiki, ghosts
<1>2. /\ batch[b] \in BatchStates /\ batch[b].failed \cup batch[b].upd \in SUBSET Ids
      /\ Consistent(batch[b]) /\ BatchOK /\ ended \in [Ids -> EndStates]
  BY DEF FInv, IInv, TypeOK, BatchOK, BatchStates, Fates, Queued
<1>3. Like(s, "settle", batch[b].held, batch[b].upd, batch[b].stale,
           batch[b].failed \cup batch[b].upd, batch[b].kept)
  BY <1>2, CollectedType
<1> HIDE DEF s
<1>4. batch'[b] = s /\ \A c \in Batches \ {b} : Same(batch[c], batch'[c])
  BY <1>1, <1>2, OneBatchSame
<1>5. Ends({})
  BY <1>1, <1>2 DEF Ends, Settles, Mistakes, FInv, Fates, Queued
<1>6. InTable' = InTable
  BY <1>1 DEF InTable
<1>7. Proceeds(b, {})
  BY <1>1, <1>2, <1>3, <1>4, <1>5, <1>6 DEF Proceeds, Like, Pending
<1>8. Reads(b)
  <2>1. ~Writing(batch'[b])
    BY <1>3, <1>4 DEF Like, Writing
  <2> QED
    BY <1>1, <2>1, NothingToWriteNext, InsertedIds, Part DEF Reads, FInv, IInv, TypeOK
<1> QED
  BY <1>7, <1>8, ProceedsOwn, Advance


LEMMA KeepingBase ==
  ASSUME NEW s \in BatchStates, NEW kept, NEW base, NEW moved, NEW locked
  PROVE  /\ Keeping(s, kept, base, moved, locked).base = base
         /\ Keeping(s, kept, base, moved, locked).moved = moved
BY DEF BatchStates, Keeping

LEMMA ReadFates ==
  ASSUME FInv, IInv', NEW b \in Batches, NEW locked \in BOOLEAN, Read(b, locked)
  PROVE  Fates'
<1>1. PICK misread \in SUBSET Additions(batch[b], filterLiveUpdates(b)),
           seen \in BOOLEAN : LastLook(b, locked, misread, seen)
  BY DEF Read
<1> DEFINE upd   == batch[b].upd
           live  == filterLiveUpdates(b) \ misread
           found == IF seen THEN page ELSE NoPage
           idle  == IF found = NoPage THEN Additions(batch[b], live) = {} ELSE live = {}
           kept  == IF idle THEN {} ELSE live
           missed == misread \cup (IF seen THEN {} ELSE live \ kept)
           I == upd \ kept
           s == IF idle THEN Moot(batch[b]) ELSE Keeping(batch[b], kept, found, ~seen, locked)
<1>2. /\ batch[b].pc = "reduce" /\ batch' = [batch EXCEPT ![b] = s]
      /\ MarkTwo(missed, "mistaken", I, "closed")
      /\ Suffers(DbError(misread # {} \/ ~seen) \cup (IF locked THEN {} ELSE {"redis"}))
      /\ UNCHANGED <<log, row, plan, gone, del, copy, late, page, unversioned, drained>>
  BY <1>1, Zenon DEF LastLook, Moot, Keeping, table, service
<1>3. faults \subseteq faults' /\ (misread # {} \/ ~seen => "db" \in faults')
  BY <1>2 DEF Suffers, DbError
<1>4. /\ batch[b] \in BatchStates /\ upd \in SUBSET Ids /\ upd \subseteq Inserted
      /\ Consistent(batch[b]) /\ BatchOK /\ ended \in [Ids -> EndStates]
      /\ page \in SUBSET (Docs \cup {NoDoc}) /\ upd \cap batch[b].failed = {}
      /\ \A i \in Ids : ended[i] = "mistaken" => "db" \in faults
  <2>1. JudgedBatch(batch[b]) /\ BatchOK /\ Queued
    BY DEF FInv, Fates, Judged, IInv, TypeOK
  <2> QED
    BY <1>2, <2>1 DEF FInv, IInv, TypeOK, BatchOK, BatchStates, Queued, Consistent,
       JudgedBatch, Inserted
<1>5. /\ live \subseteq upd /\ kept \subseteq live /\ missed \subseteq I
      /\ live \cap misread = {}
  <2>1. filterLiveUpdates(b) \subseteq upd
    BY DEF filterLiveUpdates
  <2>2. misread \subseteq filterLiveUpdates(b)
    BY DEF Additions, Ingests
  <2> QED
    BY <2>1, <2>2
<1>6. \A i \in Additions(batch[b], kept) : log[i].doc \notin gone
  <2>1. \A i \in Additions(batch[b], upd) : isKnowledgeGone(log[i].doc) =>
          i \notin filterLiveUpdates(b)
    BY DEF filterLiveUpdates
  <2>2. Additions(batch[b], kept) \subseteq Additions(batch[b], upd) \cap filterLiveUpdates(b)
    BY <1>5 DEF Additions, Ingests
  <2> QED
    BY <2>1, <2>2 DEF isKnowledgeGone
<1>7. \A i \in Retracts(upd) : i \in live
  <2>1. \A i \in Retracts(upd) : i \notin Additions(batch[b], upd) /\ i \in upd
    BY DEF Additions, Ingests, Retracts
  <2>2. \A i \in Retracts(upd) : i \in filterLiveUpdates(b)
    BY <2>1 DEF filterLiveUpdates
  <2>3. \A i \in Retracts(upd) : i \notin misread
    BY DEF Additions, Ingests, Retracts
  <2> QED
    BY <2>2, <2>3
<1>8. ASSUME NEW i \in Retracts(upd), i \notin kept, i \notin missed
      PROVE  page = NoPage
  <2>1. i \in live \ kept
    BY <1>7, <1>8
  <2>2. seen /\ idle /\ live # {}
    BY <1>8, <2>1
  <2> QED
    BY <2>2
<1>9. found \in {page, NoPage} /\ (seen => found = page) /\ found \in SUBSET (Docs \cup {NoDoc})
      /\ (~seen) \in BOOLEAN /\ missed \subseteq upd
      /\ (missed # {} => misread # {} \/ ~seen)
  BY <1>4, <1>5 DEF NoPage
<1> HIDE DEF live, found, kept, missed
<1>10. kept \in SUBSET Ids
  BY <1>4, <1>5
<1>11. idle => Like(s, "settle", batch[b].held, upd, batch[b].stale, batch[b].failed, batch[b].kept)
  BY <1>4, MootType
<1>12. ~idle => /\ Like(s, "write", batch[b].held, upd, batch[b].stale, batch[b].failed, kept)
                /\ s.base = found /\ s.moved = ~seen
  <2>1. Like(Keeping(batch[b], kept, found, ~seen, locked), "write", batch[b].held, upd,
             batch[b].stale, batch[b].failed, kept)
    BY <1>4, <1>9, <1>10, KeepingType
  <2> QED
    BY <1>4, <2>1, KeepingBase
<1>13. idle => kept = {}
  BY DEF kept
<1> HIDE DEF s, idle
<1>14. batch'[b] = s /\ \A c \in Batches \ {b} : Same(batch[c], batch'[c])
  BY <1>2, <1>4, OneBatchSame
<1>15. InTable' = InTable
  BY <1>2 DEF InTable
<1>16. \A i \in Ids : ended'[i] = IF ended[i] = "replaced" THEN ended[i]
                                  ELSE IF i \in missed THEN "mistaken"
                                  ELSE IF i \in I THEN "closed" ELSE ended[i]
  BY <1>2 DEF MarkTwo
<1>17. Ends(I)
  <2>1. ended' \in [Ids -> EndStates]
    BY <1>2, <1>4 DEF MarkTwo, EndStates
  <2>2. \A i \in Ids : Mistakes(i)
    BY <1>3, <1>4, <1>9, <1>16 DEF Mistakes
  <2>3. \A i \in Ids \ I : Settles(i)
    BY <1>5, <1>16 DEF Settles
  <2>4. \A i \in I : ended'[i] # "open"
    BY <1>4, <1>16
  <2> QED
    BY <1>16, <2>1, <2>2, <2>3, <2>4 DEF Ends
<1>18. Proceeds(b, I)
  <2>1. CASE idle
    BY <1>2, <1>3, <1>4, <1>11, <1>13, <1>14, <1>15, <1>17, <2>1 DEF Proceeds, Like, Pending
  <2>2. CASE ~idle
    BY <1>2, <1>3, <1>4, <1>12, <1>14, <1>15, <1>17, <2>2 DEF Proceeds, Like, Pending, Writing
  <2> QED
    BY <2>1, <2>2
<1>19. ASSUME ~Unguarded, NEW d \in gone \ late, NEW i \in Retracts(Inserted),
              ended'[i] \in Carried, ended[i] \notin Carried
       PROVE  GoneForGood(d)
  <2>1. i \in I /\ i \notin missed /\ i \in Ids /\ log[i].op = "retract"
    BY <1>16, <1>19, InsertedIds DEF Retracts, Carried, FInv, IInv, TypeOK
  <2>2. i \in Retracts(upd) /\ i \notin kept
    BY <2>1 DEF Retracts
  <2>3. page = NoPage
    BY <1>8, <2>1, <2>2
  <2>4. d # NoDoc
    BY WikiAssumption DEF FInv, IInv, TypeOK
  <2> QED
    BY <1>19, <2>3, <2>4 DEF GoneForGood, FInv, Fates, Current, NoPage
<1>20. /\ Writing(batch'[b]) => Cites(batch'[b].base)
       /\ Writer(batch[b])' => batch'[b].base = page
       /\ Adds(b)' \cap (gone \ late) = {}
  <2>1. CASE idle
    <3>1. ~Writing(batch'[b])
      BY <1>11, <1>14, <2>1 DEF Like, Writing
    <3> QED
      BY <3>1, NothingToWriteNext
  <2>2. CASE ~idle
    <3>1. /\ batch'[b].pc = "write" /\ batch'[b].base = found /\ batch'[b].moved = ~seen
          /\ batch'[b].stale = batch[b].stale /\ batch'[b].kept = kept
      BY <1>12, <1>14, <2>2 DEF Like
    <3>2. Cites(found)
      BY <1>9 DEF Cites, FInv, Fates, PageOK
    <3>3. Writer(batch[b])' => found = page
      BY <1>9, <3>1 DEF Writer
    <3>4. Adds(b)' \cap gone = {}
      <4>1. (Additions(batch[b], batch[b].kept))' = Additions(batch[b], kept)
        BY <1>2, <3>1 DEF Additions, Ingests
      <4> QED
        BY <1>2, <1>6, <4>1 DEF Adds, DocsOf
    <3> QED
      BY <3>1, <3>2, <3>3, <3>4
  <2> QED
    BY <2>1, <2>2
<1>21. \A i \in Ids : ended'[i] = "applied" => ended[i] = "applied"
  BY <1>16
<1>22. Reads(b)
  BY <1>2, <1>19, <1>20, <1>21 DEF Reads
<1> QED
  BY <1>18, <1>22, ProceedsOwn, Advance

\* What writing and not writing have in common.
LEMMA KeptProceeds ==
  ASSUME FInv, NEW b \in Batches, Writing(batch[b]), Ends(batch[b].kept),
         \/ batch' = [batch EXCEPT ![b] = Written(b)]
         \/ batch' = [Moved({"write"}) EXCEPT ![b] = Written(b)],
         UNCHANGED <<table, service, drained>>, faults \subseteq faults'
  PROVE  /\ Proceeds(b, batch[b].kept) /\ batch'[b].pc = "settle"
         /\ \/ \A c \in Batches \ {b} : batch'[c] = batch[c]
            \/ \A c \in Batches \ {b} : batch'[c] = Moved({"write"})[c]
<1>1. /\ BatchOK /\ Consistent(batch[b]) /\ batch[b].upd \cap batch[b].failed = {}
      /\ UNCHANGED <<log, plan, gone, del>> /\ InTable' = InTable
  <2>1. JudgedBatch(batch[b]) /\ BatchOK /\ batch[b].pc # "settle"
    BY DEF FInv, Fates, Judged, IInv, TypeOK, Writing
  <2> QED
    BY <2>1 DEF BatchOK, JudgedBatch, table, service, InTable
<1>2. Like(Written(b), "settle", batch[b].held, batch[b].upd, batch[b].stale, batch[b].failed, {})
  BY <1>1, WrittenType
<1>3. /\ batch'[b] = Written(b)
      /\ \A c \in Batches \ {b} : Same(batch[c], batch'[c])
      /\ \/ \A c \in Batches \ {b} : batch'[c] = batch[c]
         \/ \A c \in Batches \ {b} : batch'[c] = Moved({"write"})[c]
  <2>1. CASE batch' = [batch EXCEPT ![b] = Written(b)]
    <3>1. \A c \in Batches \ {b} : batch'[c] = batch[c]
      BY <1>1, <2>1 DEF BatchOK
    <3> QED
      BY <1>1, <2>1, <3>1, OneBatchSame
  <2>2. CASE batch' = [Moved({"write"}) EXCEPT ![b] = Written(b)]
    <3>1. Moved({"write"}) \in [Batches -> BatchStates]
      BY <1>1, MovedType
    <3>2. batch'[b] = Written(b) /\ \A c \in Batches \ {b} : batch'[c] = Moved({"write"})[c]
      BY <2>2, <3>1
    <3>3. \A c \in Batches : Same(batch[c], Moved({"write"})[c])
      BY <1>1, MovedSame
    <3> QED
      BY <3>2, <3>3
  <2> QED
    BY <2>1, <2>2
<1>4. Proceeds(b, batch[b].kept)
  BY <1>1, <1>2, <1>3 DEF Proceeds, Like, Pending, Consistent, Writing
<1> QED
  BY <1>2, <1>3, <1>4 DEF Like

LEMMA EndWriteFates ==
  ASSUME FInv, IInv', NEW b \in Batches, NEW how \in {"unwritten", "refused"}, EndWrite(b, how),
         Writing(batch[b]), faults \subseteq faults'
  PROVE  Fates'
<1>1. /\ Mark(batch[b].kept, how) /\ batch' = [batch EXCEPT ![b] = Written(b)]
      /\ UNCHANGED <<table, service, page, unversioned, drained>>
  BY DEF EndWrite
<1>2. /\ ended \in [Ids -> EndStates] /\ batch[b].kept \subseteq Ids
      /\ \A i \in Ids : ended[i] = "mistaken" => "db" \in faults
  BY DEF FInv, Fates, Queued, IInv, TypeOK, BatchOK, BatchStates
<1>3. Ends(batch[b].kept)
  <2>1. ended' \in [Ids -> EndStates]
    BY <1>1, <1>2 DEF Mark, EndStates
  <2>2. \A i \in Ids : ended'[i] = IF i \in batch[b].kept /\ ended[i] # "replaced"
                                   THEN how ELSE ended[i]
    BY <1>1 DEF Mark
  <2> QED
    BY <1>2, <2>1, <2>2 DEF Ends, Settles, Mistakes
<1>4. Proceeds(b, batch[b].kept) /\ batch'[b].pc = "settle"
  BY <1>1, <1>3, KeptProceeds
<1>5. \A i \in Ids : ended'[i] \in Carried => ended'[i] = ended[i]
  BY <1>1 DEF Mark, Carried
<1>6. Reads(b)
  <2>1. ~Writing(batch'[b])
    BY <1>4 DEF Writing
  <2>2. \A i \in Ids : ended'[i] = "applied" => ended[i] = "applied"
    BY <1>5 DEF Carried
  <2>3. \A i \in Retracts(Inserted) : ended'[i] \in Carried => ended[i] \in Carried
    BY <1>5, InsertedIds, Part DEF FInv, IInv, TypeOK
  <2> QED
    BY <1>1, <2>1, <2>2, <2>3, NothingToWriteNext DEF Reads, service
<1> QED
  BY <1>4, <1>6, ProceedsOwn, Advance

\* The text is the same as before: the batch goes on to the sources.
LEMMA TextUnchangedFates ==
  ASSUME FInv, IInv', NEW b \in Batches, TextUnchanged(b)
  PROVE  Fates'
<1> DEFINE s == Unchanged(batch[b])
<1>1. /\ batch[b].pc = "write" /\ ~batch[b].moved /\ batch' = [batch EXCEPT ![b] = s]
      /\ UNCHANGED <<log, row, plan, gone, del, copy, late, page, unversioned,
                     drained, ended, faults>>
  BY DEF TextUnchanged, Unchanged, table, service, wiki, ghosts
<1>2. /\ batch[b] \in BatchStates /\ Consistent(batch[b]) /\ BatchOK
      /\ ended \in [Ids -> EndStates]
      /\ batch[b].upd \cap batch[b].failed = {}
  <2>1. JudgedBatch(batch[b]) /\ BatchOK
    BY DEF FInv, Fates, Judged, IInv, TypeOK
  <2> QED
    BY <1>1, <2>1 DEF BatchOK, JudgedBatch, FInv, Fates, Queued
<1>3. /\ Like(s, "meta", batch[b].held, batch[b].upd, batch[b].stale,
              batch[b].failed, batch[b].kept)
      /\ s.base = batch[b].base
  BY <1>2, UnchangedType DEF Unchanged, BatchStates
<1> HIDE DEF s
<1>4. batch'[b] = s /\ \A c \in Batches \ {b} : Same(batch[c], batch'[c])
  BY <1>1, <1>2, OneBatchSame
<1>5. Ends({})
  BY <1>1, <1>2 DEF Ends, Settles, Mistakes, FInv, Fates, Queued
<1>6. InTable' = InTable
  BY <1>1 DEF InTable
<1>7. Proceeds(b, {})
  BY <1>1, <1>2, <1>3, <1>4, <1>5, <1>6 DEF Proceeds, Like, Pending, Writing
<1>8. Reads(b)
  <2>1. /\ batch'[b].pc = "meta" /\ batch'[b].kept = batch[b].kept
        /\ batch'[b].base = batch[b].base /\ batch'[b].stale = batch[b].stale
    BY <1>3, <1>4 DEF Like
  <2>2. Writing(batch[b]) /\ Writer(batch[b]) /\ Cites(batch'[b].base)
    BY <1>1, <2>1 DEF Writing, Writer, FInv, Fates, PageOK
  <2>3. Adds(b)' = Adds(b)
    BY <1>1, <2>1 DEF Adds, Additions, Ingests, DocsOf
  <2>4. Adds(b) \cap (gone \ late) = {}
    BY DEF FInv, Fates, PageOK
  <2> QED
    BY <1>1, <2>1, <2>2, <2>3, <2>4, InsertedIds, Part DEF Reads, FInv, IInv, TypeOK
<1> QED
  BY <1>7, <1>8, ProceedsOwn, Advance

\* What WritePage and UpdateMeta have in common.  Unless it is unguarded, the
\* batch has been a writer, and it was the only one.
LEMMA WriteEffect ==
  ASSUME FInv, IInv', NEW b \in Batches, WritePage(b) \/ UpdateMeta(b)
  PROVE  /\ Writing(batch[b]) /\ page' = Rewritten(b) /\ Applied(b)
         /\ UNCHANGED <<log, row, plan, gone, del, copy, late, drained, faults>>
         /\ unversioned => unversioned'
         /\ Frame(b) /\ Own(b) /\ batch'[b].pc = "settle"
         /\ ~Unguarded' => /\ Writer(batch[b])
                           /\ \A c \in Batches : ~Writer(batch[c])'
<1>1. /\ page' = Rewritten(b) /\ Applied(b)
      /\ \/ batch' = [batch EXCEPT ![b] = Written(b)] /\ UpdateMeta(b)
         \/ batch' = [Moved({"write"}) EXCEPT ![b] = Written(b)] /\ WritePage(b)
      /\ UNCHANGED <<table, service, faults, drained>> /\ Writing(batch[b])
      /\ unversioned => unversioned'
  BY DEF WritePage, UpdateMeta, Write, Writing
<1>2. UNCHANGED <<log, row, plan, gone, del, copy, late, drained, faults>>
  BY <1>1 DEF table, service
<1>3. Ends(batch[b].kept)
  <2> DEFINE off == DocsOf(batch[b].kept \cap batch[b].stale)
  <2>1. /\ ended \in [Ids -> EndStates] /\ batch[b].kept \subseteq Ids
        /\ \A i \in Ids : ended[i] = "mistaken" => "db" \in faults
    BY DEF FInv, Fates, Queued, IInv, TypeOK, BatchOK, BatchStates
  <2>2. ended' = [i \in Ids |->
           IF i \in batch[b].kept /\ ended[i] # "replaced"
           THEN IF i \in batch[b].stale THEN "unlinked" ELSE "applied"
           ELSE IF ended[i] = "applied" /\ log[i].doc \in off THEN "unlinked" ELSE ended[i]]
    BY <1>1 DEF Applied
  <2> HIDE DEF off
  <2>3. ended' \in [Ids -> EndStates]
    BY <2>1, <2>2 DEF EndStates
  <2>4. \A i \in Ids : Mistakes(i) /\ (ended[i] = "replaced" => ended'[i] = "replaced")
    BY <1>2, <2>1, <2>2 DEF Mistakes
  <2>5. \A i \in batch[b].kept : ended'[i] # "open"
    BY <2>1, <2>2
  <2>6. \A i \in Ids \ batch[b].kept : Settles(i)
    BY <2>2 DEF Settles
  <2> QED
    BY <2>3, <2>4, <2>5, <2>6 DEF Ends
<1>4. /\ Proceeds(b, batch[b].kept) /\ batch'[b].pc = "settle"
      /\ \/ \A c \in Batches \ {b} : batch'[c] = batch[c]
         \/ \A c \in Batches \ {b} : batch'[c] = Moved({"write"})[c]
  BY <1>1, <1>3, KeptProceeds
<1>5. ASSUME Guarded, NEW c \in Batches \ {b}
      PROVE  ~Writing(batch[c])
  BY <1>1, <1>5 DEF FInv, LockOK
<1>6. ASSUME NEW c \in Batches \ {b}
      PROVE  Writing(batch'[c]) <=> Writing(batch[c])
  BY <1>4 DEF Proceeds, Same, Writing
<1>7. ASSUME Guarded, NEW c \in Batches
      PROVE  ~Writer(batch[c])'
  <2>1. ~Writing(batch'[c])
    BY <1>4, <1>5, <1>6, <1>7 DEF Writing
  <2> QED
    BY <2>1 DEF Writer, Writing
<1>8. ASSUME ~Unguarded'
      PROVE  /\ Writer(batch[b]) /\ \A c \in Batches : ~Writer(batch[c])'
  <2>1. CASE UpdateMeta(b)
    <3>1. unversioned' /\ batch[b].pc = "meta"
      BY <2>1 DEF UpdateMeta
    <3>2. Guarded
      BY <1>2, <1>8, <3>1 DEF Unguarded, Guarded
    <3> QED
      BY <1>7, <3>1, <3>2 DEF Writer
  <2>2. CASE WritePage(b) /\ ~Guarded
    <3>1. Writer(batch[b]) /\ batch' = [Moved({"write"}) EXCEPT ![b] = Written(b)]
      BY <2>2 DEF WritePage, Write, Writer
    <3>2. \A c \in Batches \ {b} : batch'[c] = Moved({"write"})[c]
      <4>1. Moved({"write"}) \in [Batches -> BatchStates]
        BY MovedType DEF FInv, IInv, TypeOK
      <4> QED
        BY <3>1, <4>1
    <3>3. BatchOK
      BY DEF FInv, IInv, TypeOK
    <3>4. \A c \in Batches \ {b} : batch'[c].pc = "write" => batch'[c].moved
      BY <3>2, <3>3, MovedSame
    <3>5. ~Guarded'
      BY <1>2, <2>2 DEF Guarded
    <3>6. \A c \in Batches \ {b} : ~Writer(batch[c])'
      BY <3>4, <3>5 DEF Writer, Guarded
    <3>7. ~Writer(batch[b])'
      BY <1>4 DEF Writer
    <3> QED
      BY <3>1, <3>6, <3>7
  <2>3. CASE WritePage(b) /\ Guarded
    BY <1>7, <2>3 DEF WritePage, Writer
  <2> QED
    BY <2>1, <2>2, <2>3
<1>9. Frame(b) /\ Own(b)
  BY <1>4, ProceedsOwn
<1>10. Writing(batch[b]) /\ page' = Rewritten(b) /\ Applied(b) /\ (unversioned => unversioned')
  BY <1>1
<1>11. batch'[b].pc = "settle"
  BY <1>4
<1> QED
  BY <1>2, <1>8, <1>9, <1>10, <1>11

\* A write carries what has been applied over to the page, and nothing that is gone.
LEMMA WriteFates ==
  ASSUME FInv, IInv', NEW b \in Batches, WritePage(b) \/ UpdateMeta(b)
  PROVE  Fates'
<1> DEFINE kept == batch[b].kept
           base == batch[b].base
           off == DocsOf(kept \cap batch[b].stale)
<1>1. /\ Writing(batch[b]) /\ page' = Rewritten(b) /\ Applied(b)
      /\ UNCHANGED <<log, row, plan, gone, del, copy, late, drained, faults>>
      /\ unversioned => unversioned'
      /\ Frame(b) /\ Own(b) /\ batch'[b].pc = "settle"
      /\ ~Unguarded' => Writer(batch[b]) /\ \A c \in Batches : ~Writer(batch[c])'
  BY WriteEffect
<1>2. /\ Inserted' = Inserted /\ kept \subseteq Inserted /\ Inserted \subseteq Ids
      /\ batch[b].stale \subseteq Ids
      /\ \A i \in Inserted : log[i].doc \in Docs /\ log[i].op \in {"ingest", "retract"}
  BY <1>1, InsertedIds
     DEF FInv, IInv, TypeOK, BatchOK, BatchStates, Consistent, Inserted
<1>3. Queued' /\ Judged' /\ Released'
  BY <1>1, AdvanceQueued, AdvanceJudged, AdvanceReleased DEF FInv, Fates, IInv
<1>4. Queued /\ PageOK /\ Current /\ AppliedStays /\ Retracted
  BY DEF FInv, Fates
<1>5. ~Unguarded' => ~Unguarded
  <2>1. unversioned \in BOOLEAN
    BY DEF FInv, IInv, TypeOK
  <2> QED
    BY <1>1, <2>1, StillUnguarded
<1>6. \A i \in Ids : ended'[i] =
        IF i \in kept /\ ended[i] # "replaced"
        THEN IF i \in batch[b].stale THEN "unlinked" ELSE "applied"
        ELSE IF ended[i] = "applied" /\ log[i].doc \in off THEN "unlinked" ELSE ended[i]
  BY <1>1 DEF Applied
<1>7. Cites(base)
  BY <1>1, <1>4 DEF PageOK
<1>8. /\ page' = ((IF base = NoPage THEN {} ELSE base) \ Removes(b)) \cup Adds(b)
      /\ Adds(b) \subseteq Docs /\ page' \subseteq Docs
  <2>1. page' = ((IF base = NoPage THEN {} ELSE base) \ Removes(b)) \cup Adds(b)
    BY <1>1 DEF Rewritten
  <2>2. Adds(b) \subseteq Docs
    BY <1>2 DEF Adds, Additions, Ingests, DocsOf
  <2> QED
    BY <1>7, <2>1, <2>2 DEF Cites
<1>9. PageOK'
  <2>1. ASSUME NEW c \in Batches, Writing(batch'[c])
        PROVE  Cites(batch'[c].base)
    <3>1. c # b /\ Same(batch[c], batch'[c]) /\ faults \subseteq faults'
      BY <1>1, <2>1 DEF Frame, Writing
    <3> QED
      BY <1>4, <2>1, <3>1, SameWriter DEF PageOK
  <2>2. (\A c \in Batches : Writing(batch[c]) => Cites(batch[c].base))'
    BY <2>1 DEF Writing, Cites, NoPage
  <2>3. Cites(page)'
    BY <1>8 DEF Cites, NoPage
  <2>4. (\A d \in Docs : del[d] = "fix" => copy[d].refs \subseteq Docs)'
    BY <1>1, <1>4 DEF PageOK
  <2>5. ASSUME NEW d \in gone \ late, NEW c \in Batches
        PROVE  d \notin Adds(c)'
    <3>1. CASE c = b
      <4>1. ~Writing(batch'[b])
        BY <1>1 DEF Writing
      <4> QED
        BY <3>1, <4>1, NothingToWriteNext
    <3>2. CASE c # b
      BY <1>1, <1>4, <3>2, AddsStay DEF Frame, PageOK
    <3> QED
      BY <3>1, <3>2
  <2> QED
    BY <1>1, <2>2, <2>3, <2>4, <2>5 DEF PageOK
<1>10. Current'
  BY <1>1 DEF Current
<1>11. AppliedStays'
  <2> SUFFICES ASSUME gone = {}, ~Unguarded', NEW i \in Inserted, ended'[i] = "applied"
               PROVE  log[i].doc \in page'
    BY <1>1, <1>2 DEF AppliedStays, Inserted
  <2>1. base = page
    <3>1. \A d \in Docs : del[d] \notin Fixed
      BY <1>4 DEF Queued, Deleting, Cleaned
    <3> QED
      BY <1>1, <1>4, <1>5, <3>1 DEF Current
  <2>2. \A j \in Retracts(Inserted) : FALSE
    <3>1. \A j \in Retracts(Inserted) : log[j].doc \in Docs
      BY <1>2, Part
    <3> QED
      BY <1>4, <3>1 DEF Queued, Deleting, Cleaned, Fixed
  <2>3. i \in Ids /\ log[i].doc \in Docs
    BY <1>2
  <2>4. CASE i \in kept /\ ended[i] # "replaced"
    <3>1. i \notin batch[b].stale
      BY <1>6, <2>3, <2>4
    <3>2. i \in Ingests(kept)
      BY <1>2, <2>2, <2>4 DEF Ingests, Retracts
    <3>3. log[i].doc \in Adds(b)
      BY <3>1, <3>2 DEF Adds, Additions, DocsOf
    <3> QED
      BY <1>8, <3>3
  <2>5. CASE ~(i \in kept /\ ended[i] # "replaced")
    <3>1. ended[i] = "applied" /\ log[i].doc \notin off
      BY <1>6, <2>3, <2>5
    <3>2. log[i].doc \in page
      BY <1>4, <1>5, <3>1 DEF AppliedStays, Inserted
    <3>3. page # NoPage
      BY <2>3, <3>2, WikiAssumption DEF NoPage
    <3>4. log[i].doc \in Removes(b) => log[i].doc \in Adds(b)
      <4> SUFFICES ASSUME NEW j \in kept \ Additions(batch[b], kept), log[j].doc = log[i].doc
                   PROVE  FALSE
        BY DEF Removes, DocsOf
      <4>1. j \in Ingests(kept)
        BY <1>2, <2>2 DEF Ingests, Retracts
      <4>2. j \in kept \cap batch[b].stale
        BY <4>1 DEF Additions
      <4> QED
        BY <3>1, <4>2 DEF DocsOf
    <3> QED
      BY <1>8, <2>1, <3>2, <3>3, <3>4
  <2> QED
    BY <2>4, <2>5
<1>12. Retracted'
  <2> SUFFICES ASSUME ~Unguarded', NEW d \in gone \ late, gone = {d}
               PROVE  Retracting(d)'
    BY <1>1 DEF Retracted
  <2>1. Retracting(d) /\ Writer(batch[b]) /\ d \notin Adds(b)
        /\ \A c \in Batches : ~Writer(batch[c])'
    BY <1>1, <1>4, <1>5 DEF Retracted, PageOK
  <2>2. ASSUME NEW i \in Retracts(Inserted), ended'[i] \in Carried
        PROVE  d \notin page'
    <3>1. i \in Inserted /\ i \in Ids /\ log[i].doc \in Docs /\ log[i].op = "retract"
      BY <1>2 DEF Retracts
    <3>2. CASE i \in kept
      <4>1. del[log[i].doc] \in Deleting
        BY <1>4 DEF Queued, Deleting, Cleaned, Fixed
      <4>2. log[i].doc = d
        BY <1>4, <3>1, <4>1 DEF Queued
      <4>3. d \in Removes(b)
        BY <3>1, <3>2, <4>2 DEF Removes, DocsOf, Additions, Ingests
      <4> QED
        BY <1>8, <2>1, <4>3
    <3>3. CASE i \notin kept
      <4>1. ended[i] \in Carried
        BY <1>6, <2>2, <3>1, <3>3 DEF Carried
      <4>2. GoneForGood(d)
        BY <2>1, <4>1 DEF Retracting, Carried
      <4>3. d \notin base
        BY <2>1, <4>2 DEF GoneForGood
      <4> QED
        BY <1>8, <2>1, <4>3
    <3> QED
      BY <3>2, <3>3
  <2>3. (Retracts(Inserted))' = Retracts(Inserted)
    BY <1>1, <1>2 DEF Retracts
  <2>4. d \notin page' => GoneForGood(d)'
    BY <2>1 DEF GoneForGood
  <2> QED
    BY <2>2, <2>3, <2>4 DEF Retracting, Carried
<1> QED
  BY <1>3, <1>9, <1>10, <1>11, <1>12 DEF Fates

LEMMA FaultFates ==
  ASSUME FInv, IInv', NEW b \in Batches, Crash(b) \/ Panic(b) \/ TimeOut(b)
  PROVE  Fates'
<1>1. /\ batch' = [batch EXCEPT ![b] = Idle]
      /\ UNCHANGED <<log, service, page, unversioned, ended>> /\ faults \subseteq faults' /\ faults' # {}
  BY DEF Crash, Panic, TimeOut, Redeliver, Fault, table, wiki
<1>2. \E I : drained' = drained \/ drained' = DrainRows(I)
  BY DEF Crash, Panic, TimeOut, Settled
<1>3. /\ drained \in [Ids -> Nat] /\ ended \in [Ids -> EndStates]
      /\ \A i \in Ids : i \in batch[b].upd => i \in batch[b].held
      /\ \A i \in Ids : ended[i] = "mistaken" => "db" \in faults
  BY DEF FInv, IInv, TypeOK, BatchOK, Consistent, Fates, Queued
<1>4. InTable' = InTable
  <2>1. \/ row' = row
        \/ row' = [i \in Ids |-> IF i \in batch[b].held \cap InTable THEN "free" ELSE row[i]]
    BY DEF Crash, Panic, TimeOut, table
  <2> QED
    BY <2>1 DEF InTable
<1>5. \A i \in Ids : drained'[i] >= drained[i]
  BY <1>2, <1>3 DEF DrainRows
<1>6. \A i \in Ids \ batch[b].held : drained'[i] = drained[i]
  <2>1. Settled(b) \subseteq batch[b].upd /\ Ingests(batch[b].upd) \subseteq batch[b].upd
    BY DEF Settled, Ingests
  <2>2. CASE drained' = drained
    BY <2>2
  <2>3. ASSUME NEW I \in SUBSET batch[b].upd, drained' = DrainRows(I)
        PROVE  \A i \in Ids \ batch[b].held : drained'[i] = drained[i]
    BY <1>3, <2>3 DEF DrainRows
  <2> QED
    BY <2>1, <2>2, <2>3 DEF Crash, Panic, TimeOut
<1>7. Lets(b)
  <2>1. \A i \in Ids : Later(i) /\ Mistakes(i)
    BY <1>1, <1>3, <1>4, <1>5 DEF Later, Mistakes
  <2>2. \A i \in Ids \ batch[b].held : Alone(i)
    BY <1>1, <1>4, <1>6 DEF Alone, Settles
  <2> QED
    BY <1>1, <1>3, <1>4, <2>1, <2>2, Part DEF Lets, InTable
<1> QED
  BY <1>1, <1>7, Stops

\* What Finish does to the rows: those in cut leave, the ones in given up for good.
Outcome(b, cut, given) ==
  /\ InTable' = InTable \ cut
  /\ cut \subseteq (batch[b].held \ batch[b].failed) \cup given /\ given \subseteq cut
  /\ given \subseteq batch[b].failed \cap InTable
  /\ ended' = [i \in Ids |->
       IF ended[i] # "open" THEN ended[i]
       ELSE IF i \in batch[b].held \ Canonical(batch[b].held) THEN "replaced"
       ELSE IF i \in given THEN "given up" ELSE "open"]
  /\ drained' = DrainRows(Settled(b) \cup Ingests(given))
  /\ faults \subseteq faults'
  /\ faults' = {} => cut = (batch[b].held \ batch[b].failed) \cup given

LEMMA FinishOutcome ==
  ASSUME FInv, NEW b \in Batches, Finish(b)
  PROVE  \E cut, given : Outcome(b, cut, given)
<1> DEFINE held   == batch[b].held
           out    == held \ batch[b].failed
           failed == batch[b].failed \cap InTable
           dead   == {i \in failed : Exhausted(i)}
           Rows(cut, freed) ==
             [i \in Ids |-> IF i \in cut THEN "absent"
                           ELSE IF i \in freed THEN "free" ELSE row[i]]
           Over(given) == [i \in Ids |->
             IF ended[i] # "open" THEN ended[i]
             ELSE IF i \in held \ Canonical(held) THEN "replaced"
             ELSE IF i \in given THEN "given up" ELSE "open"]
<1>1. ASSUME NEW cut, NEW freed \in SUBSET failed, row' = Rows(cut, freed)
      PROVE  InTable' = InTable \ cut
  BY <1>1 DEF InTable
<1>2. dead \subseteq failed
  OBVIOUS
<1>3. CASE /\ row' = Rows(out \cup dead, failed \ dead) /\ ended' = Over(dead)
           /\ drained' = DrainRows(Settled(b) \cup GivenUp(dead)) /\ faults' = faults
  <2>1. InTable' = InTable \ (out \cup dead)
    BY <1>1, <1>3
  <2>2. Outcome(b, out \cup dead, dead)
    BY <1>2, <1>3, <2>1 DEF Outcome, GivenUp
  <2> QED
    BY <2>2
<1>4. CASE /\ Fault("db") /\ row' = Rows(dead, failed \ dead) /\ ended' = Over(dead)
           /\ drained' = DrainRows(Settled(b) \cup GivenUp(dead))
  <2>1. InTable' = InTable \ dead
    BY <1>1, <1>4
  <2>2. Outcome(b, dead, dead)
    BY <1>2, <1>4, <2>1 DEF Outcome, GivenUp, Fault
  <2> QED
    BY <2>2
<1>5. CASE /\ Fault("db") /\ row' = Rows(out, {}) /\ ended' = Over({})
           /\ drained' = DrainRows(Settled(b))
  <2>1. InTable' = InTable \ out
    <3>1. row' = Rows(out, {}) /\ {} \in SUBSET failed
      BY <1>5
    <3> HIDE DEF Rows, failed, out
    <3> QED
      BY <1>1, <3>1
  <2>2. Settled(b) \cup Ingests({}) = Settled(b)
    BY DEF Ingests
  <2>3. Outcome(b, out, {})
    BY <1>5, <2>1, <2>2 DEF Outcome, Fault
  <2> QED
    BY <2>3
<1> QED
  BY <1>3, <1>4, <1>5, Zenon DEF Finish

LEMMA FinishFates ==
  ASSUME FInv, IInv', NEW b \in Batches, Finish(b)
  PROVE  Fates'
<1> DEFINE held   == batch[b].held
           failed == batch[b].failed
<1>1. /\ batch[b].pc = "settle" /\ batch' = [batch EXCEPT ![b] = Idle]
      /\ UNCHANGED <<log, service, page, unversioned>>
  BY DEF Finish, wiki
<1>2. PICK cut, given : Outcome(b, cut, given)
  BY FinishOutcome
<1> DEFINE D == Settled(b) \cup Ingests(given)
<1>3. /\ held \subseteq Inserted /\ Inserted \subseteq Ids /\ failed \subseteq held
      /\ failed \subseteq Canonical(held) /\ batch[b].upd \subseteq Canonical(held)
      /\ Canonical(held) \subseteq held /\ batch[b].kept = {}
      /\ drained \in [Ids -> Nat] /\ ended \in [Ids -> EndStates]
      /\ \A i \in Ids : ended[i] = "mistaken" => "db" \in faults
  BY <1>1, InsertedIds, Part DEF FInv, IInv, TypeOK, BatchOK, Consistent, Inserted,
     Fates, Judged, JudgedBatch, Queued
<1>4. cut \subseteq held /\ given \subseteq failed /\ given \subseteq InTable /\ D \subseteq Canonical(held)
  BY <1>2, <1>3 DEF Outcome, Settled, Ingests
<1>5. \A i \in Ids : drained'[i] = IF i \in D THEN drained[i] + 1 ELSE drained[i]
  BY <1>2 DEF Outcome, DrainRows
<1>6. \A i \in Ids : ended[i] # "open" => ended'[i] = ended[i]
  BY <1>2 DEF Outcome
<1>7. \A i \in Ids : ended[i] = "open" =>
        ended'[i] = IF i \in held \ Canonical(held) THEN "replaced"
                    ELSE IF i \in given THEN "given up" ELSE "open"
  BY <1>2 DEF Outcome
<1>8. /\ Judges(batch[b]) /\ \A i \in Worked(batch[b]) : ended[i] # "open"
      /\ \A i \in Ingests(Worked(batch[b])) \ batch[b].upd : drained[i] > 0
  <2>1. JudgedBatch(batch[b]) /\ DrainedBatch(batch[b])
    BY DEF FInv, Fates, Judged, Released
  <2> QED
    BY <1>1, <1>3, <2>1 DEF Judges, Pending, JudgedBatch, DrainedBatch
<1>9. ASSUME NEW i \in Ingests(InTable), i \in held, faults' = {}
      PROVE  OnceBy(i, b) /\ cut = (held \ failed) \cup given
  BY <1>2, <1>9, OnceHeld DEF Outcome
<1>10. ASSUME NEW i \in (held \cap InTable) \ InTable'
       PROVE  /\ ended'[i] # "open"
              /\ i \in Ingests(Inserted) => SlotDone(i)'
  <2>1. /\ i \in cut /\ i \in held /\ i \in InTable /\ i \in Ids
        /\ drained[i] \in Nat
    BY <1>2, <1>3 DEF Outcome
  <2>2. i \in Ingests(Inserted) => i \in Ingests(InTable)
    BY <2>1 DEF Ingests
  <2>3. CASE i \in given
    <3>1. i \in Canonical(held) /\ i \notin Worked(batch[b])
      BY <1>3, <1>4, <2>3 DEF Worked
    <3>2. ended'[i] # "open"
      BY <1>6, <1>7, <2>1, <2>3, <3>1
    <3>3. ASSUME i \in Ingests(Inserted) PROVE SlotDone(i)'
      <4>1. drained'[i] = drained[i] + 1
        BY <1>5, <2>1, <2>3, <3>3 DEF Ingests
      <4>2. faults' = {} => drained[i] = 0
        BY <1>9, <2>1, <2>2, <3>1, <3>3 DEF OnceBy, Untouched
      <4> QED
        BY <2>1, <4>1, <4>2 DEF SlotDone
    <3> QED
      BY <3>2, <3>3
  <2>4. CASE i \in Worked(batch[b])
    <3>1. ended'[i] # "open"
      BY <1>6, <1>8, <2>1, <2>4
    <3>2. ASSUME i \in Ingests(Inserted) PROVE SlotDone(i)'
      <4>1. i \notin failed /\ i \notin given /\ i \in Ingests(Worked(batch[b]))
        BY <1>4, <2>4, <3>2 DEF Worked, Ingests
      <4>2. faults' = {} => drained[i] = IF i \in batch[b].upd THEN 0 ELSE 1
        BY <1>8, <1>9, <2>1, <2>2, <2>4, <3>2 DEF OnceBy
      <4>3. CASE i \in batch[b].upd
        <5>1. i \in D
          BY <3>2, <4>1, <4>3 DEF Settled, Ingests
        <5>2. drained'[i] = drained[i] + 1
          BY <1>5, <2>1, <5>1
        <5> QED
          BY <2>1, <4>2, <4>3, <5>2 DEF SlotDone
      <4>4. CASE i \notin batch[b].upd
        <5>1. i \notin D
          BY <4>1, <4>4 DEF Settled, Ingests
        <5>2. drained'[i] = drained[i] /\ drained[i] > 0
          BY <1>5, <1>8, <2>1, <4>1, <4>4, <5>1
        <5> QED
          BY <2>1, <4>2, <4>4, <5>2 DEF SlotDone
      <4> QED
        BY <4>3, <4>4
    <3> QED
      BY <3>1, <3>2
  <2>5. CASE i \notin Canonical(held)
    <3>1. ended[i] = "open" => ended'[i] = "replaced"
      BY <1>7, <2>1, <2>5
    <3>2. ASSUME i \in Ingests(Inserted), ended[i] \notin {"open", "replaced"}
          PROVE  SlotDone(i)'
      <4>1. faults' # {}
        <5>1. i \notin Worked(batch[b])
          BY <2>5 DEF Worked
        <5> QED
          BY <1>9, <2>1, <2>2, <3>2, <5>1 DEF OnceBy, Untouched
      <4>2. PICK j \in held : log[j].doc = log[i].doc /\ ~(j <= i)
        BY <2>1, <2>5 DEF Canonical
      <4>3. j \in Inserted /\ i < j
        <5>1. i \in Ids /\ j \in Ids /\ j \in Inserted
          BY <1>3, <2>1, <4>2
        <5> QED
          BY <4>2, <5>1, WikiAssumption DEF Ids
      <4>4. Queued /\ Released
        BY DEF FInv, Fates
      <4>5. j \notin Ingests(Inserted)
        <5>1. row[i] # "absent"
          BY <2>1 DEF InTable
        <5> QED
          BY <3>2, <4>2, <4>3, <4>4, <5>1 DEF Queued
      <4>6. j \in Retracts(Inserted)
        BY <4>3, <4>5, InsertedIds DEF Ingests, Retracts, FInv, IInv, TypeOK
      <4>7. del[log[i].doc] \in {"done", "doneKnown"}
        BY <4>2, <4>4, <4>6 DEF Queued
      <4>8. QueuedLate(i)
        BY <2>2, <3>2, <4>4 DEF Released
      <4>9. drained[i] > 0
        BY <3>2, <4>7, <4>8 DEF QueuedLate, Cleaned, Fixed
      <4>10. drained'[i] > 0
        BY <1>5, <2>1, <4>9
      <4> QED
        BY <4>1, <4>10 DEF SlotDone
    <3> QED
      BY <1>6, <2>1, <3>1, <3>2 DEF SlotDone
  <2> QED
    BY <1>2, <2>1, <2>3, <2>4, <2>5 DEF Outcome, Worked
<1>11. ASSUME NEW i \in Ingests(held \cap InTable')
       PROVE  /\ ended'[i] = ended[i] \/ ended'[i] = "replaced"
              /\ faults' = {} => Untouched(i)'
  <2>1. /\ i \in held /\ i \in InTable /\ i \notin cut /\ i \notin given /\ i \in Ids
        /\ i \in Ingests(InTable)
    BY <1>2, <1>3 DEF Outcome, Ingests
  <2>2. ended'[i] = ended[i] \/ ended'[i] = "replaced"
    BY <1>6, <1>7, <2>1
  <2>3. ASSUME faults' = {} PROVE Untouched(i)'
    <3>1. OnceBy(i, b) /\ i \in failed
      BY <1>9, <2>1, <2>3
    <3>2. i \notin Worked(batch[b]) /\ i \in Canonical(held) /\ i \notin D
      BY <1>3, <2>1, <3>1 DEF Worked, Settled, Ingests
    <3>3. Untouched(i)
      BY <3>1, <3>2 DEF OnceBy
    <3> QED
      BY <1>5, <1>7, <2>1, <3>2, <3>3 DEF Untouched
  <2> QED
    BY <2>2, <2>3
<1>12. \A i \in Ids : Later(i)
  <2>1. InTable' \subseteq InTable
    BY <1>2 DEF Outcome
  <2> QED
    BY <1>3, <1>5, <1>6, <2>1 DEF Later
<1>13. \A i \in Ids \ held : Alone(i)
  <2>1. InTable' = InTable \ cut
    BY <1>2 DEF Outcome
  <2> QED
    BY <1>3, <1>4, <1>5, <1>6, <1>7, <2>1 DEF Alone, Settles
<1>14. \A i \in Ids : Mistakes(i) /\ (ended'[i] \in Carried => ended'[i] = ended[i])
  BY <1>2, <1>3, <1>6, <1>7 DEF Mistakes, Carried, Outcome
<1>15. ended' \in [Ids -> EndStates] /\ faults \subseteq faults'
  BY <1>2, <1>3 DEF Outcome, EndStates
<1>16. Lets(b)
  BY <1>1, <1>10, <1>11, <1>12, <1>13, <1>14, <1>15 DEF Lets, wiki
<1> QED
  BY <1>1, <1>16, Stops


LEMMA MapFates ==
  ASSUME FInv, IInv', NEW b \in Batches, Map(b)
  PROVE  Fates'
<1> DEFINE held   == batch[b].held
           ops    == Canonical(held)
           dead   == {i \in Ingests(ops) : isKnowledgeGone(log[i].doc)}
           citing == {i \in ops : log[i].doc \in page}
           known  == {i \in Retracts(ops) : del[log[i].doc] = "doneKnown"}
           alive(misread) == Ingests(ops) \ (dead \cup misread)
           unlink(misread) == known \cup ((Retracts(ops) \cap citing) \ misread)
           said(misread, failed, empty) == alive(misread) \ (failed \cup empty)
           Upd(misread, failed, empty) == said(misread, failed, empty) \cup unlink(misread)
           Moots(misread, empty) == dead \cup empty \cup (Retracts(ops) \ unlink(misread))
<1>1. PICK M \in SUBSET (ops \ (dead \cup known)) :
        \E failed \in SUBSET alive(M) : \E empty \in SUBSET (alive(M) \ failed) :
          /\ \E stale \in SUBSET (said(M, failed, empty) \cap citing) :
               batch' = [batch EXCEPT ![b] =
                 Mapped(@, IF Upd(M, failed, empty) = {} THEN "settle" ELSE "reduce",
                        Upd(M, failed, empty), stale, failed)]
          /\ Suffers(DbError(M # {}))
          /\ drained' = DrainRows(dead \cup Ingests(M) \cup empty)
          /\ MarkTwo(M, "mistaken", Moots(M, empty), "closed")
  BY Zenon DEF Map, Mapped
<1> HIDE DEF held, ops, dead, citing, known, alive, unlink, said, Upd, Moots
<1>2. PICK failed, empty, stale :
        /\ failed \subseteq alive(M) /\ empty \subseteq alive(M) \ failed
        /\ stale \subseteq said(M, failed, empty)
        /\ batch' = [batch EXCEPT ![b] =
             Mapped(@, IF Upd(M, failed, empty) = {} THEN "settle" ELSE "reduce",
                    Upd(M, failed, empty), stale, failed)]
        /\ Suffers(DbError(M # {}))
        /\ drained' = DrainRows(dead \cup Ingests(M) \cup empty)
        /\ MarkTwo(M, "mistaken", Moots(M, empty), "closed")
  BY <1>1
<1> USE DEF held, ops, dead, citing, known, alive, unlink, said, Upd, Moots
<1> DEFINE upd == Upd(M, failed, empty)
           J   == Moots(M, empty)
           I   == M \cup J
           D   == dead \cup Ingests(M) \cup empty
           pc  == IF upd = {} THEN "settle" ELSE "reduce"
           s   == Mapped(batch[b], pc, upd, stale, failed)
<1>3. /\ batch[b].pc = "map"
      /\ UNCHANGED <<log, row, plan, gone, del, copy, late, page, unversioned>>
      /\ faults \subseteq faults' /\ (M # {} => "db" \in faults')
  BY <1>2, MapKeeps DEF table, service, wiki, Suffers, DbError
<1>4. /\ held \subseteq Inserted /\ Inserted \subseteq Ids /\ ops \subseteq held
      /\ BatchOK /\ batch[b] \in BatchStates /\ batch[b].kept = {}
      /\ drained \in [Ids -> Nat] /\ ended \in [Ids -> EndStates]
      /\ \A i \in Ids : ended[i] = "mistaken" => "db" \in faults
      /\ \A i \in Inserted : log[i].op \in {"ingest", "retract"} /\ log[i].doc \in Docs
  BY <1>3, InsertedIds, Part DEF FInv, IInv, TypeOK, BatchOK, Consistent, Inserted,
     Fates, Queued
<1>5. \A i \in ops : i \in Ingests(ops) \/ i \in Retracts(ops)
  BY <1>4 DEF Ingests, Retracts
<1>6. /\ Ingests(ops) \subseteq ops /\ Retracts(ops) \subseteq ops
      /\ Ingests(ops) \cap Retracts(ops) = {}
      /\ Ingests(M) \subseteq M /\ Ingests(M) \subseteq Ingests(ops)
      /\ M \cap Ingests(ops) \subseteq Ingests(M)
      /\ M \subseteq ops \ (dead \cup known)
  <2>1. M \subseteq ops \ (dead \cup known)
    OBVIOUS
  <2>2. Ingests(M) \subseteq Ingests(ops) /\ M \cap Ingests(ops) \subseteq Ingests(M)
    BY <2>1 DEF Ingests
  <2> QED
    BY <2>1, <2>2, Part
<1>6a. /\ dead \subseteq Ingests(ops) /\ known \subseteq Retracts(ops)
       /\ \A i \in Ingests(ops) : isKnowledgeGone(log[i].doc) => i \in dead
       /\ \A i \in Retracts(ops) : i \notin known => del[log[i].doc] # "doneKnown"
       /\ \A i \in Retracts(ops) : i \notin citing => log[i].doc \notin page
  BY <1>6
<1> HIDE DEF dead, known, citing, ops
<1>7. /\ upd \cup failed \subseteq ops /\ upd \cap failed = {} /\ I \subseteq ops
      /\ D \subseteq Ingests(ops) /\ stale \subseteq upd
  BY <1>2, <1>6, <1>6a
<1>8. \A i \in ops \ failed : i \notin upd => i \in I
  BY <1>5
<1>9. upd \cap I = {} /\ D \subseteq I /\ failed \cap I = {} /\ D \cap failed = {}
  BY <1>2, <1>6, <1>6a
<1>10. \A i \in Ingests(ops) : i \in I => i \in D
  BY <1>6
<1>11. \A i \in Ingests(ops) : isKnowledgeGone(log[i].doc) => i \in D /\ i \notin upd \cup failed
  BY <1>2, <1>6, <1>6a
<1>12. \A i \in Retracts(ops) : i \in J /\ i \notin M =>
         del[log[i].doc] # "doneKnown" /\ log[i].doc \notin page
  BY <1>2, <1>6, <1>6a
<1>12a. M \subseteq I /\ J \subseteq I
  OBVIOUS
<1>12b. MarkTwo(M, "mistaken", J, "closed") /\ I = M \cup J
  BY <1>2
<1> HIDE DEF upd, I, J, D
<1>13. batch' = [batch EXCEPT ![b] = s] /\ drained' = DrainRows(D)
  BY <1>2 DEF upd, D
<1>14. Like(s, pc, held, upd, stale, failed, {})
  <2>1. upd \in SUBSET Ids /\ failed \in SUBSET Ids /\ stale \in SUBSET Ids
    BY <1>4, <1>7
  <2>2. pc \in {"reduce", "settle"}
    OBVIOUS
  <2> HIDE DEF pc
  <2>3. Like(Mapped(batch[b], pc, upd, stale, failed), pc, held, upd, stale, failed,
             batch[b].kept)
    BY <1>4, <2>1, <2>2, MappedType
  <2> QED
    BY <1>4, <2>3
<1> HIDE DEF s
<1>15. batch'[b] = s /\ \A c \in Batches \ {b} : Same(batch[c], batch'[c])
  BY <1>4, <1>13, OneBatchSame
<1>16. /\ batch'[b].pc = pc /\ batch'[b].held = held /\ batch'[b].upd = upd
       /\ batch'[b].failed = failed /\ batch'[b].kept = {}
  BY <1>14, <1>15 DEF Like
<1>17. InTable' = InTable
  BY <1>3 DEF InTable
<1>18. \A i \in Ids : ended'[i] = IF ended[i] = "replaced" THEN ended[i]
                                  ELSE IF i \in M THEN "mistaken"
                                  ELSE IF i \in J THEN "closed" ELSE ended[i]
  BY <1>12b DEF MarkTwo
<1>19. \A i \in Ids : drained'[i] = IF i \in D THEN drained[i] + 1 ELSE drained[i]
  BY <1>13 DEF DrainRows
<1>20. ended' \in [Ids -> EndStates] /\ \A i \in Ids : Mistakes(i)
  <2>1. ended' \in [Ids -> EndStates]
    BY <1>4, <1>12b DEF MarkTwo, EndStates
  <2> QED
    BY <1>3, <1>4, <1>18, <2>1 DEF Mistakes
<1>21. Frame(b)
  <2>1. \A i \in Ids : Later(i)
    BY <1>4, <1>17, <1>18, <1>19 DEF Later
  <2>2. \A i \in Ids \ held : Alone(i)
    BY <1>4, <1>7, <1>9, <1>12a, <1>17, <1>18, <1>19 DEF Alone, Settles
  <2> QED
    BY <1>3, <1>4, <1>7, <1>15, <1>16, <1>20, <2>1, <2>2 DEF Frame
<1>22. Reads(b)
  <2>1. ASSUME ~Unguarded, NEW d \in gone \ late, gone = {d}, NEW i \in Retracts(Inserted),
               ended'[i] \in Carried, ended[i] \notin Carried
        PROVE  GoneForGood(d)
    <3>1. i \in J /\ i \notin M /\ i \in Ids /\ i \in Inserted /\ i \in ops
      BY <1>4, <1>7, <1>12a, <1>18, <2>1, Part DEF Carried
    <3>2. i \in Retracts(ops)
      BY <3>1 DEF Retracts
    <3>3. Queued /\ Current
      BY DEF FInv, Fates
    <3>4. del[log[i].doc] \in {"done", "doneKnown"} /\ log[i].doc \in Docs
      BY <1>4, <3>1, <3>3 DEF Queued
    <3>5. del[log[i].doc] = "done" /\ log[i].doc = d /\ d \notin page
      BY <1>12, <2>1, <3>1, <3>2, <3>3, <3>4 DEF Queued, Deleting, Cleaned
    <3>6. \A e \in Docs : del[e] \notin Fixed
      BY <2>1, <3>3, <3>5 DEF Queued, Deleting, Cleaned, Fixed
    <3> QED
      BY <2>1, <3>3, <3>5, <3>6 DEF Current, GoneForGood
  <2>2. ~Writing(batch'[b])
    BY <1>16 DEF Writing
  <2>3. \A i \in Ids : ended'[i] = "applied" => ended[i] = "applied"
    BY <1>18
  <2> QED
    BY <1>3, <2>1, <2>2, <2>3, NothingToWriteNext DEF Reads
<1>23. (Worked(batch[b]))' = ops \ failed
  BY <1>3, <1>16 DEF Worked, Canonical, ops
<1>23a. \A i \in Ids : (i \in I => ended'[i] # "open") /\ (i \notin I => ended'[i] = ended[i])
  BY <1>4, <1>12b, <1>18
<1>24. JudgedBatch(batch[b])'
  <2>1. (Canonical(batch[b].held))' = ops
    BY <1>3, <1>16 DEF Canonical, ops
  <2>2. (Pending(batch[b]))' = upd
    BY <1>16 DEF Pending
  <2>3. \A i \in ops \ failed : i \notin upd => ended'[i] # "open"
    <3>1. ops \subseteq Ids
      BY <1>4
    <3> QED
      BY <1>8, <1>23a, <3>1
  <2>4. \A i \in held \ InTable : ended'[i] = "replaced"
    BY <1>4, <1>18 DEF FInv, Fates, Judged, JudgedBatch
  <2> QED
    BY <1>7, <1>16, <1>17, <1>23, <2>1, <2>2, <2>3, <2>4 DEF JudgedBatch
<1>25. DrainedBatch(batch[b])'
  <2>1. ASSUME NEW i \in Ingests(ops \ failed), i \notin upd
        PROVE  drained'[i] > 0
    <3>1. i \in ops /\ i \notin failed /\ i \in Ingests(ops) /\ i \in Ids
      BY <1>4, <2>1 DEF Ingests
    <3>2. i \in D
      BY <1>8, <1>10, <2>1, <3>1
    <3> QED
      BY <1>4, <1>19, <3>1, <3>2
  <2>2. (Ingests(Worked(batch[b])))' = Ingests(ops \ failed)
    BY <1>3, <1>23 DEF Ingests
  <2> QED
    BY <1>16, <2>1, <2>2 DEF DrainedBatch
<1>26. ASSUME NEW i \in Ingests(held \cap InTable')
       PROVE  /\ i \in Ids /\ i \in held /\ i \in Ingests(InTable) /\ i \in Inserted
              /\ i \in ops => i \in Ingests(ops)
  BY <1>4, <1>17 DEF Ingests
<1>27. ASSUME NEW i \in Ingests(held \cap InTable'), del[log[i].doc] \in Cleaned
       PROVE  /\ ended'[i] \in {"open", "replaced"} \/ drained'[i] > 0
              /\ i \notin batch'[b].upd \cup batch'[b].failed
  <2>1. QueuedLate(i) /\ isKnowledgeGone(log[i].doc)
    BY <1>4, <1>26, <1>27 DEF FInv, Fates, Released, Queued, Deleting, isKnowledgeGone
  <2>2. CASE i \in ops
    <3>1. i \in D /\ i \notin upd \cup failed
      BY <1>11, <1>26, <2>1, <2>2
    <3>2. drained'[i] = drained[i] + 1 /\ drained[i] \in Nat
      BY <1>4, <1>19, <1>26, <3>1
    <3> QED
      BY <1>16, <3>1, <3>2
  <2>3. CASE i \notin ops
    <3>1. ended'[i] = ended[i] /\ drained'[i] = drained[i]
      BY <1>7, <1>9, <1>19, <1>23a, <1>26, <2>3
    <3> QED
      BY <1>7, <1>16, <1>27, <2>1, <2>3, <3>1 DEF QueuedLate
  <2> QED
    BY <2>2, <2>3
<1>28. ASSUME NEW i \in Ingests(held \cap InTable'), faults' = {}
       PROVE  OnceBy(i, b)'
  <2>1. Untouched(i)
    <3>1. OnceBy(i, b)
      BY <1>3, <1>26, <1>28, OnceHeld
    <3> QED
      BY <1>3, <3>1 DEF OnceBy, Judges, Writing
  <2>2. CASE i \in ops \ failed
    <3>1. i \in upd => drained'[i] = 0 /\ ended'[i] = "open"
      BY <1>9, <1>19, <1>23a, <1>26, <2>1 DEF Untouched
    <3>2. i \notin upd => drained'[i] = 1
      <4>1. i \notin upd => i \in D
        BY <1>8, <1>10, <1>26, <2>2
      <4>2. i \in D => drained'[i] = drained[i] + 1
        BY <1>19, <1>26
      <4>3. drained[i] = 0
        BY <2>1 DEF Untouched
      <4> QED
        BY <4>1, <4>2, <4>3
    <3>3. Judges(batch[b])' /\ (i \in Worked(batch[b]))'
      BY <1>16, <1>23, <2>2 DEF Judges
    <3> QED
      BY <1>16, <3>1, <3>2, <3>3 DEF OnceBy
  <2>3. CASE i \notin ops \ failed
    <3>1. Untouched(i)'
      BY <1>7, <1>9, <1>19, <1>23a, <1>26, <2>1, <2>3 DEF Untouched
    <3> QED
      BY <1>23, <2>3, <3>1 DEF OnceBy
  <2> QED
    BY <2>2, <2>3
<1>29. Own(b)
  BY <1>3, <1>17, <1>24, <1>25, <1>27, <1>28 DEF Own
<1> QED
  BY <1>21, <1>22, <1>29, Advance

LEMMA WorkFates ==
  ASSUME FInv, IInv', NEW b \in Batches, Work(b)
  PROVE  Fates'
<1>1. CASE ReadLocked(b) \/ ReadUnlocked(b)
  <2>1. \E locked \in BOOLEAN : Read(b, locked)
    BY <1>1 DEF ReadLocked, ReadUnlocked
  <2> QED
    BY <2>1, ReadFates
<1>2. CASE WriteFails(b) \/ ModelFails(b)
  <2>1. /\ faults \subseteq faults' /\ Writing(batch[b])
        /\ \E how \in {"unwritten", "refused"} : EndWrite(b, how)
    BY <1>2 DEF WriteFails, ModelFails, Fault, Writing
  <2> QED
    BY <2>1, EndWriteFates
<1> QED
  BY <1>1, <1>2, ClaimFates, MapFates, SlugBusyFates, WriteFates, TextUnchangedFates, FinishFates
  DEF Work

-----------------------------------------------------------------------------
(* What the services do to the rows *)

\* The queue of e has been scrubbed by its delete only if it had been before.
Scrubbed(e) == del'[e] \in Cleaned => del[e] \in Cleaned

LEMMA RowsStay ==
  ASSUME FInv, UNCHANGED <<log, row, ended, drained>>, faults \subseteq faults',
         \A c \in Batches : Same(batch[c], batch'[c]), \A e \in Docs : Scrubbed(e)
  PROVE  Judged' /\ Released'
<1>1. InTable' = InTable /\ Inserted' = Inserted /\ Inserted \subseteq Ids
  BY InsertedIds DEF InTable, Inserted, FInv, IInv, TypeOK
<1>2. (Ingests(InTable))' = Ingests(InTable) /\ Ingests(InTable) \subseteq Inserted
  BY <1>1, InsertedIds, Part DEF Ingests, FInv, IInv, TypeOK
<1>3. Decided' /\ SlotReleased'
  BY <1>1 DEF FInv, Fates, Judged, Released, Decided, SlotReleased, Inserted
<1>4. ASSUME NEW c \in Batches
      PROVE  /\ (Judges(batch[c]))' <=> Judges(batch[c])
             /\ (Worked(batch[c]))' = Worked(batch[c])
             /\ (Pending(batch[c]))' = Pending(batch[c])
             /\ batch'[c].upd = batch[c].upd /\ batch'[c].failed = batch[c].failed
             /\ batch'[c].held = batch[c].held
             /\ batch'[c].pc = "reduce" <=> batch[c].pc = "reduce"
             /\ batch'[c].pc = "settle" <=> batch[c].pc = "settle"
  BY SameBatch
<1>5. ASSUME NEW c \in Batches
      PROVE  JudgedBatch(batch[c])'
  <2>1. JudgedBatch(batch[c])
    BY DEF FInv, Fates, Judged
  <2>2. (Canonical(batch[c].held))' = Canonical(batch[c].held)
    BY <1>4 DEF Canonical
  <2> QED
    BY <1>1, <1>4, <2>1, <2>2 DEF JudgedBatch
<1>6. ASSUME NEW c \in Batches
      PROVE  DrainedBatch(batch[c])'
  <2>1. DrainedBatch(batch[c])
    BY DEF FInv, Fates, Released
  <2>2. (Ingests(Worked(batch[c])))' = Ingests(Worked(batch[c]))
    BY <1>4 DEF Ingests
  <2> QED
    BY <1>4, <2>1, <2>2 DEF DrainedBatch
<1>7. ASSUME NEW i \in Ingests(InTable)
      PROVE  QueuedLate(i)' /\ (faults' = {} => ReleasedOnce(i)')
  <2>1. Scrubbed(log[i].doc)
    BY <1>2, InsertedIds DEF FInv, IInv, TypeOK
  <2>2. QueuedLate(i) /\ (faults = {} => ReleasedOnce(i))
    BY DEF FInv, Fates, Released
  <2>3. QueuedLate(i)'
    BY <1>4, <2>1, <2>2 DEF QueuedLate, Scrubbed
  <2>4. ASSUME faults' = {} PROVE ReleasedOnce(i)'
    BY <1>4, <2>2, <2>4 DEF ReleasedOnce, Untouched
  <2> QED
    BY <2>3, <2>4
<1> QED
  BY <1>2, <1>3, <1>5, <1>6, <1>7 DEF Judged, Released

LEMMA ScrubRows ==
  ASSUME FInv, NEW d \in Docs, Scrub(d), UNCHANGED <<log, batch, drained, faults>>,
         \A e \in Docs \ {d} : Scrubbed(e)
  PROVE  /\ Judged' /\ Released' /\ InTable' \subseteq InTable
         /\ ended' \in [Ids -> EndStates]
         /\ \A i \in Ingests(InTable') : log[i].doc # d
         /\ \A i \in Ids : /\ ended'[i] \in {ended[i], "replaced"}
                           /\ i \notin InTable => ended'[i] = ended[i]
<1> DEFINE out == {i \in Ingests(InTable) : log[i].doc = d}
<1>1. /\ InTable' = InTable \ out /\ Inserted' = Inserted /\ Inserted \subseteq Ids
      /\ InTable \subseteq Inserted /\ InTable' \subseteq InTable
  BY InsertedIds DEF Scrub, InTable, Inserted, FInv, IInv, TypeOK
<1>2. \A i \in Ids : ended'[i] = IF i \in out THEN "replaced" ELSE ended[i]
  BY DEF Scrub, Mark
<1>3. (Ingests(InTable))' = Ingests(InTable') /\ Ingests(InTable') \subseteq Ingests(InTable) \ out
  BY <1>1 DEF Ingests
<1>4. ended' \in [Ids -> EndStates]
  BY DEF Scrub, Mark, FInv, Fates, Queued, EndStates
<1>5. out \subseteq Ids
  BY <1>1, Part
<1>6. ASSUME NEW i \in Ingests(InTable')
      PROVE  /\ log[i].doc # d /\ log[i].doc \in Docs /\ i \in Ingests(InTable) /\ i \in Ids
             /\ ended'[i] = ended[i]
  BY <1>1, <1>2, <1>3, <1>6, InsertedIds, Part DEF FInv, IInv, TypeOK
<1> HIDE DEF out
<1>7. Decided' /\ SlotReleased'
  <2> SUFFICES ASSUME NEW i \in Inserted, i \notin InTable'
               PROVE  /\ ended'[i] # "open"
                      /\ log[i].op = "ingest" => SlotDone(i)'
    <3>1. \A i \in Inserted : row'[i] = "absent" => i \notin InTable'
      BY DEF InTable
    <3> QED
      BY <1>1, <3>1 DEF Decided, SlotReleased, SlotDone, Inserted
  <2>1. CASE i \in out
    BY <1>2, <1>5, <2>1 DEF SlotDone
  <2>2. CASE i \notin out
    <3>1. i \notin InTable /\ i \in Ids /\ ended'[i] = ended[i]
      BY <1>1, <1>2, <2>2
    <3>2. row[i] = "absent"
      BY <3>1 DEF InTable
    <3> QED
      BY <3>1, <3>2 DEF FInv, Fates, Judged, Decided, Released, SlotReleased, SlotDone, Inserted
  <2> QED
    BY <2>1, <2>2
<1>8. ASSUME NEW c \in Batches
      PROVE  /\ (Judges(batch[c]))' <=> Judges(batch[c])
             /\ (Worked(batch[c]))' = Worked(batch[c])
             /\ (Pending(batch[c]))' = Pending(batch[c])
             /\ batch[c].held \subseteq Ids /\ Worked(batch[c]) \subseteq batch[c].held
  BY Part DEF Judges, Writing, Worked, Pending, Canonical, FInv, IInv, TypeOK, BatchOK, BatchStates
<1>9. ASSUME NEW c \in Batches
      PROVE  JudgedBatch(batch[c])'
  <2>1. JudgedBatch(batch[c])
    BY DEF FInv, Fates, Judged
  <2>2. (Canonical(batch[c].held))' = Canonical(batch[c].held)
    BY DEF Canonical
  <2>3. \A i \in Ids : ended[i] # "open" => ended'[i] # "open"
    BY <1>2
  <2>4. \A i \in batch[c].held \ InTable' : ended'[i] = "replaced"
    BY <1>1, <1>2, <1>8, <2>1 DEF JudgedBatch
  <2> QED
    BY <1>8, <2>1, <2>2, <2>3, <2>4 DEF JudgedBatch
<1>10. ASSUME NEW c \in Batches
       PROVE  DrainedBatch(batch[c])'
  <2>1. DrainedBatch(batch[c])
    BY DEF FInv, Fates, Released
  <2>2. (Ingests(Worked(batch[c])))' = Ingests(Worked(batch[c]))
    BY <1>8 DEF Ingests
  <2> QED
    BY <1>8, <2>1, <2>2 DEF DrainedBatch
<1>11. ASSUME NEW i \in Ingests(InTable')
       PROVE  QueuedLate(i)' /\ (faults' = {} => ReleasedOnce(i)')
  <2>1. Scrubbed(log[i].doc)
    BY <1>6
  <2>2. QueuedLate(i) /\ (faults = {} => ReleasedOnce(i))
    BY <1>6 DEF FInv, Fates, Released
  <2>3. QueuedLate(i)'
    BY <1>6, <2>1, <2>2 DEF QueuedLate, Scrubbed
  <2>4. ASSUME faults' = {} PROVE ReleasedOnce(i)'
    BY <1>6, <1>8, <2>2, <2>4 DEF ReleasedOnce, Untouched
  <2> QED
    BY <2>3, <2>4
<1>12. \A i \in Ids : /\ ended'[i] \in {ended[i], "replaced"}
                      /\ i \notin InTable => ended'[i] = ended[i]
  <2>1. out \subseteq InTable
    BY Part DEF out
  <2> QED
    BY <1>2, <2>1
<1> QED
  BY <1>1, <1>3, <1>4, <1>6, <1>7, <1>9, <1>10, <1>11, <1>12 DEF Judged, Released

LEMMA AddedRow ==
  ASSUME TypeOK, NEW d \in Docs, NEW op, AddRow(d, op)
  PROVE  \E n \in Ids :
           /\ n \notin Inserted /\ Inserted' = Inserted \cup {n} /\ InTable' = InTable \cup {n}
           /\ \A i \in Inserted : i < n /\ log'[i] = log[i]
           /\ log'[n].doc = d /\ log'[n].op = op
           /\ row'[n] = "free" /\ \A i \in Ids \ {n} : row'[i] = row[i]
<1> DEFINE n == Len(log) + 1
           e == [doc |-> d, op |-> op]
<1>1. Len(log) \in Nat /\ log \in Seq([doc : Docs, op : {"ingest", "retract"}])
  BY LenProperties DEF TypeOK, TableOK
<1>2. n \in Ids
  BY <1>1, WikiAssumption DEF AddRow, Ids
<1>3. log' = Append(log, e)
  BY DEF AddRow
<1>4. Len(log') = n /\ log'[n] = e /\ \A i \in 1..Len(log) : log'[i] = log[i]
  BY <1>1, <1>3
<1>5. n \notin Inserted /\ Inserted' = Inserted \cup {n} /\ \A i \in Inserted : i < n
  BY <1>1, <1>4 DEF Inserted
<1>6. row'[n] = "free" /\ \A i \in Ids \ {n} : row'[i] = row[i]
  BY <1>2 DEF AddRow, TypeOK, TableOK
<1>7. InTable' = InTable \cup {n}
  BY <1>2, <1>6 DEF InTable
<1> QED
  BY <1>2, <1>4, <1>5, <1>6, <1>7 DEF Inserted

LEMMA AddedFates ==
  ASSUME FInv, NEW d \in Docs, NEW op \in {"ingest", "retract"}, AddRow(d, op),
         UNCHANGED <<batch, ended, drained, faults>>, \A e \in Docs : Scrubbed(e)
  PROVE  Judged' /\ Released'
<1>1. PICK n \in Ids :
           /\ n \notin Inserted /\ Inserted' = Inserted \cup {n} /\ InTable' = InTable \cup {n}
           /\ \A i \in Inserted : i < n /\ log'[i] = log[i]
           /\ log'[n].doc = d /\ log'[n].op = op
           /\ row'[n] = "free" /\ \A i \in Ids \ {n} : row'[i] = row[i]
  BY AddedRow DEF FInv, IInv
<1>2. InTable \subseteq Inserted /\ Inserted \subseteq Ids
  BY InsertedIds DEF FInv, IInv, TypeOK
<1>3. ended[n] = "open" /\ drained[n] = 0
  BY <1>1 DEF FInv, Fates, Queued
<1>4. ASSUME NEW c \in Batches
      PROVE  /\ (Judges(batch[c]))' <=> Judges(batch[c])
             /\ (Canonical(batch[c].held))' = Canonical(batch[c].held)
             /\ (Worked(batch[c]))' = Worked(batch[c])
             /\ (Pending(batch[c]))' = Pending(batch[c])
             /\ batch[c].held \subseteq Inserted /\ Worked(batch[c]) \subseteq batch[c].held
             /\ batch[c].upd \cup batch[c].failed \subseteq batch[c].held
  <2>1. /\ batch[c].held \subseteq Inserted /\ Worked(batch[c]) \subseteq batch[c].held
        /\ batch[c].upd \cup batch[c].failed \subseteq batch[c].held
    BY Part DEF Worked, FInv, IInv, TypeOK, BatchOK, Consistent, Inserted
  <2>2. (Canonical(batch[c].held))' = Canonical(batch[c].held)
    BY <1>1, <2>1 DEF Canonical
  <2>3. (Worked(batch[c]))' = Worked(batch[c])
    BY <2>2 DEF Worked
  <2> QED
    BY <2>1, <2>2, <2>3 DEF Judges, Writing, Pending
<1>5. Decided' /\ SlotReleased'
  <2> SUFFICES ASSUME NEW i \in Inserted', row'[i] = "absent"
               PROVE  /\ ended[i] # "open"
                      /\ log'[i].op = "ingest" => SlotDone(i)
    BY DEF Decided, SlotReleased, SlotDone, Inserted
  <2>1. i \in Inserted /\ row[i] = "absent" /\ log'[i] = log[i]
    BY <1>1, <1>2
  <2> QED
    BY <2>1 DEF FInv, Fates, Judged, Decided, Released, SlotReleased, SlotDone, Inserted
<1>6. ASSUME NEW c \in Batches
      PROVE  JudgedBatch(batch[c])'
  <2>1. JudgedBatch(batch[c])
    BY DEF FInv, Fates, Judged
  <2>2. batch[c].held \ InTable' \subseteq batch[c].held \ InTable
    BY <1>1
  <2> QED
    BY <1>4, <2>1, <2>2 DEF JudgedBatch
<1>7. ASSUME NEW c \in Batches
      PROVE  DrainedBatch(batch[c])'
  <2>1. DrainedBatch(batch[c])
    BY DEF FInv, Fates, Released
  <2>2. (Ingests(Worked(batch[c])))' = Ingests(Worked(batch[c]))
    BY <1>1, <1>4 DEF Ingests
  <2> QED
    BY <1>4, <2>1, <2>2 DEF DrainedBatch
<1>8. ASSUME NEW i \in (Ingests(InTable))'
      PROVE  QueuedLate(i)' /\ (faults' = {} => ReleasedOnce(i)')
  <2>1. CASE i = n
    <3>1. \A c \in Batches : i \notin batch[c].held
      BY <1>1, <1>4, <2>1
    <3>2. \A c \in Batches : i \notin batch[c].upd \cup batch[c].failed /\ i \notin Worked(batch[c])
      BY <1>4, <3>1
    <3> QED
      BY <1>3, <1>4, <2>1, <3>2 DEF QueuedLate, ReleasedOnce, Untouched
  <2>2. CASE i # n
    <3>1. i \in Ingests(InTable) /\ i \in Inserted /\ log'[i] = log[i] /\ log[i].doc \in Docs
      <4>1. i \in InTable' /\ log'[i].op = "ingest"
        BY DEF Ingests
      <4>2. i \in InTable /\ i \in Inserted /\ log'[i] = log[i]
        BY <1>1, <1>2, <2>2, <4>1
      <4> QED
        BY <4>1, <4>2, InsertedIds DEF Ingests, FInv, IInv, TypeOK
    <3>2. QueuedLate(i) /\ (faults = {} => ReleasedOnce(i)) /\ Scrubbed(log[i].doc)
      BY <3>1 DEF FInv, Fates, Released
    <3>3. QueuedLate(i)'
      BY <3>1, <3>2 DEF QueuedLate, Scrubbed
    <3>4. ASSUME faults' = {} PROVE ReleasedOnce(i)'
      BY <1>4, <3>2, <3>4 DEF ReleasedOnce, Untouched
    <3> QED
      BY <3>3, <3>4
  <2> QED
    BY <2>1, <2>2
<1> QED
  BY <1>5, <1>6, <1>7, <1>8 DEF Judged, Released


\* The page and the batches are left alone, and no row newly bears on the page.
LEMMA PageStays ==
  ASSUME FInv, UNCHANGED <<page, batch, unversioned>>, faults \subseteq faults',
         \A i \in Inserted : log'[i] = log[i],
         \A i \in Inserted' : ended'[i] \in Carried =>
            i \in Inserted /\ ended'[i] = ended[i],
         \A e \in Docs : del[e] \in Fixed => del'[e] \in Fixed,
         \A e \in Docs : del'[e] = "fix" => copy'[e].refs \subseteq Docs,
         gone \subseteq gone',
         \A e \in gone' \ late' : e \in gone \ late \/ (e \notin gone /\ \A b \in Batches : e \notin Adds(b))
  PROVE  PageOK' /\ Current' /\ AppliedStays' /\ Retracted'
<1>1. /\ Queued /\ PageOK /\ Current /\ AppliedStays /\ Retracted
      /\ unversioned \in BOOLEAN /\ \A i \in Inserted : log[i].doc \in Docs
  BY InsertedIds DEF FInv, Fates, IInv, TypeOK
<1>2. ~Unguarded' => ~Unguarded
  BY <1>1, StillUnguarded
<1>3. \A c \in Batches : Writer(batch[c])' => Writer(batch[c])
  BY SameWriter DEF Same
<1>4. \A c \in Batches : Adds(c)' = Adds(c)
  <2> TAKE c \in Batches
  <2>1. batch[c].kept \subseteq Inserted
    BY DEF FInv, IInv, TypeOK, BatchOK, Consistent, Inserted
  <2> QED
    BY <2>1 DEF Adds, Additions, DocsOf, Ingests
<1>5. PageOK'
  <2>1. Cites(page)' /\ \A c \in Batches : Writing(batch[c])' => Cites(batch[c].base)'
    BY <1>1 DEF PageOK, Cites, NoPage, Writing
  <2>2. \A e \in gone' \ late', c \in Batches : e \notin Adds(c)'
    BY <1>1, <1>4 DEF PageOK
  <2> QED
    BY <2>1, <2>2 DEF PageOK
<1>6. Current'
  BY <1>1, <1>2, <1>3 DEF Current, NoPage
<1>7. AppliedStays'
  <2> SUFFICES ASSUME gone' = {}, ~Unguarded', NEW i \in Inserted', ended'[i] = "applied"
               PROVE  log'[i].doc \in page
    BY DEF AppliedStays, Inserted
  <2>1. i \in Inserted /\ ended[i] = "applied" /\ log'[i] = log[i]
    BY DEF Carried
  <2> QED
    BY <1>1, <1>2, <2>1 DEF AppliedStays, Inserted
<1>8. Retracted'
  <2> SUFFICES ASSUME ~Unguarded', NEW d \in gone' \ late', gone' = {d},
                      NEW i \in (Retracts(Inserted))', ended'[i] \in Carried
               PROVE  GoneForGood(d)'
    BY DEF Retracted, Retracting, Carried
  <2>1. i \in Inserted' /\ log'[i].op = "retract"
    BY DEF Retracts
  <2>2. i \in Inserted /\ ended[i] \in Carried /\ log'[i] = log[i]
    BY <2>1
  <2>3. i \in Retracts(Inserted)
    BY <2>1, <2>2 DEF Retracts
  <2>4. CASE d \in gone \ late
    <3>1. gone = {d}
      BY <2>4
    <3>2. GoneForGood(d)
      BY <1>1, <1>2, <2>2, <2>3, <2>4, <3>1 DEF Retracted, Retracting, Carried
    <3> QED
      BY <1>3, <3>2 DEF GoneForGood
  <2>5. CASE d \notin gone
    <3>1. del[log[i].doc] \in Deleting /\ log[i].doc \in Docs
      BY <1>1, <2>2, <2>3 DEF Queued, Deleting, Cleaned, Fixed
    <3>2. log[i].doc \in gone
      BY <1>1, <3>1 DEF Queued
    <3> QED
      BY <2>5, <3>2
  <2> QED
    BY <2>4, <2>5
<1> QED
  BY <1>5, <1>6, <1>7, <1>8

-----------------------------------------------------------------------------
(* The services *)

LEMMA EnqueueWikiIngestFates ==
  ASSUME FInv, NEW d \in Docs, EnqueueWikiIngest(d)
  PROVE  Fates'
<1>1. /\ AddRow(d, "ingest") /\ d \in plan /\ plan' = plan \ {d}
      /\ UNCHANGED <<gone, del, copy, late, page, unversioned, batch, ended, drained, faults>>
  BY DEF EnqueueWikiIngest, wiki, ghosts
<1>2. Judged' /\ Released'
  BY <1>1, AddedFates DEF Scrubbed
<1>3. PICK n \in Ids :
           /\ n \notin Inserted /\ Inserted' = Inserted \cup {n} /\ InTable' = InTable \cup {n}
           /\ \A i \in Inserted : i < n /\ log'[i] = log[i]
           /\ log'[n].doc = d /\ log'[n].op = "ingest"
           /\ row'[n] = "free" /\ \A i \in Ids \ {n} : row'[i] = row[i]
  BY <1>1, AddedRow DEF FInv, IInv
<1>4. /\ Inserted \subseteq Ids /\ InTable \subseteq Inserted /\ ended[n] = "open" /\ Queued
      /\ Inserted \subseteq Int /\ n \in Int
  BY <1>3, InsertedIds, WikiAssumption DEF FInv, IInv, TypeOK, Fates, Queued, Ids
<1>5. PageOK' /\ Current' /\ AppliedStays' /\ Retracted'
  <2>1. \A i \in Inserted' : ended'[i] \in Carried => i \in Inserted /\ ended'[i] = ended[i]
    BY <1>1, <1>3, <1>4 DEF Carried
  <2>2. \A e \in Docs : del'[e] = "fix" => copy'[e].refs \subseteq Docs
    BY <1>1 DEF FInv, Fates, PageOK
  <2> QED
    BY <1>1, <1>3, <2>1, <2>2, PageStays
<1>6. (Retracts(Inserted))' = Retracts(Inserted)
  BY <1>3 DEF Retracts
<1>7. (Ingests(Inserted))' = Ingests(Inserted) \cup {n} /\ Ingests(Inserted) \subseteq Inserted
  BY <1>3 DEF Ingests
<1>8. (Ingests(InTable))' = Ingests(InTable) \cup {n} /\ Ingests(InTable) \subseteq Inserted
  BY <1>3, <1>4 DEF Ingests
<1>9. \A i \in Retracts(Inserted) : log'[i] = log[i]
  BY <1>3 DEF Retracts
<1>10. /\ (\A i \in Retracts(Inserted) : del[log[i].doc] \in {"done", "doneKnown"})'
       /\ (\A e \in Docs : del[e] \in {"done", "doneKnown"} =>
             \E i \in Retracts(Inserted) : log[i].doc = e)'
  <2>1. \A i \in Retracts(Inserted) : del[log[i].doc] \in {"done", "doneKnown"}
    BY <1>4 DEF Queued
  <2>2. \A e \in Docs : del[e] \in {"done", "doneKnown"} =>
          \E i \in Retracts(Inserted) : log[i].doc = e
    BY <1>4 DEF Queued
  <2> QED
    BY <1>1, <1>6, <1>9, <2>1, <2>2
<1>11. (\A i \in Ingests(InTable) : log[i].doc \notin plan)'
  BY <1>1, <1>3, <1>4, <1>8 DEF Queued
<1>12. ASSUME NEW i \in (Ingests(Inserted))', NEW j \in (Ingests(Inserted))',
              log'[i].doc = log'[j].doc, i < j
       PROVE  row'[i] = "absent"
  <2>1. CASE i = n
    <3>1. j \in Inserted \cup {n} /\ n \in Int /\ n < j
      BY <1>4, <1>7, <1>12, <2>1
    <3>2. j # n
      BY <3>1
    <3>3. j < n /\ j \in Int
      BY <1>3, <1>4, <3>1, <3>2
    <3> QED
      BY <3>1, <3>3
  <2>2. CASE i # n /\ j # n
    BY <1>3, <1>4, <1>7, <1>12, <2>2, ZenonT(60) DEF Queued
  <2>3. CASE i # n /\ j = n
    <3>1. i \in Inserted /\ i \in Ingests(Inserted) /\ log[i].doc = d /\ row'[i] = row[i]
      BY <1>3, <1>4, <1>7, <1>12, <2>3
    <3>2. i \notin InTable
      BY <1>1, <1>4, <3>1 DEF Queued, Ingests
    <3> QED
      BY <1>4, <3>1, <3>2 DEF InTable
  <2> QED
    BY <2>1, <2>2, <2>3
<1>13. (\A i \in Ids \ Inserted : ended[i] = "open" /\ drained[i] = 0)'
  BY <1>1, <1>3, <1>4 DEF Queued
<1>14. Queued'
  BY <1>1, <1>4, <1>10, <1>11, <1>12, <1>13 DEF Queued
<1> QED
  BY <1>2, <1>5, <1>14 DEF Fates

LEMMA EnqueueWikiRetractFates ==
  ASSUME FInv, NEW d \in Docs, EnqueueWikiRetract(d)
  PROVE  Fates'
<1>1. /\ AddRow(d, "retract") /\ del[d] \in {"retract", "retractKnown"}
      /\ del' = [del EXCEPT ![d] = IF @ = "retract" THEN "done" ELSE "doneKnown"]
      /\ UNCHANGED <<plan, gone, copy, late, page, unversioned, batch, ended, drained, faults>>
  BY DEF EnqueueWikiRetract, wiki, ghosts
<1>2. Queued
  BY DEF FInv, Fates
<1>3. /\ del' \in [Docs -> DelStates]
      /\ del'[d] = IF del[d] = "retract" THEN "done" ELSE "doneKnown"
      /\ \A e \in Docs \ {d} : del'[e] = del[e]
  BY <1>1, <1>2 DEF Queued, DelStates, Deleting, Cleaned, Fixed
<1>4. Judged' /\ Released'
  <2>1. \A e \in Docs : Scrubbed(e)
    BY <1>1, <1>3 DEF Scrubbed, Cleaned, Fixed
  <2> QED
    BY <1>1, <2>1, AddedFates
<1>5. PICK n \in Ids :
           /\ n \notin Inserted /\ Inserted' = Inserted \cup {n} /\ InTable' = InTable \cup {n}
           /\ \A i \in Inserted : i < n /\ log'[i] = log[i]
           /\ log'[n].doc = d /\ log'[n].op = "retract"
           /\ row'[n] = "free" /\ \A i \in Ids \ {n} : row'[i] = row[i]
  BY <1>1, AddedRow DEF FInv, IInv
<1>6. /\ Inserted \subseteq Ids /\ InTable \subseteq Inserted /\ ended[n] = "open"
      /\ \A i \in Inserted : log[i].doc \in Docs
  BY <1>2, <1>5, InsertedIds DEF FInv, IInv, TypeOK, Queued
<1>7. PageOK' /\ Current' /\ AppliedStays' /\ Retracted'
  <2>1. \A i \in Inserted' : ended'[i] \in Carried => i \in Inserted /\ ended'[i] = ended[i]
    BY <1>1, <1>5, <1>6 DEF Carried
  <2>2. \A e \in Docs : del'[e] = "fix" => copy'[e].refs \subseteq Docs
    BY <1>1, <1>3 DEF FInv, Fates, PageOK
  <2>3. \A e \in Docs : del[e] \in Fixed => del'[e] \in Fixed
    BY <1>1, <1>3 DEF Fixed
  <2> QED
    BY <1>1, <1>5, <2>1, <2>2, <2>3, PageStays
<1>8. (Retracts(Inserted))' = Retracts(Inserted) \cup {n} /\ Retracts(Inserted) \subseteq Inserted
  BY <1>5 DEF Retracts
<1>9. (Ingests(Inserted))' = Ingests(Inserted) /\ Ingests(Inserted) \subseteq Inserted
  BY <1>5 DEF Ingests
<1>10. (Ingests(InTable))' = Ingests(InTable) /\ Ingests(InTable) \subseteq Inserted
  BY <1>5, <1>6 DEF Ingests
<1>11. (\A i \in Retracts(Inserted) : del[log[i].doc] \in {"done", "doneKnown"})'
  BY <1>1, <1>2, <1>3, <1>5, <1>6, <1>8 DEF Queued
<1>12. (\A e \in Docs : del[e] \in {"done", "doneKnown"} =>
          \E i \in Retracts(Inserted) : log[i].doc = e)'
  <2> SUFFICES ASSUME NEW e \in Docs, del'[e] \in {"done", "doneKnown"}
               PROVE  \E i \in (Retracts(Inserted))' : log'[i].doc = e
    OBVIOUS
  <2>1. CASE e = d
    BY <1>5, <1>8, <2>1
  <2>2. CASE e # d
    <3>1. PICK i \in Retracts(Inserted) : log[i].doc = e
      BY <1>2, <1>3, <2>2 DEF Queued
    <3> QED
      BY <1>5, <1>8, <3>1
  <2> QED
    BY <2>1, <2>2
<1>13. (\A i \in Ingests(InTable) : log[i].doc \notin plan)'
  BY <1>1, <1>2, <1>5, <1>10 DEF Queued
<1>14. (\A i, j \in Ingests(Inserted) : log[i].doc = log[j].doc /\ i < j => row[i] = "absent")'
  <2>1. \A i \in Inserted : row'[i] = row[i]
    BY <1>5, <1>6
  <2> QED
    BY <1>2, <1>5, <1>9, <2>1 DEF Queued
<1>15. (\A i \in Ids \ Inserted : ended[i] = "open" /\ drained[i] = 0)'
  BY <1>1, <1>2, <1>5 DEF Queued
<1>16. \A e \in Docs : e \in gone' <=> del'[e] \in Deleting
  BY <1>1, <1>2, <1>3 DEF Queued, Deleting, Cleaned, Fixed
<1>17. Queued'
  BY <1>1, <1>2, <1>3, <1>11, <1>12, <1>13, <1>14, <1>15, <1>16 DEF Queued
<1> QED
  BY <1>4, <1>7, <1>17 DEF Fates

LEMMA ScrubFates ==
  ASSUME FInv, NEW d \in Docs, PrepareWikiForReparse(d) \/ ScrubWikiPendingIngest(d)
  PROVE  Fates'
<1>1. /\ Scrub(d)
      /\ UNCHANGED <<log, gone, copy, late, page, unversioned, batch, drained, faults>>
      /\ \/ del[d] \in {"no", "cancelled"} /\ del' = [del EXCEPT ![d] = "no"]
            /\ plan' = plan \cup {d}
         \/ del[d] = "scrub" /\ del' = [del EXCEPT ![d] = "list"] /\ plan' = plan
         \/ del[d] = "cancel" /\ del' = [del EXCEPT ![d] = "cancelled"] /\ plan' = plan
  BY DEF PrepareWikiForReparse, ScrubWikiPendingIngest, wiki
<1>2. Queued
  BY DEF FInv, Fates
<1>3. /\ del' \in [Docs -> DelStates] /\ plan' \subseteq plan \cup {d}
      /\ \A e \in Docs \ {d} : del'[e] = del[e]
      /\ \/ del[d] = "scrub" /\ del'[d] = "list"
         \/ {del[d], del'[d]} \subseteq {"no", "cancel", "cancelled"}
  BY <1>1, <1>2 DEF Queued, DelStates, Deleting, Cleaned, Fixed
<1>4. \A e \in Docs \ {d} : Scrubbed(e)
  BY <1>3 DEF Scrubbed
<1>5. /\ Judged' /\ Released' /\ InTable' \subseteq InTable
      /\ ended' \in [Ids -> EndStates]
      /\ \A i \in Ingests(InTable') : log[i].doc # d
      /\ \A i \in Ids : /\ ended'[i] \in {ended[i], "replaced"}
                        /\ i \notin InTable => ended'[i] = ended[i]
  BY <1>1, <1>4, ScrubRows
<1>6. /\ Inserted' = Inserted /\ Inserted \subseteq Ids /\ InTable \subseteq Inserted
      /\ \A i \in Inserted : log[i].doc \in Docs
  BY <1>1, InsertedIds DEF Inserted, FInv, IInv, TypeOK
<1>7. PageOK' /\ Current' /\ AppliedStays' /\ Retracted'
  <2>1. \A i \in Inserted' : ended'[i] \in Carried => i \in Inserted /\ ended'[i] = ended[i]
    BY <1>5, <1>6 DEF Carried
  <2>2. \A e \in Docs : del'[e] = "fix" => copy'[e].refs \subseteq Docs
    BY <1>1, <1>3 DEF FInv, Fates, PageOK
  <2>3. \A e \in Docs : del[e] \in Fixed => del'[e] \in Fixed
    BY <1>3 DEF Fixed
  <2> QED
    BY <1>1, <2>1, <2>2, <2>3, PageStays
<1>8. /\ (Retracts(Inserted))' = Retracts(Inserted) /\ Retracts(Inserted) \subseteq Inserted
      /\ (Ingests(Inserted))' = Ingests(Inserted) /\ Ingests(Inserted) \subseteq Inserted
      /\ (Ingests(InTable))' = Ingests(InTable') /\ Ingests(InTable') \subseteq Ingests(InTable)
  BY <1>1, <1>5, <1>6 DEF Retracts, Ingests
<1>9. (\A i \in Retracts(Inserted) : del[log[i].doc] \in {"done", "doneKnown"})'
  BY <1>1, <1>2, <1>3, <1>6, <1>8 DEF Queued
<1>10. (\A e \in Docs : del[e] \in {"done", "doneKnown"} =>
          \E i \in Retracts(Inserted) : log[i].doc = e)'
  BY <1>1, <1>2, <1>3, <1>8 DEF Queued
<1>11. (\A i \in Ingests(InTable) : log[i].doc \notin plan)'
  BY <1>1, <1>2, <1>3, <1>5, <1>8 DEF Queued
<1>12. (\A i, j \in Ingests(Inserted) : log[i].doc = log[j].doc /\ i < j => row[i] = "absent")'
  <2>1. \A i \in Inserted : row[i] = "absent" => row'[i] = "absent"
    BY <1>5, <1>6 DEF InTable
  <2> QED
    BY <1>1, <1>2, <1>8, <2>1 DEF Queued
<1>13. (\A i \in Ids \ Inserted : ended[i] = "open" /\ drained[i] = 0)'
  BY <1>1, <1>2, <1>5, <1>6 DEF Queued
<1>14. /\ \A e \in Docs : e \in gone' <=> del'[e] \in Deleting
       /\ \A i \in Ids : ended'[i] = "mistaken" => "db" \in faults'
  BY <1>1, <1>2, <1>3, <1>5 DEF Queued, Deleting, Cleaned, Fixed
<1>15. Queued'
  BY <1>3, <1>5, <1>9, <1>10, <1>11, <1>12, <1>13, <1>14 DEF Queued
<1> QED
  BY <1>5, <1>7, <1>15 DEF Fates


\* What Queued asks when only the deletions move on.
LEMMA QueuedStays ==
  ASSUME Queued, UNCHANGED <<log, row, plan, ended, drained>>, faults \subseteq faults',
         del' \in [Docs -> DelStates],
         \A e \in Docs : e \in gone' <=> del'[e] \in Deleting,
         \A e \in Docs : del[e] \in {"done", "doneKnown"} <=> del'[e] \in {"done", "doneKnown"},
         \A i \in Retracts(Inserted) : log[i].doc \in Docs
  PROVE  Queued'
<1>1. Inserted' = Inserted /\ InTable' = InTable
  BY DEF Inserted, InTable
<1>2. /\ (Retracts(Inserted))' = Retracts(Inserted)
      /\ (Ingests(Inserted))' = Ingests(Inserted) /\ (Ingests(InTable))' = Ingests(InTable)
  BY <1>1 DEF Ingests, Retracts
<1>3. (\A i \in Retracts(Inserted) : del[log[i].doc] \in {"done", "doneKnown"})'
  BY <1>2 DEF Queued
<1>4. (\A e \in Docs : del[e] \in {"done", "doneKnown"} =>
          \E i \in Retracts(Inserted) : log[i].doc = e)'
  BY <1>2 DEF Queued
<1> QED
  BY <1>1, <1>2, <1>3, <1>4 DEF Queued

\* A step that moves deletions on and leaves rows, batches and page alone.
LEMMA Quiet ==
  ASSUME FInv, UNCHANGED <<log, row, plan, ended, drained, page, batch, unversioned>>,
         faults \subseteq faults', del' \in [Docs -> DelStates],
         \A e \in Docs : e \in gone' <=> del'[e] \in Deleting,
         \A e \in Docs : del[e] \in {"done", "doneKnown"} <=> del'[e] \in {"done", "doneKnown"},
         \A e \in Docs : Scrubbed(e),
         \A e \in Docs : del[e] \in Fixed => del'[e] \in Fixed,
         \A e \in Docs : del'[e] = "fix" => copy'[e].refs \subseteq Docs,
         gone \subseteq gone',
         \A e \in gone' \ late' : e \in gone \ late \/ (e \notin gone /\ \A b \in Batches : e \notin Adds(b))
  PROVE  Fates'
<1>1. \A i \in Retracts(Inserted) : log[i].doc \in Docs
  BY InsertedIds, Part DEF FInv, IInv, TypeOK
<1>2. Queued'
  BY <1>1, QueuedStays DEF FInv, Fates
<1>3. Judged' /\ Released'
  BY RowsStay DEF Same
<1>4. PageOK' /\ Current' /\ AppliedStays' /\ Retracted'
  <2>1. Inserted' = Inserted
    BY DEF Inserted
  <2> QED
    BY <2>1, PageStays
<1> QED
  BY <1>2, <1>3, <1>4 DEF Fates

LEMMA MarkFates ==
  ASSUME FInv, NEW d \in Docs, MarkKnowledgeCancelled(d) \/ MarkKnowledgeDeleted(d)
  PROVE  Fates'
<1>1. /\ UNCHANGED <<log, row, plan, copy, page, unversioned, batch, ended, drained, faults>>
      /\ \/ /\ del[d] = "no" /\ UNCHANGED <<gone, late>>
            /\ del' = [del EXCEPT ![d] = "cancel"]
         \/ /\ d \notin gone /\ gone' = gone \cup {d} /\ del' = [del EXCEPT ![d] = "scrub"]
            /\ late' = IF \E b \in Batches : d \in Adds(b) THEN late \cup {d} ELSE late
  BY DEF MarkKnowledgeCancelled, MarkKnowledgeDeleted, table, wiki, ghosts, Adds
<1>2. Queued /\ PageOK
  BY DEF FInv, Fates
<1>3. /\ del' \in [Docs -> DelStates] /\ \A e \in Docs \ {d} : del'[e] = del[e]
      /\ del'[d] \in {"scrub", "cancel"} /\ del[d] \notin Deleting
      /\ d \in gone' <=> del'[d] = "scrub"
  BY <1>1, <1>2 DEF Queued, DelStates, Deleting, Cleaned, Fixed
<1>4. \A e \in Docs : e \in gone' <=> del'[e] \in Deleting
  <2>1. \A e \in Docs \ {d} : e \in gone' <=> e \in gone
    BY <1>1
  <2> QED
    BY <1>2, <1>3, <2>1 DEF Queued, Deleting, Cleaned, Fixed
<1>5. /\ \A e \in Docs : del[e] \in {"done", "doneKnown"} <=> del'[e] \in {"done", "doneKnown"}
      /\ \A e \in Docs : Scrubbed(e)
      /\ \A e \in Docs : del[e] \in Fixed => del'[e] \in Fixed
  BY <1>3 DEF Scrubbed, Deleting, Cleaned, Fixed
<1>6. \A e \in Docs : del'[e] = "fix" => copy'[e].refs \subseteq Docs
  BY <1>1, <1>2, <1>3 DEF PageOK
<1>7. /\ gone \subseteq gone'
      /\ \A e \in gone' \ late' : e \in gone \ late \/ (e \notin gone /\ \A b \in Batches : e \notin Adds(b))
  BY <1>1
<1> QED
  BY <1>1, <1>3, <1>4, <1>5, <1>6, <1>7, Quiet

LEMMA CleanupListFates ==
  ASSUME FInv, NEW d \in Docs, CleanupList(d) \/ RetractNotQueued(d)
  PROVE  Fates'
<1>1. /\ UNCHANGED <<log, row, plan, gone, late, page, unversioned, batch, ended, drained>>
      /\ faults \subseteq faults'
      /\ \/ /\ del[d] = "list" /\ d \in page /\ del' = [del EXCEPT ![d] = "fix"]
            /\ copy' = [copy EXCEPT ![d] = [refs |-> page, same |-> TRUE]]
         \/ /\ del[d] = "list" /\ del' = [del EXCEPT ![d] = "retract"] /\ copy' = copy
         \/ /\ del[d] \in {"retract", "retractKnown"} /\ copy' = copy
            /\ del' = [del EXCEPT ![d] = "unqueued"]
  BY DEF CleanupList, RetractNotQueued, table, wiki, ghosts, Suffers, Fault
<1>2. Queued /\ PageOK /\ copy \in [Docs -> Copies]
  BY DEF FInv, Fates, IInv, TypeOK
<1>3. /\ del' \in [Docs -> DelStates] /\ \A e \in Docs \ {d} : del'[e] = del[e]
      /\ \/ del[d] = "list" /\ del'[d] \in {"fix", "retract"}
         \/ del[d] \in {"retract", "retractKnown"} /\ del'[d] = "unqueued"
  BY <1>1, <1>2 DEF Queued, DelStates, Deleting, Cleaned, Fixed
<1>4. \A e \in Docs : e \in gone' <=> del'[e] \in Deleting
  BY <1>1, <1>2, <1>3 DEF Queued, Deleting, Cleaned, Fixed
<1>5. /\ \A e \in Docs : del[e] \in {"done", "doneKnown"} <=> del'[e] \in {"done", "doneKnown"}
      /\ \A e \in Docs : Scrubbed(e)
      /\ \A e \in Docs : del[e] \in Fixed => del'[e] \in Fixed
  BY <1>3 DEF Scrubbed, Cleaned, Fixed
<1>6. ASSUME NEW e \in Docs, del'[e] = "fix"
      PROVE  copy'[e].refs \subseteq Docs
  <2>1. CASE e # d
    <3>1. copy'[e] = copy[e] /\ del[e] = "fix"
      BY <1>1, <1>2, <1>3, <1>6, <2>1
    <3> QED
      BY <1>2, <3>1 DEF PageOK
  <2>2. CASE e = d
    <3>1. d \in page /\ copy'[d] = [refs |-> page, same |-> TRUE]
      BY <1>1, <1>2, <1>3, <1>6, <2>2 DEF Queued
    <3>2. page \subseteq Docs
      BY <1>2, <3>1, WikiAssumption DEF PageOK, Cites, NoPage
    <3> QED
      BY <2>2, <3>1, <3>2
  <2> QED
    BY <2>1, <2>2
<1> QED
  BY <1>1, <1>3, <1>4, <1>5, <1>6, Quiet

LEMMA CleanupFixFates ==
  ASSUME FInv, NEW d \in Docs, CleanupFix(d)
  PROVE  Fates'
<1> DEFINE rest == copy[d].refs \ {d}
           finds(works) == works /\ page # NoPage /\ (rest = {} \/ copy[d].same)
           others == [e \in Docs |-> [copy[e] EXCEPT !.same = FALSE]]
<1>1. PICK works \in BOOLEAN :
        /\ Suffers(DbError(~works))
        /\ del' = [del EXCEPT ![d] = IF finds(works) THEN "retractKnown" ELSE "retract"]
        /\ page' = IF ~finds(works) THEN page ELSE IF rest = {} THEN NoPage ELSE rest
        /\ copy' = [(IF finds(works) /\ rest = {} THEN others ELSE copy) EXCEPT ![d] = NoCopy]
        /\ batch' = IF finds(works) /\ rest = {} THEN Moved({"write", "meta"}) ELSE batch
  BY Zenon DEF CleanupFix
<1> DEFINE found == finds(works)
<1>2. /\ UNCHANGED <<log, row, plan, gone, late, unversioned, ended, drained>>
      /\ del[d] = "fix" /\ faults \subseteq faults'
  BY <1>1 DEF CleanupFix, table, Suffers
<1>3. /\ Queued /\ PageOK /\ Current /\ Retracted /\ gone \subseteq Docs
      /\ copy \in [Docs -> Copies] /\ BatchOK /\ unversioned \in BOOLEAN
  BY DEF FInv, Fates, IInv, TypeOK
<1>4. rest \subseteq Docs /\ rest # NoPage
  BY <1>2, <1>3, WikiAssumption DEF PageOK, NoPage
<1>5. \A e \in Docs \ {d} : copy'[e].refs = copy[e].refs
  <2>1. \A e \in Docs : others[e].refs = copy[e].refs
    BY <1>3 DEF Copies
  <2>2. CASE found /\ rest = {}
    BY <1>1, <2>1, <2>2
  <2>3. CASE ~(found /\ rest = {})
    BY <1>1, <1>3, <2>3
  <2> QED
    BY <2>2, <2>3
<1>6. /\ del' = [del EXCEPT ![d] = IF found THEN "retractKnown" ELSE "retract"]
      /\ page' = IF ~found THEN page ELSE IF rest = {} THEN NoPage ELSE rest
      /\ batch' = IF found /\ rest = {} THEN Moved({"write", "meta"}) ELSE batch
  BY <1>1
<1> HIDE DEF found, rest, others, finds
<1>7. /\ del' \in [Docs -> DelStates] /\ d \in gone
      /\ del'[d] = IF found THEN "retractKnown" ELSE "retract"
      /\ \A e \in Docs \ {d} : del'[e] = del[e]
  BY <1>2, <1>3, <1>6 DEF Queued, DelStates, Deleting, Cleaned, Fixed
<1>8. \A c \in Batches : Same(batch[c], batch'[c])
  <2>1. CASE batch' = batch
    BY <2>1 DEF Same
  <2>2. CASE batch' = Moved({"write", "meta"})
    BY <1>3, <2>2, MovedSame
  <2> QED
    BY <1>6, <2>1, <2>2
<1>9. ASSUME NEW c \in Batches, Writer(batch[c])'
      PROVE  /\ Writer(batch[c]) /\ batch'[c].base = batch[c].base /\ ~(found /\ rest = {})
  <2>1. Writer(batch[c]) /\ batch'[c].base = batch[c].base
    BY <1>2, <1>8, <1>9, SameWriter
  <2>2. ASSUME found, rest = {} PROVE FALSE
    <3>1. /\ Moved({"write", "meta"})[c].pc = "write" => Moved({"write", "meta"})[c].moved
          /\ Moved({"write", "meta"})[c].pc # "meta"
      BY <1>3, MovedSame
    <3> QED
      BY <1>6, <1>9, <2>2, <3>1 DEF Writer
  <2> QED
    BY <2>1, <2>2
<1>10. \A i \in Retracts(Inserted) : log[i].doc \in Docs
  BY InsertedIds, Part DEF FInv, IInv, TypeOK
<1>11. Queued'
  <2>1. \A e \in Docs : del[e] \in {"done", "doneKnown"} <=> del'[e] \in {"done", "doneKnown"}
    BY <1>2, <1>7
  <2>2. \A e \in Docs : e \in gone' <=> del'[e] \in Deleting
    BY <1>2, <1>3, <1>7 DEF Queued, Deleting, Cleaned, Fixed
  <2> QED
    BY <1>2, <1>3, <1>7, <1>10, <2>1, <2>2, QueuedStays
<1>12. Judged' /\ Released'
  <2>1. \A e \in Docs : Scrubbed(e)
    BY <1>2, <1>7 DEF Scrubbed, Cleaned
  <2> QED
    BY <1>2, <1>8, <2>1, RowsStay
<1>13. PageOK'
  <2>1. (\A c \in Batches : Writing(batch[c]) => Cites(batch[c].base))'
    <3>1. \A c \in Batches : Writing(batch'[c]) => Cites(batch'[c].base)
      BY <1>2, <1>3, <1>8, SameWriter DEF PageOK
    <3> QED
      BY <3>1 DEF Cites, NoPage, Writing
  <2>2. Cites(page)'
    <3>1. Cites(page')
      BY <1>3, <1>4, <1>6 DEF PageOK, Cites
    <3> QED
      BY <3>1 DEF Cites, NoPage
  <2>3. \A e \in Docs : del'[e] = "fix" => copy'[e].refs \subseteq Docs
    <3> SUFFICES ASSUME NEW e \in Docs, del'[e] = "fix" PROVE copy'[e].refs \subseteq Docs
      OBVIOUS
    <3>1. e # d /\ del[e] = "fix"
      BY <1>7
    <3> QED
      BY <1>3, <1>5, <3>1 DEF PageOK
  <2>4. \A e \in gone \ late, c \in Batches : e \notin Adds(c)'
    BY <1>2, <1>3, <1>8, AddsStay DEF PageOK
  <2> QED
    BY <1>2, <2>1, <2>2, <2>3, <2>4 DEF PageOK
<1>14. ~Unguarded' => ~Unguarded
  BY <1>2, <1>3, StillUnguarded
<1>15. Current'
  <2>1. ASSUME ~Unguarded', page' = NoPage, NEW c \in Batches, Writer(batch[c])'
        PROVE  batch'[c].base = NoPage
    <3>1. page = NoPage
      BY <1>4, <1>6, <1>9, <2>1
    <3> QED
      BY <1>3, <1>9, <1>14, <2>1, <3>1 DEF Current
  <2>2. ASSUME ~Unguarded', \A e \in Docs : del'[e] \notin Fixed,
               NEW c \in Batches, Writer(batch[c])'
        PROVE  batch'[c].base = page'
    <3>1. ~found
      BY <1>7, <2>2 DEF Fixed
    <3>2. \A e \in Docs : del[e] \notin Fixed
      BY <1>2, <1>7, <2>2 DEF Fixed
    <3> QED
      BY <1>3, <1>6, <1>9, <1>14, <2>2, <3>1, <3>2 DEF Current
  <2> QED
    BY <2>1, <2>2 DEF Current, NoPage
<1>16. AppliedStays'
  BY <1>2, <1>7 DEF AppliedStays
<1>17. Retracted'
  <2> SUFFICES ASSUME NEW e \in gone, gone = {e}, NEW i \in (Retracts(Inserted))'
               PROVE  FALSE
    BY <1>2 DEF Retracted, Retracting
  <2>1. i \in Retracts(Inserted)
    BY <1>2 DEF Retracts, Inserted
  <2>2. log[i].doc \in gone /\ del[log[i].doc] \in {"done", "doneKnown"}
    BY <1>3, <1>10, <2>1 DEF Queued, Deleting, Cleaned, Fixed
  <2> QED
    BY <1>2, <1>7, <2>2
<1> QED
  BY <1>11, <1>12, <1>13, <1>15, <1>16, <1>17 DEF Fates

LEMMA ServiceFates ==
  ASSUME FInv, NEW d \in Docs, Service(d)
  PROVE  Fates'
BY EnqueueWikiIngestFates, EnqueueWikiRetractFates, ScrubFates, MarkFates, CleanupListFates,
   CleanupFixFates DEF Service, Cleanup

-----------------------------------------------------------------------------
(* The slug lock *)

\* Only batch b moves, and it does not let go of a lock that another one needs.
LEMMA LockMoves ==
  ASSUME LockOK, faults \subseteq faults', NEW b \in Batches,
         \A c \in Batches \ {b} :
           Same(batch[c], batch'[c]) /\ batch'[c].locked = batch[c].locked,
         batch'[b].locked => Writing(batch'[b]),
         Guarded' /\ Writing(batch'[b]) => batch'[b].locked /\ lock' = b,
         Guarded' => \A c \in Batches \ {b} : Writing(batch[c]) => lock' = lock
  PROVE  LockOK'
<1>1. Guarded' => Guarded
  BY DEF Guarded
<1>2. \A c \in Batches \ {b} : Writing(batch'[c]) <=> Writing(batch[c])
  BY SameWriter
<1>3. ASSUME NEW c \in Batches
      PROVE  /\ batch'[c].locked => Writing(batch'[c])
             /\ Guarded' /\ Writing(batch'[c]) => batch'[c].locked /\ lock' = c
  <2>1. CASE c = b
    BY <2>1
  <2>2. CASE c # b
    BY <1>1, <1>2, <2>2 DEF LockOK
  <2> QED
    BY <2>1, <2>2
<1> QED
  BY <1>3 DEF LockOK, Writing

LEMMA LockRests ==
  ASSUME LockOK, faults \subseteq faults', lock' = lock,
         \A c \in Batches : Same(batch[c], batch'[c]) /\ batch'[c].locked = batch[c].locked
  PROVE  LockOK'
<1>1. Guarded' => Guarded
  BY DEF Guarded
<1>2. \A c \in Batches : Writing(batch'[c]) <=> Writing(batch[c])
  BY SameWriter
<1> QED
  BY <1>1, <1>2 DEF LockOK, Writing

\* A batch that does not write, any more or yet, and frees the lock if it holds it.
LEMMA LockFreed ==
  ASSUME LockOK, faults \subseteq faults', NEW b \in Batches,
         \A c \in Batches \ {b} :
           Same(batch[c], batch'[c]) /\ batch'[c].locked = batch[c].locked,
         ~Writing(batch'[b]), ~batch'[b].locked, lock' = lock \/ Unlock(b)
  PROVE  LockOK'
<1>1. ASSUME Guarded', NEW c \in Batches \ {b}, Writing(batch[c])
      PROVE  lock' = lock
  <2>1. Guarded /\ lock = c
    BY <1>1 DEF Guarded, LockOK
  <2>2. ~batch[b].locked
    BY <2>1 DEF LockOK
  <2> QED
    BY <2>2 DEF Unlock
<1> QED
  BY <1>1, LockMoves

\* How the steps of a batch change what it believes of the lock.
LEMMA LockedField ==
  ASSUME NEW s \in BatchStates
  PROVE  /\ \A k, keys : Begun(s, k, keys).locked = s.locked
         /\ \A rows : Claimed(s, rows).locked = s.locked
         /\ \A pc, upd, stale, failed : Mapped(s, pc, upd, stale, failed).locked = s.locked
         /\ \A failed : Collected(s, failed).locked = s.locked
         /\ Moot(s).locked = s.locked /\ Unchanged(s).locked = s.locked
         /\ \A kept, base, moved, locked : Keeping(s, kept, base, moved, locked).locked = locked
         /\ Idle.locked = FALSE
BY DEF BatchStates, Begun, Claimed, Mapped, Collected, Moot, Unchanged, Keeping, Idle

\* Short of the last look and of writing, a batch does not touch the lock.
LEMMA LockAside ==
  ASSUME FInv, NEW b \in Batches, NEW s, batch' = [batch EXCEPT ![b] = s],
         faults \subseteq faults', lock' = lock \/ Unlock(b), ~Writing(s), ~s.locked
  PROVE  LockOK'
<1>1. /\ batch'[b] = s
      /\ \A c \in Batches \ {b} : Same(batch[c], batch'[c]) /\ batch'[c].locked = batch[c].locked
  BY DEF FInv, IInv, TypeOK, BatchOK, Same
<1> QED
  BY <1>1, LockFreed DEF FInv

LEMMA NotLocked ==
  ASSUME FInv, NEW b \in Batches, ~Writing(batch[b])
  PROVE  batch[b] \in BatchStates /\ ~batch[b].locked
BY DEF FInv, IInv, TypeOK, BatchOK, LockOK

LEMMA ReadLock ==
  ASSUME FInv, NEW b \in Batches, ReadLocked(b) \/ ReadUnlocked(b)
  PROVE  LockOK'
<1>1. PICK locked \in BOOLEAN : Read(b, locked) /\ (locked => lock = NoBatch)
  BY DEF ReadLocked, ReadUnlocked
<1>2. PICK misread \in SUBSET Additions(batch[b], filterLiveUpdates(b)),
           seen \in BOOLEAN : LastLook(b, locked, misread, seen)
  BY <1>1 DEF Read
<1>3. PICK idle \in BOOLEAN, kept \in {batch[b].upd, {}} \cup SUBSET batch[b].upd :
        \E base, moved :
          /\ batch[b].pc = "reduce"
          /\ Suffers(DbError(misread # {} \/ ~seen) \cup (IF locked THEN {} ELSE {"redis"}))
          /\ batch' = IF idle THEN [batch EXCEPT ![b] = Moot(batch[b])]
                      ELSE [batch EXCEPT ![b] = Keeping(batch[b], kept, base, moved, locked)]
          /\ lock' = IF locked /\ ~idle THEN b ELSE lock
  <2> DEFINE live == filterLiveUpdates(b) \ misread
             found == IF seen THEN page ELSE NoPage
             idle == IF found = NoPage THEN Additions(batch[b], live) = {} ELSE live = {}
             kept == IF idle THEN {} ELSE live
  <2>1. kept \in {batch[b].upd, {}} \cup SUBSET batch[b].upd /\ idle \in BOOLEAN
    BY DEF filterLiveUpdates
  <2>2. /\ batch[b].pc = "reduce"
        /\ Suffers(DbError(misread # {} \/ ~seen) \cup (IF locked THEN {} ELSE {"redis"}))
        /\ batch' = IF idle THEN [batch EXCEPT ![b] = Moot(batch[b])]
                    ELSE [batch EXCEPT ![b] = Keeping(batch[b], kept, found, ~seen, locked)]
        /\ lock' = IF locked /\ ~idle THEN b ELSE lock
    BY <1>2, Zenon DEF LastLook, Moot, Keeping
  <2> QED
    BY <2>1, <2>2
<1>4. PICK base, moved :
          /\ batch[b].pc = "reduce"
          /\ Suffers(DbError(misread # {} \/ ~seen) \cup (IF locked THEN {} ELSE {"redis"}))
          /\ batch' = IF idle THEN [batch EXCEPT ![b] = Moot(batch[b])]
                      ELSE [batch EXCEPT ![b] = Keeping(batch[b], kept, base, moved, locked)]
          /\ lock' = IF locked /\ ~idle THEN b ELSE lock
  BY <1>3
<1>5. /\ faults \subseteq faults' /\ (Guarded' => locked)
      /\ batch[b] \in BatchStates /\ ~batch[b].locked
  BY <1>4, NotLocked DEF Suffers, Guarded, Writing
<1>6. CASE idle
  <2>1. batch' = [batch EXCEPT ![b] = Moot(batch[b])] /\ lock' = lock
    BY <1>4, <1>6
  <2>2. ~Moot(batch[b]).locked /\ ~Writing(Moot(batch[b]))
    BY <1>5, LockedField, MootType DEF Like, Writing
  <2> QED
    BY <1>5, <2>1, <2>2, LockAside
<1>7. CASE ~idle
  <2> DEFINE s == Keeping(batch[b], kept, base, moved, locked)
  <2>1. s.pc = "write" /\ s.locked = locked
    BY <1>5 DEF Keeping, BatchStates
  <2> HIDE DEF s
  <2>2. batch' = [batch EXCEPT ![b] = s] /\ lock' = IF locked THEN b ELSE lock
    BY <1>4, <1>7 DEF s
  <2>3. /\ batch'[b] = s
        /\ \A c \in Batches \ {b} : Same(batch[c], batch'[c]) /\ batch'[c].locked = batch[c].locked
    BY <2>2 DEF FInv, IInv, TypeOK, BatchOK, Same
  <2>4. Guarded' => \A c \in Batches \ {b} : ~Writing(batch[c])
    BY <1>1, <1>5, WikiAssumption DEF FInv, LockOK, Guarded
  <2> QED
    BY <1>5, <2>1, <2>2, <2>3, <2>4, LockMoves DEF FInv, Writing
<1> QED
  BY <1>6, <1>7

LEMMA WorkLock ==
  ASSUME FInv, NEW b \in Batches, Work(b)
  PROVE  LockOK'
<1>1. ASSUME NEW s, batch' = [batch EXCEPT ![b] = s], ~Writing(batch[b]),
             s.locked = batch[b].locked \/ ~s.locked, ~Writing(s),
             faults \subseteq faults', lock' = lock
      PROVE  LockOK'
  BY <1>1, NotLocked, LockAside
<1>2. /\ batch[b] \in BatchStates /\ BatchOK /\ Idle.locked = FALSE /\ ~Writing(Idle)
  BY LockedField, IdleFacts DEF FInv, IInv, TypeOK, BatchOK
<1>3. CASE ClaimBatch(b)
  <2>1. PICK rows \in SUBSET Ids : batch' = [batch EXCEPT ![b] = Claimed(batch[b], rows)]
    BY <1>3, ClaimableType DEF ClaimBatch, Claimed, FInv, IInv, TypeOK, InTable
  <2>2. Claimed(batch[b], rows).locked = batch[b].locked /\ ~Writing(Claimed(batch[b], rows))
    BY <1>2, LockedField, ClaimedType DEF Like, Writing
  <2>3. ~Writing(batch[b]) /\ UNCHANGED <<lock, faults>>
    BY <1>3 DEF ClaimBatch, wiki, ghosts, Writing
  <2> QED
    BY <1>1, <2>1, <2>2, <2>3
<1>4. CASE NothingToClaim(b) \/ Finish(b)
  <2>1. /\ batch' = [batch EXCEPT ![b] = Idle] /\ ~Writing(batch[b]) /\ lock' = lock
        /\ faults \subseteq faults'
    BY <1>4 DEF NothingToClaim, Finish, wiki, ghosts, Writing, Fault
  <2> QED
    BY <1>1, <1>2, <2>1
<1>5. CASE Map(b)
  <2>1. /\ batch[b].pc = "map" /\ UNCHANGED wiki
    BY <1>5, MapKeeps
  <2>2. faults \subseteq faults'
    BY <1>5 DEF Map, Suffers
  <2>3. PICK upd, stale, failed, I :
           /\ upd \cup failed \subseteq batch[b].held /\ stale \subseteq upd
           /\ batch' = [batch EXCEPT ![b] =
                Mapped(@, IF upd = {} THEN "settle" ELSE "reduce", upd, stale, failed)]
           /\ drained' = DrainRows(I)
    BY <1>5, MapEffect
  <2> DEFINE pc == IF upd = {} THEN "settle" ELSE "reduce"
             s == Mapped(batch[b], pc, upd, stale, failed)
  <2>4. batch[b].held \subseteq Ids
    BY <1>2 DEF BatchStates
  <2>5. s.pc = pc /\ s.locked = batch[b].locked
    BY <1>2 DEF Mapped, BatchStates
  <2>6. ~Writing(s) /\ batch' = [batch EXCEPT ![b] = s] /\ ~Writing(batch[b]) /\ lock' = lock
    BY <2>1, <2>3, <2>5 DEF Writing, wiki
  <2> HIDE DEF s
  <2> QED
    BY <1>1, <2>2, <2>5, <2>6
<1>6. CASE SlugBusy(b)
  <2> DEFINE s == Collected(batch[b], batch[b].failed \cup batch[b].upd)
  <2>1. s.pc = "settle" /\ s.locked = batch[b].locked
    BY <1>2 DEF Collected, BatchStates
  <2>2. batch' = [batch EXCEPT ![b] = s] /\ batch[b].pc = "reduce" /\ UNCHANGED <<lock, faults>>
    BY <1>6 DEF SlugBusy, Collected, wiki, ghosts
  <2> HIDE DEF s
  <2> QED
    BY <1>1, <2>1, <2>2 DEF Writing
<1>7. CASE WritePage(b) \/ UpdateMeta(b) \/ WriteFails(b) \/ ModelFails(b)
  <2>1. /\ \/ batch' = [batch EXCEPT ![b] = Written(b)]
           \/ batch' = [Moved({"write"}) EXCEPT ![b] = Written(b)]
        /\ Unlock(b) /\ faults \subseteq faults'
    BY <1>7 DEF WritePage, UpdateMeta, Write, WriteFails, ModelFails, EndWrite, Fault
  <2>2. Written(b).pc = "settle" /\ ~Written(b).locked
    <3>1. ASSUME NEW t \in BatchStates
          PROVE  LET w == [t EXCEPT !.pc = "settle", !.kept = {}, !.base = NoPage,
                                    !.moved = FALSE, !.locked = FALSE]
                 IN  w.pc = "settle" /\ ~w.locked
      BY DEF BatchStates
    <3> QED
      BY <1>2, <3>1 DEF Written
  <2>3. /\ Moved({"write"}) \in [Batches -> BatchStates]
        /\ \A c \in Batches : /\ Same(batch[c], Moved({"write"})[c])
                              /\ Moved({"write"})[c].locked = batch[c].locked
    BY <1>2, MovedType, MovedSame
  <2>4. /\ batch'[b] = Written(b)
        /\ \A c \in Batches \ {b} : Same(batch[c], batch'[c]) /\ batch'[c].locked = batch[c].locked
    <3>1. CASE batch' = [batch EXCEPT ![b] = Written(b)]
      BY <1>2, <3>1 DEF BatchOK, Same
    <3>2. CASE batch' = [Moved({"write"}) EXCEPT ![b] = Written(b)]
      BY <2>3, <3>2
    <3> QED
      BY <2>1, <3>1, <3>2
  <2> QED
    BY <2>1, <2>2, <2>4, LockFreed DEF FInv, Writing
<1>8. CASE TextUnchanged(b)
  <2> DEFINE s == Unchanged(batch[b])
  <2>1. s.pc = "meta" /\ s.locked = batch[b].locked
    BY <1>2 DEF Unchanged, BatchStates
  <2>2. batch' = [batch EXCEPT ![b] = s] /\ batch[b].pc = "write" /\ UNCHANGED <<lock, faults>>
    BY <1>8 DEF TextUnchanged, Unchanged, wiki, ghosts
  <2> HIDE DEF s
  <2>3. /\ batch'[b] = s
        /\ \A c \in Batches \ {b} : Same(batch[c], batch'[c]) /\ batch'[c].locked = batch[c].locked
    BY <1>2, <2>2 DEF BatchOK, Same
  <2>4. Guarded' => lock = b /\ batch[b].locked
    BY <2>2 DEF FInv, LockOK, Guarded, Writing
  <2> QED
    BY <2>1, <2>2, <2>3, <2>4, LockMoves DEF FInv, Writing
<1> QED
  BY <1>3, <1>4, <1>5, <1>6, <1>7, <1>8, ReadLock DEF Work

LEMMA LockStep ==
  ASSUME FInv, [Next]_vars
  PROVE  LockOK'
<1>1. ASSUME UNCHANGED <<batch, lock>>, faults \subseteq faults'
      PROVE  LockOK'
  BY <1>1, LockRests DEF FInv, Same
<1>2. ASSUME NEW d \in Docs, Service(d)
      PROVE  LockOK'
  <2>1. CASE CleanupFix(d)
    <3>1. /\ batch' = batch \/ batch' = Moved({"write", "meta"})
          /\ lock' = lock /\ faults \subseteq faults'
      BY <2>1 DEF CleanupFix, Suffers
    <3>2. \A c \in Batches : /\ Same(batch[c], Moved({"write", "meta"})[c])
                             /\ Moved({"write", "meta"})[c].locked = batch[c].locked
      BY MovedSame DEF FInv, IInv, TypeOK
    <3> QED
      BY <1>1, <3>1, <3>2, LockRests DEF FInv
  <2>2. CASE ~CleanupFix(d)
    <3>1. UNCHANGED <<batch, lock>> /\ faults \subseteq faults'
      BY <1>2, <2>2 DEF Service, Cleanup, EnqueueWikiIngest, PrepareWikiForReparse,
         MarkKnowledgeCancelled, MarkKnowledgeDeleted, ScrubWikiPendingIngest, CleanupList,
         EnqueueWikiRetract, RetractNotQueued, wiki, ghosts, Suffers, Fault
    <3> QED
      BY <1>1, <3>1
  <2> QED
    BY <2>1, <2>2
<1>3. ASSUME NEW b \in Batches, Start(b)
      PROVE  LockOK'
  <2>1. PICK k \in Kinds : TurnedAway(b, k) \/ Begin(b, k)
    BY <1>3 DEF Start
  <2>2. CASE TurnedAway(b, k)
    BY <1>1, <2>2 DEF TurnedAway, wiki, ghosts
  <2>3. CASE Begin(b, k)
    <3> DEFINE s == Begun(batch[b], k, Candidates)
    <3>1. batch' = [batch EXCEPT ![b] = s] /\ batch[b].pc = "idle" /\ UNCHANGED <<lock, faults>>
      BY <2>3 DEF Begin, Begun, wiki, ghosts
    <3>2. batch[b] \in BatchStates /\ ~batch[b].locked
      BY <3>1, NotLocked DEF Writing
    <3>3. s.pc = "claim" /\ s.locked = batch[b].locked
      BY <3>2 DEF Begun, BatchStates
    <3> HIDE DEF s
    <3> QED
      BY <3>1, <3>2, <3>3, LockAside DEF Writing
  <2> QED
    BY <2>1, <2>2, <2>3
<1>4. ASSUME NEW b \in Batches, Crash(b) \/ Panic(b) \/ TimeOut(b)
      PROVE  LockOK'
  <2>1. /\ batch' = [batch EXCEPT ![b] = Idle] /\ faults \subseteq faults'
        /\ lock' = lock \/ Unlock(b)
    BY <1>4 DEF Crash, Panic, TimeOut, Redeliver, Fault, wiki
  <2>2. ~Writing(Idle) /\ ~Idle.locked
    BY DEF Idle, Writing
  <2> QED
    BY <2>1, <2>2, LockAside
<1>5. CASE LockExpires
  <2>1. /\ batch' = batch /\ lock' = NoBatch /\ faults \subseteq faults'
        /\ Guarded' => Guarded /\ ~batch[lock].locked
    BY <1>5 DEF LockExpires, Fault, Guarded
  <2>2. Guarded' => \A c \in Batches : ~Writing(batch[c])
    BY <2>1 DEF FInv, LockOK
  <2> QED
    BY <2>1, <2>2 DEF FInv, LockOK, Writing
<1>6. CASE LeaseExpires \/ UNCHANGED vars
  BY <1>1, <1>6 DEF LeaseExpires, vars, wiki, ghosts
<1>7. ASSUME NEW i \in Ids, ClaimGoesStale(i)
      PROVE  LockOK'
  BY <1>1, <1>7 DEF ClaimGoesStale, wiki, ghosts
<1> QED
  BY <1>2, <1>3, <1>4, <1>5, <1>6, <1>7, WorkLock DEF Next

-----------------------------------------------------------------------------
(* The theorems *)

LEMMA FateStep ==
  ASSUME FInv, [Next]_vars
  PROVE  FInv'
<1>1. IInv' /\ LockOK'
  BY Inductive, LockStep DEF FInv
<1>2. Fates'
  <2>1. CASE UNCHANGED vars
    BY <1>1, <2>1, Aside DEF vars, service, InTable
  <2> QED
    BY <1>1, <2>1, ServiceFates, StartFates, WorkFates, FaultFates, TimeFates DEF Next
<1> QED
  BY <1>1, <1>2 DEF FInv

LEMMA FateInit ==
  Init => FInv
<1> SUFFICES ASSUME Init PROVE FInv
  OBVIOUS
<1>1. IInv
  BY Initially
<1>2. Inserted = {} /\ InTable = {}
  BY EmptySeq DEF Init, Inserted, InTable
<1>3. /\ Retracts(Inserted) = {} /\ Ingests(Inserted) = {} /\ Ingests(InTable) = {}
  BY <1>2 DEF Retracts, Ingests
<1>4. /\ del = [d \in Docs |-> "no"] /\ ended = [i \in Ids |-> "open"] /\ gone = {}
      /\ drained = [i \in Ids |-> 0] /\ page = NoPage
      /\ batch = [b \in Batches |-> Idle]
  BY DEF Init
<1>5. Queued
  BY <1>3, <1>4 DEF Queued, DelStates, Deleting, Cleaned, Fixed, EndStates
<1>6. ASSUME NEW b \in Batches
      PROVE  /\ batch[b] = Idle /\ ~Judges(batch[b]) /\ ~Writing(batch[b]) /\ ~Writer(batch[b])
             /\ ~batch[b].locked /\ Adds(b) = {}
  <2>1. batch[b] = Idle
    BY <1>4
  <2>2. ~batch[b].locked
    BY <2>1 DEF Idle
  <2>3. ~Writing(batch[b])
    BY <2>1, IdleFacts
  <2> QED
    BY <1>1, <2>1, <2>2, <2>3, IdleFacts, NothingToWrite DEF IInv, TypeOK
<1>7. Judged /\ Released
  BY <1>2, <1>3, <1>6, IdleFacts DEF Judged, JudgedBatch, Released, DrainedBatch,
     Decided, SlotReleased, Inserted
<1>8. PageOK /\ Current /\ AppliedStays /\ Retracted
  BY <1>2, <1>4, <1>6 DEF PageOK, Cites, Current, AppliedStays, Retracted, Inserted
<1>9. LockOK
  BY <1>6 DEF LockOK
<1> QED
  BY <1>1, <1>5, <1>7, <1>8, <1>9 DEF FInv, Fates

LEMMA FateInvariance ==
  Spec => []FInv
BY FateInit, FateStep, PTL DEF Spec

\* No row leaves the queue undecided, whatever fails, is deleted, cancelled or
\* parsed again meanwhile (trimPendingList, requeueFailedOps, DeleteByDedupKey).
\* Only an error of the database makes a live document's row end as one of a
\* deleted document does (isKnowledgeGone).
THEOREM NothingIsDropped ==
  Spec => []NoneDropped
<1>1. FInv => NoneDropped
  <2> SUFFICES ASSUME FInv, NEW i \in 1..Len(log), row[i] = "absent"
               PROVE  ended[i] # "open" /\ (ended[i] = "mistaken" => "db" \in faults)
    BY DEF NoneDropped
  <2>1. i \in Inserted /\ i \in Ids
    BY InsertedIds DEF Inserted, FInv, IInv, TypeOK
  <2> QED
    BY <2>1 DEF FInv, Fates, Judged, Decided, Queued
<1> QED
  BY <1>1, FateInvariance, PTL

\* The finalizing slot of every row that has come to its end is released,
\* exactly once while no fault happens.
THEOREM SlotsAreReleased ==
  Spec => []SlotReleased
<1>1. FInv => SlotReleased
  BY DEF FInv, Fates, Released
<1> QED
  BY <1>1, FateInvariance, PTL

\* Writers do not undo each other as long as the slug lock (withSlugLock) has
\* never been lost; and when it has, as long as no update left the text as it was,
\* so that UpdatePage compared the version it had read.
THEOREM WritesAreKept ==
  Spec => []AppliedStays
<1>1. FInv => AppliedStays
  BY DEF FInv, Fates
<1> QED
  BY <1>1, FateInvariance, PTL

\* The clean-up of one delete and its retract keep the document off the page,
\* unless a batch was past its last look, the retract could not be made (be it
\* that its insert or the look for its page failed), or writers ran without the
\* lock and without a version.
THEOREM DeletesAreRetracted ==
  Spec => []DeletedIsRetracted
<1>1. FInv => DeletedIsRetracted
  <2> SUFFICES ASSUME FInv, AtRest, NEW d \in gone, gone = {d},
                      del[d] \in {"done", "doneKnown"}, d \in page, d \notin late, ~Unguarded
               PROVE  RetractFails(d)
    BY DEF DeletedIsRetracted, RetractFails
  <2>1. Queued /\ Decided /\ Retracting(d) /\ d \in Docs
    BY DEF FInv, IInv, TypeOK, Fates, Judged, Retracted
  <2>2. PICK i \in Retracts(Inserted) : log[i].doc = d
    BY <2>1 DEF Queued
  <2>3. i \in Inserted /\ i \in Ids
    BY <2>2, Part, InsertedIds DEF FInv, IInv, TypeOK
  <2>4. ended[i] # "open"
    BY <2>1, <2>3 DEF AtRest, InTable, Decided
  <2>5. ended[i] \notin {"applied", "closed", "unlinked"}
    BY <2>1, <2>2 DEF Retracting, GoneForGood
  <2>6. ended[i] \in EndStates
    BY <2>1, <2>3 DEF Queued
  <2> QED
    BY <2>2, <2>4, <2>5, <2>6 DEF RetractFails, EndStates, Inserted
<1> QED
  BY <1>1, FateInvariance, PTL

=============================================================================
