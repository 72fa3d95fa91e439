-------------------------- MODULE WikiQueueProofs --------------------------
(***************************************************************************)
(* The theorems about WikiQueue, for any number of documents, workers and  *)
(* rows, and under every fault it allows.                                  *)
(*                                                                         *)
(* A claim protects a row only as long as it is fresh, so ClaimsDisjoint   *)
(* needs the strengthening HeldFresh: what a batch holds, and nobody has   *)
(* deleted meanwhile, carries a fresh claim.  The types need Budget: no    *)
(* row in the table has used up its retries.                               *)
(***************************************************************************)
EXTENDS WikiQueue, SequenceTheorems, TLAPS

HeldFresh ==
  \A b \in Batches : \A i \in batch[b].held \cap InTable : row[i] = "fresh"

Budget ==
  /\ \A i \in InTable : fails[i] <= MaxFail
  /\ \A i \in Ids : i > Len(log) => fails[i] = 0

IInv == TypeOK /\ Budget /\ HeldFresh /\ ClaimsDisjoint

-----------------------------------------------------------------------------
(* Types *)

\* Another trigger is counted up to the bound.
LEMMA TriggerType ==
  ASSUME NEW k, queue \in [Kinds -> 0..MaxQueued], Trigger(k)
  PROVE  queue' \in [Kinds -> 0..MaxQueued]
<1>1. CASE k \in Kinds
  BY <1>1, WikiAssumption DEF Trigger
<1>2. CASE k \notin Kinds
  BY <1>2 DEF Trigger
<1> QED
  BY <1>1, <1>2

\* A new row is the last one, free, and has never failed.
LEMMA AddRowType ==
  ASSUME TypeOK, Budget, NEW d \in Docs, NEW op \in {"ingest", "retract"},
         AddRow(d, op), batch' = batch
  PROVE  TableOK' /\ BatchOK' /\ Budget' /\ queue' \in [Kinds -> 0..MaxQueued]
<1> DEFINE e == [doc |-> d, op |-> op]
<1>1. /\ log' \in Seq([doc : Docs, op : {"ingest", "retract"}])
      /\ Len(log') = Len(log) + 1 /\ Len(log) \in Nat
  BY AppendProperties, LenProperties DEF TypeOK, TableOK, AddRow
<1>2. Len(log) + 1 \in Ids
  BY <1>1, WikiAssumption DEF AddRow, Ids
<1>3. TableOK'
  BY <1>1, <1>2, WikiAssumption DEF TypeOK, TableOK, AddRow, Ids
<1>4. BatchOK'
  BY <1>1 DEF TypeOK, BatchOK, Consistent, BatchStates, Ids
<1>5. Budget'
  <2>1. fails' = fails /\ row' = [row EXCEPT ![Len(log) + 1] = "free"]
    BY DEF AddRow
  <2>2. fails[Len(log) + 1] = 0
    BY <1>1, <1>2 DEF Budget
  <2>3. \A i \in InTable' : i \in InTable \/ i = Len(log) + 1
    BY <2>1, <1>2 DEF InTable, TypeOK, TableOK
  <2>4. \A i \in InTable' : fails'[i] <= MaxFail
    BY <2>1, <2>2, <2>3, WikiAssumption DEF Budget
  <2>5. \A i \in Ids : i > Len(log') => fails'[i] = 0
    BY <1>1, <2>1, WikiAssumption DEF Budget, Ids
  <2> QED
    BY <2>4, <2>5 DEF Budget
<1>6. queue' \in [Kinds -> 0..MaxQueued]
  BY TriggerType DEF AddRow, TypeOK, Kinds
<1> QED
  BY <1>3, <1>4, <1>5, <1>6

\* Scrubbing only takes rows away.
LEMMA ScrubType ==
  ASSUME TypeOK, Budget, NEW d \in Docs, Scrub(d),
         UNCHANGED <<log, fails, batch>>
  PROVE  TableOK' /\ BatchOK' /\ Budget'
<1> DEFINE out == {i \in Ingests(InTable) : log[i].doc = d}
<1>1. \A i \in Ids : row'[i] = IF i \in out THEN "absent" ELSE row[i]
  BY DEF Scrub
<1>2. row' \in [Ids -> {"absent", "free", "fresh", "stale"}]
  BY DEF Scrub, TypeOK, TableOK
<1>3. TableOK'
  BY <1>1, <1>2 DEF TypeOK, TableOK, Ids
<1>4. BatchOK'
  BY DEF TypeOK, BatchOK, Consistent, BatchStates, Ids
<1>5. InTable' \subseteq InTable
  BY <1>1 DEF InTable
<1>6. Budget'
  BY <1>5 DEF Budget, Ids
<1> QED
  BY <1>3, <1>4, <1>6

\* The documents of inserted rows are documents of the base.
LEMMA DocsOfType ==
  ASSUME TableOK, NEW I \in SUBSET (1..Len(log))
  PROVE  DocsOf(I) \subseteq Docs
<1>1. \A i \in 1..Len(log) : log[i] \in [doc : Docs, op : {"ingest", "retract"}]
  BY ElementOfSeq DEF TableOK
<1> QED
  BY <1>1 DEF DocsOf

LEMMA InTableInserted ==
  ASSUME TableOK
  PROVE  InTable \subseteq 1..Len(log) /\ Eligible \subseteq InTable
BY LenProperties, WikiAssumption DEF TableOK, InTable, Eligible, Ids

LEMMA CandidatesType ==
  ASSUME TableOK
  PROVE  Candidates \subseteq Docs
BY InTableInserted, DocsOfType DEF Candidates

LEMMA DrainType ==
  ASSUME drained \in [Ids -> Nat], NEW I
  PROVE  DrainRows(I) \in [Ids -> Nat]
BY DEF DrainRows

\* A write elsewhere changes nothing but what the others may still write.
LEMMA MovedType ==
  ASSUME BatchOK, NEW pcs \in SUBSET {"write", "meta"}
  PROVE  /\ Moved(pcs) \in [Batches -> BatchStates]
         /\ \A c \in Batches :
              /\ Moved(pcs)[c].held = batch[c].held
              /\ Moved(pcs)[c].upd = batch[c].upd
              /\ Moved(pcs)[c].stale = batch[c].stale
              /\ Moved(pcs)[c].failed = batch[c].failed
              /\ Moved(pcs)[c].kept = batch[c].kept
              /\ Moved(pcs)[c].pc = IF batch[c].pc \in pcs THEN "write" ELSE batch[c].pc
<1> DEFINE Refused(s) == [s EXCEPT !.pc = "write", !.moved = TRUE]
           Ok(s) == [s EXCEPT !.moved = FALSE]
           Same(t, s) == /\ t.held = s.held /\ t.upd = s.upd /\ t.stale = s.stale
                         /\ t.failed = s.failed /\ t.kept = s.kept
<1>1. \A s \in BatchStates : /\ Refused(s) \in BatchStates /\ Ok(s) \in BatchStates
                            /\ Same(Refused(s), s) /\ Same(Ok(s), s)
                            /\ Refused(s).pc = "write" /\ Ok(s).pc = s.pc
  BY DEF BatchStates
<1>2. \A c \in Batches : batch[c] \in BatchStates
  BY DEF BatchOK
<1>3. Moved(pcs) = [c \in Batches |-> IF batch[c].pc \in pcs THEN Refused(batch[c])
                                                           ELSE Ok(batch[c])]
  BY DEF Moved
<1> HIDE DEF Refused, Ok
<1>4. \A c \in Batches : Moved(pcs)[c] \in BatchStates
  BY <1>1, <1>2, <1>3
<1>5. Moved(pcs) \in [Batches -> BatchStates]
  BY <1>3, <1>4
<1>6. \A c \in Batches : /\ Same(Moved(pcs)[c], batch[c])
                        /\ Moved(pcs)[c].pc = IF batch[c].pc \in pcs THEN "write"
                                                                    ELSE batch[c].pc
  BY <1>1, <1>2, <1>3
<1> QED
  BY <1>5, <1>6

\* What the steps of a batch make of its record.
Begun(s, k, keys) == [s EXCEPT !.pc = "claim", !.task = k, !.keys = keys]
Claimed(s, rows) == [s EXCEPT !.pc = "map", !.keys = {}, !.held = rows]
Mapped(s, pc, upd, stale, failed) ==
  [s EXCEPT !.pc = pc, !.upd = upd, !.stale = stale, !.failed = failed]
Collected(s, failed) == [s EXCEPT !.pc = "settle", !.failed = failed]
Moot(s) == [s EXCEPT !.pc = "settle"]
Keeping(s, kept, base, moved, locked) ==
  [s EXCEPT !.pc = "write", !.kept = kept, !.base = base,
            !.moved = moved, !.locked = locked]
Unchanged(s) == [s EXCEPT !.pc = "meta"]

\* The fields BatchOK speaks of.
Like(t, pc, held, upd, stale, failed, kept) ==
  /\ t \in BatchStates /\ t.pc = pc /\ t.held = held
  /\ t.upd = upd /\ t.stale = stale /\ t.failed = failed /\ t.kept = kept

LEMMA BegunType ==
  ASSUME NEW s \in BatchStates, NEW k \in Kinds, NEW keys \in SUBSET Docs
  PROVE  Like(Begun(s, k, keys), "claim", s.held, s.upd, s.stale, s.failed, s.kept)
BY DEF BatchStates, Begun, Like

LEMMA ClaimedType ==
  ASSUME NEW s \in BatchStates, NEW rows \in SUBSET Ids
  PROVE  Like(Claimed(s, rows), "map", rows, s.upd, s.stale, s.failed, s.kept)
BY DEF BatchStates, Claimed, Like

LEMMA MappedType ==
  ASSUME NEW s \in BatchStates, NEW pc \in {"reduce", "settle"},
         NEW upd \in SUBSET Ids, NEW stale \in SUBSET Ids, NEW failed \in SUBSET Ids
  PROVE  Like(Mapped(s, pc, upd, stale, failed), pc, s.held, upd, stale, failed, s.kept)
BY DEF BatchStates, Mapped, Like

LEMMA CollectedType ==
  ASSUME NEW s \in BatchStates, NEW failed \in SUBSET Ids
  PROVE  Like(Collected(s, failed), "settle", s.held, s.upd, s.stale, failed, s.kept)
BY DEF BatchStates, Collected, Like

LEMMA MootType ==
  ASSUME NEW s \in BatchStates
  PROVE  Like(Moot(s), "settle", s.held, s.upd, s.stale, s.failed, s.kept)
BY DEF BatchStates, Moot, Like

LEMMA KeepingType ==
  ASSUME NEW s \in BatchStates, NEW kept \in SUBSET Ids,
         NEW base \in SUBSET (Docs \cup {NoDoc}), NEW moved \in BOOLEAN,
         NEW locked \in BOOLEAN
  PROVE  Like(Keeping(s, kept, base, moved, locked), "write",
              s.held, s.upd, s.stale, s.failed, kept)
BY DEF BatchStates, Keeping, Like

LEMMA UnchangedType ==
  ASSUME NEW s \in BatchStates
  PROVE  Like(Unchanged(s), "meta", s.held, s.upd, s.stale, s.failed, s.kept)
BY DEF BatchStates, Unchanged, Like

LEMMA WrittenType ==
  ASSUME BatchOK, NEW b \in Batches
  PROVE  Like(Written(b), "settle", batch[b].held, batch[b].upd, batch[b].stale, batch[b].failed, {})
<1>1. ASSUME NEW s \in BatchStates
      PROVE  LET t == [s EXCEPT !.pc = "settle", !.kept = {}, !.base = NoPage,
                                !.moved = FALSE, !.locked = FALSE]
             IN  Like(t, "settle", s.held, s.upd, s.stale, s.failed, {})
  BY DEF BatchStates, NoPage, Like
<1> QED
  BY <1>1 DEF Written, BatchOK

\* Nothing changes but what one batch knows.
LEMMA OneBatch ==
  ASSUME BatchOK, UNCHANGED log, NEW b \in Batches,
         NEW s \in BatchStates, Consistent(s), batch' = [batch EXCEPT ![b] = s]
  PROVE  BatchOK'
BY DEF BatchOK, Consistent

LEMMA IdleType ==
  /\ Idle \in BatchStates /\ Consistent(Idle)
  /\ Idle.pc = "idle" /\ Idle.held = {}
BY DEF Idle, BatchStates, NoPage, Kinds, Consistent

-----------------------------------------------------------------------------
(* The services *)

LEMMA ServiceType ==
  ASSUME TypeOK, Budget, NEW d \in Docs, Service(d)
  PROVE  TypeOK' /\ Budget'
<1>1. CASE EnqueueWikiIngest(d)
  <2>1. AddRow(d, "ingest") /\ batch' = batch
    BY <1>1 DEF EnqueueWikiIngest
  <2> QED
    BY <1>1, <2>1, AddRowType DEF EnqueueWikiIngest, TypeOK, wiki, ghosts
<1>2. CASE PrepareWikiForReparse(d)
  <2>1. Scrub(d) /\ UNCHANGED <<log, fails, batch>>
    BY <1>2 DEF PrepareWikiForReparse
  <2> QED
    BY <1>2, <2>1, ScrubType DEF PrepareWikiForReparse, TypeOK, wiki, tasks
<1>3. CASE MarkKnowledgeDeleted(d)
  BY <1>3 DEF MarkKnowledgeDeleted, TypeOK, TableOK, BatchOK, Consistent, Budget, InTable,
              table, wiki, tasks, ghosts
<1>4. CASE ScrubWikiPendingIngest(d)
  <2>1. Scrub(d) /\ UNCHANGED <<log, fails, batch>>
    BY <1>4 DEF ScrubWikiPendingIngest
  <2> QED
    BY <1>4, <2>1, ScrubType DEF ScrubWikiPendingIngest, TypeOK, wiki, tasks
<1>5. CASE CleanupList(d)
  <2>1. copy' \in [Docs -> Copies]
    <3>1. [refs |-> page, same |-> TRUE] \in Copies
      BY DEF TypeOK, Copies
    <3>2. copy' = copy \/ copy' = [copy EXCEPT ![d] = [refs |-> page, same |-> TRUE]]
      BY <1>5 DEF CleanupList
    <3> QED
      BY <3>1, <3>2 DEF TypeOK
  <2> QED
    BY <1>5, <2>1 DEF CleanupList, TypeOK, TableOK, BatchOK, Consistent, Budget, InTable,
                      table, wiki, tasks, ghosts
<1>6. CASE CleanupFix(d)
  <2>0. PICK rest, found, others :
          /\ others = [e \in Docs |-> [copy[e] EXCEPT !.same = FALSE]]
          /\ rest = copy[d].refs \ {d}
          /\ page' = IF ~found THEN page ELSE IF rest = {} THEN NoPage ELSE rest
          /\ copy' = [(IF found /\ rest = {} THEN others ELSE copy) EXCEPT ![d] = NoCopy]
          /\ batch' = IF found /\ rest = {} THEN Moved({"write", "meta"}) ELSE batch
    BY <1>6, Zenon DEF CleanupFix
  <2>1. copy' \in [Docs -> Copies]
    <3>1. NoCopy \in Copies
      BY DEF NoCopy, Copies
    <3>2. others \in [Docs -> Copies]
      BY <2>0 DEF TypeOK, Copies
    <3>3. \/ copy' = [others EXCEPT ![d] = NoCopy]
          \/ copy' = [copy EXCEPT ![d] = NoCopy]
      BY <2>0
    <3> QED
      BY <3>1, <3>2, <3>3 DEF TypeOK
  <2>2. page' \in SUBSET (Docs \cup {NoDoc})
    BY <2>0 DEF TypeOK, Copies, NoPage
  <2>3. BatchOK'
    <3>1. batch' = Moved({"write", "meta"}) \/ batch' = batch
      BY <2>0
    <3> QED
      BY <1>6, <3>1, MovedType DEF CleanupFix, TypeOK, BatchOK, Consistent, table
  <2> QED
    BY <1>6, <2>1, <2>2, <2>3 DEF CleanupFix, TypeOK, TableOK, Budget, InTable,
                      table, tasks, ghosts
<1>7. CASE EnqueueWikiRetract(d)
  <2>1. AddRow(d, "retract") /\ batch' = batch
    BY <1>7 DEF EnqueueWikiRetract
  <2> QED
    BY <1>7, <2>1, AddRowType DEF EnqueueWikiRetract, TypeOK, wiki, ghosts
<1>8. CASE MarkKnowledgeCancelled(d)
  BY <1>8 DEF MarkKnowledgeCancelled, TypeOK, TableOK, BatchOK, Consistent, Budget,
              InTable, table, wiki, tasks, ghosts
<1>9. CASE RetractNotQueued(d)
  <2>1. queue' \in [Kinds -> 0..MaxQueued]
    BY <1>9, TriggerType DEF RetractNotQueued, TypeOK
  <2> QED
    BY <1>9, <2>1 DEF RetractNotQueued, TypeOK, TableOK, BatchOK, Consistent, Budget,
                      InTable, table, wiki
<1> QED
  BY <1>1, <1>2, <1>3, <1>4, <1>5, <1>6, <1>7, <1>8, <1>9 DEF Service, Cleanup

-----------------------------------------------------------------------------
(* The batches *)

LEMMA StartType ==
  ASSUME TypeOK, Budget, NEW b \in Batches, Start(b)
  PROVE  TypeOK' /\ Budget'
<1>1. PICK k \in Kinds : TurnedAway(b, k) \/ Begin(b, k)
  BY DEF Start
<1>2. queue[k] > 0
  BY <1>1 DEF TurnedAway, Begin, Due
<1>3. queue' \in [Kinds -> 0..MaxQueued]
  <2>1. [queue EXCEPT ![k] = @ - 1] \in [Kinds -> 0..MaxQueued]
    BY <1>2, WikiAssumption DEF TypeOK
  <2>2. [queue EXCEPT ![k] = @ - 1, !["capped"] = 1] \in [Kinds -> 0..MaxQueued]
    BY <1>2, WikiAssumption DEF TypeOK, Kinds
  <2> QED
    BY <1>1, <2>1, <2>2 DEF TurnedAway, Begin
<1>4. BatchOK'
  <2>1. CASE TurnedAway(b, k)
    BY <2>1 DEF TurnedAway, TypeOK, BatchOK, Consistent, table
  <2>2. CASE Begin(b, k)
    <3>1. batch' = [batch EXCEPT ![b] = Begun(batch[b], k, Candidates)]
      BY <2>2 DEF Begin, Begun
    <3>2. batch[b] \in BatchStates /\ Candidates \in SUBSET Docs
      BY CandidatesType DEF TypeOK, BatchOK, Consistent
    <3>3. Like(Begun(batch[b], k, Candidates), "claim",
               batch[b].held, batch[b].upd, batch[b].stale, batch[b].failed, batch[b].kept)
      BY <3>2, BegunType
    <3>4. batch[b].pc = "idle" /\ UNCHANGED log
      BY <2>2 DEF Begin, table
    <3>5. Consistent(Begun(batch[b], k, Candidates))
      BY <3>3, <3>4 DEF TypeOK, BatchOK, Consistent, Like
    <3> QED
      BY <3>1, <3>3, <3>4, <3>5, OneBatch DEF TypeOK, Like
  <2> QED
    BY <1>1, <2>1, <2>2
<1> QED
  BY <1>1, <1>3, <1>4
  DEF TurnedAway, Begin, TypeOK, TableOK, Budget, InTable, table, service, wiki, ghosts

LEMMA ClaimableType ==
  ASSUME TableOK, NEW keys
  PROVE  Claimable(keys) \subseteq 1..Len(log) /\ Claimable(keys) \subseteq InTable
BY InTableInserted DEF Claimable

\* What the map phase makes of the batch.
LEMMA MapEffect ==
  ASSUME NEW b \in Batches, Map(b)
  PROVE  \E upd, stale, failed, I :
           /\ upd \cup failed \subseteq batch[b].held /\ stale \subseteq upd
           /\ batch' = [batch EXCEPT ![b] =
                Mapped(@, IF upd = {} THEN "settle" ELSE "reduce", upd, stale, failed)]
           /\ drained' = DrainRows(I)
<1> DEFINE ops == Canonical(batch[b].held)
           dead == {i \in Ingests(ops) : isKnowledgeGone(log[i].doc)}
           citing == {i \in ops : log[i].doc \in page}
           known == {i \in Retracts(ops) : del[log[i].doc] = "doneKnown"}
           alive(misread) == Ingests(ops) \ (dead \cup misread)
           unlink(misread) == known \cup ((Retracts(ops) \cap citing) \ misread)
           said(misread, failed, empty) == alive(misread) \ (failed \cup empty)
           upd(misread, failed, empty) == said(misread, failed, empty) \cup unlink(misread)
<1>1. PICK misread \in SUBSET (ops \ (dead \cup known)) :
        \E failed \in SUBSET alive(misread) :
        \E empty \in SUBSET (alive(misread) \ failed) :
          /\ \E stale \in SUBSET (said(misread, failed, empty) \cap citing) :
               batch' = [batch EXCEPT ![b] =
                 Mapped(@, IF upd(misread, failed, empty) = {} THEN "settle" ELSE "reduce",
                        upd(misread, failed, empty), stale, failed)]
          /\ drained' = DrainRows(dead \cup Ingests(misread) \cup empty)
  BY Zenon DEF Map, Mapped
<1>2. PICK failed, empty, stale :
        /\ failed \subseteq alive(misread) /\ stale \subseteq said(misread, failed, empty)
        /\ batch' = [batch EXCEPT ![b] =
             Mapped(@, IF upd(misread, failed, empty) = {} THEN "settle" ELSE "reduce",
                    upd(misread, failed, empty), stale, failed)]
        /\ drained' = DrainRows(dead \cup Ingests(misread) \cup empty)
  BY <1>1
<1>3. ops \subseteq batch[b].held
  BY DEF Canonical
<1>4. /\ said(misread, failed, empty) \subseteq ops /\ unlink(misread) \subseteq ops
      /\ failed \subseteq ops /\ stale \subseteq said(misread, failed, empty)
  <2>1. alive(misread) \subseteq ops
    BY DEF Ingests
  <2>2. said(misread, failed, empty) \subseteq alive(misread)
    OBVIOUS
  <2>3. known \subseteq ops /\ Retracts(ops) \subseteq ops
    BY DEF Retracts
  <2>4. unlink(misread) \subseteq ops
    BY <2>3
  <2> HIDE DEF alive, said, unlink, ops
  <2> QED
    BY <1>2, <2>1, <2>2, <2>4
<1> HIDE DEF said, unlink, ops
<1>5. /\ upd(misread, failed, empty) \cup failed \subseteq batch[b].held
      /\ stale \subseteq upd(misread, failed, empty)
  BY <1>3, <1>4
<1> DEFINE u == upd(misread, failed, empty)
<1>6. /\ u \cup failed \subseteq batch[b].held /\ stale \subseteq u
      /\ batch' = [batch EXCEPT ![b] =
           Mapped(@, IF u = {} THEN "settle" ELSE "reduce", u, stale, failed)]
  BY <1>2, <1>5
<1>7. \E I : drained' = DrainRows(I)
  BY <1>2
<1> HIDE DEF u
<1> QED
  BY <1>6, <1>7, Zenon

LEMMA MapKeeps ==
  ASSUME NEW b \in Batches, Map(b)
  PROVE  batch[b].pc = "map" /\ UNCHANGED <<table, service, wiki, tasks>>
BY Zenon DEF Map

\* What the last look and the read of the page make of the batch.
LEMMA ReadEffect ==
  ASSUME TypeOK, NEW b \in Batches, NEW locked \in BOOLEAN, Read(b, locked)
  PROVE  /\ \/ batch' = [batch EXCEPT ![b] = Moot(batch[b])]
            \/ \E kept \in SUBSET batch[b].upd, base \in {page, NoPage}, moved \in BOOLEAN :
                 batch' = [batch EXCEPT ![b] = Keeping(batch[b], kept, base, moved, locked)]
         /\ batch[b].pc = "reduce" /\ lock' \in {b, lock}
         /\ UNCHANGED <<table, service, page, unversioned, tasks, drained>>
<1>1. PICK misread \in SUBSET Additions(batch[b], filterLiveUpdates(b)),
           seen \in BOOLEAN : LastLook(b, locked, misread, seen)
  BY DEF Read
<1> DEFINE live == filterLiveUpdates(b) \ misread
           found == IF seen THEN page ELSE NoPage
           idle == IF found = NoPage THEN Additions(batch[b], live) = {} ELSE live = {}
           kept == IF idle THEN {} ELSE live
<1>2. /\ batch' = IF idle THEN [batch EXCEPT ![b] = Moot(batch[b])]
                   ELSE [batch EXCEPT ![b] = Keeping(batch[b], kept, found, ~seen, locked)]
      /\ batch[b].pc = "reduce"
      /\ lock' = IF locked /\ ~idle THEN b ELSE lock
      /\ UNCHANGED <<table, service, page, unversioned, tasks, drained>>
  BY <1>1, Zenon DEF LastLook, Moot, Keeping
<1>3. kept \subseteq batch[b].upd
  BY DEF filterLiveUpdates
<1>4. found \in {page, NoPage} /\ (~seen) \in BOOLEAN
  OBVIOUS
<1> HIDE DEF kept, found, idle
<1> QED
  BY <1>2, <1>3, <1>4

LEMMA WorkType ==
  ASSUME TypeOK, Budget, NEW b \in Batches, Work(b)
  PROVE  TypeOK' /\ Budget'
<1>1. CASE ClaimBatch(b)
  <2> DEFINE rows == Claimable(batch[b].keys)
  <2>1. /\ row' = [i \in Ids |-> IF i \in rows THEN "fresh" ELSE row[i]]
        /\ rows \subseteq 1..Len(log) /\ rows \subseteq InTable
    BY <1>1, ClaimableType DEF ClaimBatch, TypeOK
  <2>2. TableOK'
    BY <1>1, <2>1, LenProperties DEF ClaimBatch, TypeOK, TableOK, Ids
  <2>3. BatchOK'
    <3>1. /\ batch' = [batch EXCEPT ![b] = Claimed(batch[b], rows)]
          /\ batch[b].pc = "claim" /\ UNCHANGED log
      BY <1>1 DEF ClaimBatch, Claimed
    <3>2. batch[b] \in BatchStates /\ rows \in SUBSET Ids
      BY <2>1 DEF TypeOK, BatchOK, InTable
    <3>3. Like(Claimed(batch[b], rows), "map",
               rows, batch[b].upd, batch[b].stale, batch[b].failed, batch[b].kept)
      BY <3>2, ClaimedType
    <3>4. Consistent(Claimed(batch[b], rows))
      BY <2>1, <3>1, <3>3 DEF TypeOK, BatchOK, Consistent, Like
    <3> QED
      BY <3>1, <3>3, <3>4, OneBatch DEF TypeOK, Like
  <2>4. InTable' = InTable
    BY <2>1 DEF InTable
  <2> QED
    BY <1>1, <2>2, <2>3, <2>4
    DEF ClaimBatch, TypeOK, Budget, service, wiki, ghosts
<1>2. CASE NothingToClaim(b)
  <2>1. queue' \in [Kinds -> 0..MaxQueued] /\ armed' \subseteq Ids
    BY <1>2, TriggerType DEF NothingToClaim, TypeOK, Kinds, Fresh
  <2>2. BatchOK'
    BY <1>2, OneBatch, IdleType DEF NothingToClaim, TypeOK, table
  <2> QED
    BY <1>2, <2>1, <2>2
    DEF NothingToClaim, TypeOK, TableOK, Budget, InTable, table, service, wiki, ghosts
<1>3. CASE Map(b)
  <2>1. PICK upd, stale, failed, I :
          /\ upd \cup failed \subseteq batch[b].held /\ stale \subseteq upd
          /\ batch' = [batch EXCEPT ![b] =
               Mapped(@, IF upd = {} THEN "settle" ELSE "reduce", upd, stale, failed)]
          /\ drained' = DrainRows(I)
    BY <1>3, MapEffect
  <2>2. BatchOK'
    <3> DEFINE pc == IF upd = {} THEN "settle" ELSE "reduce"
    <3>1. /\ batch' = [batch EXCEPT ![b] = Mapped(batch[b], pc, upd, stale, failed)]
          /\ batch[b].pc = "map" /\ UNCHANGED log
      BY <1>3, <2>1 DEF Map, table
    <3>2. /\ batch[b] \in BatchStates /\ upd \in SUBSET Ids /\ failed \in SUBSET Ids
          /\ pc \in {"reduce", "settle"} /\ stale \in SUBSET Ids
      BY <2>1 DEF TypeOK, BatchOK, BatchStates
    <3> HIDE DEF pc
    <3>3. Like(Mapped(batch[b], pc, upd, stale, failed), pc,
               batch[b].held, upd, stale, failed, batch[b].kept)
      BY <3>2, MappedType
    <3>4. /\ upd \cup failed \subseteq batch[b].held /\ stale \subseteq upd
          /\ batch[b].kept = {} /\ batch[b].held \subseteq 1..Len(log)
      BY <2>1, <3>1 DEF TypeOK, BatchOK, Consistent
    <3>5. Consistent(Mapped(batch[b], pc, upd, stale, failed))
      BY <3>2, <3>3, <3>4 DEF Like, Consistent
    <3> QED
      BY <3>1, <3>3, <3>5, OneBatch DEF TypeOK, Like
  <2> QED
    BY <1>3, <2>1, <2>2, DrainType, MapKeeps
    DEF TypeOK, TableOK, Budget, InTable, table, service, wiki, tasks
<1>4. CASE SlugBusy(b)
  <2> DEFINE failed == batch[b].failed \cup batch[b].upd
  <2>1. /\ batch' = [batch EXCEPT ![b] = Collected(batch[b], failed)]
        /\ batch[b].pc = "reduce" /\ UNCHANGED log
    BY <1>4 DEF SlugBusy, Collected, table
  <2>2. batch[b] \in BatchStates /\ failed \in SUBSET Ids
    BY DEF TypeOK, BatchOK, BatchStates
  <2>3. Like(Collected(batch[b], failed), "settle",
             batch[b].held, batch[b].upd, batch[b].stale, failed, batch[b].kept)
    BY <2>2, CollectedType
  <2>4. Consistent(Collected(batch[b], failed))
    BY <2>1, <2>3 DEF TypeOK, BatchOK, Consistent, Like
  <2>5. BatchOK'
    BY <2>1, <2>3, <2>4, OneBatch DEF TypeOK, Like
  <2> QED
    BY <1>4, <2>5
    DEF SlugBusy, TypeOK, TableOK, Budget, InTable, table, service, wiki, tasks, ghosts
<1>5. ASSUME NEW locked \in BOOLEAN, Read(b, locked)
      PROVE  TypeOK' /\ Budget'
  <2>1. batch[b] \in BatchStates /\ Consistent(batch[b])
    BY DEF TypeOK, BatchOK
  <2>2. /\ batch[b].pc = "reduce" /\ lock' \in {b, lock}
        /\ UNCHANGED <<table, service, page, unversioned, tasks, drained>>
    BY <1>5, ReadEffect
  <2>3. CASE batch' = [batch EXCEPT ![b] = Moot(batch[b])]
    <3>1. Moot(batch[b]) \in BatchStates /\ Consistent(Moot(batch[b]))
      BY <2>1, <2>2, MootType DEF Like, Consistent
    <3> QED
      BY <2>2, <2>3, <3>1, OneBatch DEF TypeOK, table, TableOK, Budget, InTable, service, tasks
  <2>4. ASSUME NEW kept \in SUBSET batch[b].upd, NEW base \in {page, NoPage},
               NEW moved \in BOOLEAN,
               batch' = [batch EXCEPT ![b] = Keeping(batch[b], kept, base, moved, locked)]
        PROVE  TypeOK' /\ Budget'
    <3>1. kept \in SUBSET Ids /\ base \in SUBSET (Docs \cup {NoDoc})
      BY <2>1 DEF TypeOK, NoPage, BatchStates
    <3>2. Like(Keeping(batch[b], kept, base, moved, locked), "write", batch[b].held,
               batch[b].upd, batch[b].stale, batch[b].failed, kept)
      BY <1>5, <2>1, <3>1, KeepingType
    <3>3. Consistent(Keeping(batch[b], kept, base, moved, locked))
      BY <2>1, <2>2, <3>2 DEF Like, Consistent
    <3>4. BatchOK'
      BY <2>2, <2>4, <3>2, <3>3, OneBatch DEF TypeOK, Like, table
    <3> QED
      BY <2>2, <3>4 DEF TypeOK, TableOK, Budget, InTable, table, service, tasks
  <2> QED
    BY <1>5, <2>3, <2>4, ReadEffect
<1>6. Like(Written(b), "settle", batch[b].held, batch[b].upd, batch[b].stale, batch[b].failed, {})
  BY WrittenType DEF TypeOK
<1>7. ASSUME batch[b].pc \in {"write", "meta"}
      PROVE  Written(b) \in BatchStates /\ Consistent(Written(b))
  BY <1>6, <1>7 DEF TypeOK, BatchOK, Consistent, Like
<1>8. ASSUME batch[b].pc \in {"write", "meta"}, unversioned' \in BOOLEAN,
             Write(b, Moved({"write"})) \/ Write(b, batch)
      PROVE  TypeOK' /\ Budget'
  <2>1. /\ page' = Rewritten(b) /\ Unlock(b)
        /\ \/ batch' = [Moved({"write"}) EXCEPT ![b] = Written(b)]
           \/ batch' = [batch EXCEPT ![b] = Written(b)]
        /\ UNCHANGED <<table, service, tasks, drained>>
    BY <1>8 DEF Write
  <2>2. Rewritten(b) \in SUBSET (Docs \cup {NoDoc})
    <3>1. /\ batch[b].base \subseteq Docs \cup {NoDoc}
          /\ Additions(batch[b], batch[b].kept) \subseteq 1..Len(log)
      BY DEF TypeOK, BatchOK, BatchStates, Consistent, Ingests, Additions
    <3>2. Adds(b) \subseteq Docs
      BY <3>1, DocsOfType DEF Adds, TypeOK
    <3> QED
      BY <3>1, <3>2 DEF Rewritten
  <2>3. BatchOK'
    <3>1. CASE batch' = [batch EXCEPT ![b] = Written(b)]
      BY <1>7, <1>8, <2>1, <3>1, OneBatch DEF TypeOK, table
    <3>2. CASE batch' = [Moved({"write"}) EXCEPT ![b] = Written(b)]
      <4>1. /\ Moved({"write"}) \in [Batches -> BatchStates]
            /\ \A c \in Batches : Consistent(Moved({"write"})[c])
        BY MovedType DEF TypeOK, BatchOK, Consistent
      <4>2. log' = log
        BY <2>1 DEF table
      <4> QED
        BY <1>7, <1>8, <3>2, <4>1, <4>2 DEF BatchOK, Consistent
    <3> QED
      BY <2>1, <3>1, <3>2
  <2>4. lock' \in Batches \cup {NoBatch}
    BY <2>1 DEF Unlock, TypeOK
  <2> QED
    BY <1>8, <2>1, <2>2, <2>3, <2>4
    DEF TypeOK, TableOK, Budget, InTable, table, service, tasks
<1>9. ASSUME NEW how, EndWrite(b, how), batch[b].pc \in {"write", "meta"}
      PROVE  TypeOK' /\ Budget'
  <2>1. BatchOK'
    BY <1>7, <1>9, OneBatch DEF EndWrite, TypeOK, table
  <2>2. lock' \in Batches \cup {NoBatch}
    BY <1>9 DEF EndWrite, Unlock, TypeOK
  <2> QED
    BY <1>9, <2>1, <2>2 DEF EndWrite, TypeOK, TableOK, Budget, InTable, table, service, tasks
<1>11. CASE WritePage(b)
  BY <1>8, <1>11 DEF WritePage, TypeOK
<1>12. CASE UpdateMeta(b)
  BY <1>8, <1>12 DEF UpdateMeta
<1>13. CASE TextUnchanged(b)
  <2>1. Like(Unchanged(batch[b]), "meta", batch[b].held, batch[b].upd, batch[b].stale,
             batch[b].failed, batch[b].kept)
    BY UnchangedType DEF TypeOK, BatchOK
  <2>2. /\ batch' = [batch EXCEPT ![b] = Unchanged(batch[b])] /\ batch[b].pc = "write"
        /\ UNCHANGED <<table, service, wiki, tasks, ghosts>>
    BY <1>13 DEF TextUnchanged, Unchanged
  <2>3. Consistent(Unchanged(batch[b]))
    BY <2>1, <2>2 DEF TypeOK, BatchOK, Consistent, Like
  <2>4. BatchOK'
    BY <2>1, <2>2, <2>3, OneBatch DEF TypeOK, Like, table
  <2> QED
    BY <2>2, <2>4 DEF TypeOK, TableOK, Budget, InTable, table, service, wiki, tasks, ghosts
<1>10. CASE Finish(b)
  <2> DEFINE failed == batch[b].failed \cap InTable
             dead   == {i \in failed : Exhausted(i)}
             Count  == [i \in Ids |-> IF i \in failed THEN fails[i] + 1 ELSE fails[i]]
             Rows(cut, freed) ==
               [i \in Ids |-> IF i \in cut THEN "absent"
                             ELSE IF i \in freed THEN "free" ELSE row[i]]
             Outcome(cut, freed, I) ==
               /\ freed \subseteq failed \ dead /\ row' = Rows(cut, freed)
               /\ \/ fails' = Count /\ dead \subseteq cut
                  \/ fails' = fails
               /\ drained' = DrainRows(I)
  <2>1. PICK cut, freed, I : Outcome(cut, freed, I)
    <3>1. CASE /\ row' = Rows((batch[b].held \ batch[b].failed) \cup dead, failed \ dead)
               /\ fails' = Count
               /\ drained' = DrainRows(Settled(b) \cup GivenUp(dead))
      BY <3>1
    <3>2. CASE /\ row' = Rows(dead, failed \ dead) /\ fails' = Count
               /\ drained' = DrainRows(Settled(b) \cup GivenUp(dead))
      BY <3>2
    <3>3. CASE /\ row' = Rows(batch[b].held \ batch[b].failed, {}) /\ fails' = fails
               /\ drained' = DrainRows(Settled(b))
      <4>1. Outcome(batch[b].held \ batch[b].failed, {}, Settled(b))
        BY <3>3
      <4> HIDE DEF Outcome
      <4> QED
        BY <4>1
    <3> QED
      BY <1>10, <3>1, <3>2, <3>3, Zenon DEF Finish
  <2>2. /\ batch' = [batch EXCEPT ![b] = Idle] /\ FollowUp(b)
        /\ UNCHANGED <<log, service, wiki, armed, leases>>
    BY <1>10 DEF Finish
  <2>3. BatchOK'
    BY <2>2, OneBatch, IdleType DEF TypeOK
  <2>4. queue' \in [Kinds -> 0..MaxQueued]
    BY <2>2, TriggerType DEF FollowUp, TypeOK
  <2>5. failed \subseteq InTable /\ failed \subseteq 1..Len(log)
    BY DEF TypeOK, BatchOK, Consistent
  <2> HIDE DEF failed
  <2>5a. \A i \in Ids : i > Len(log) => i \notin failed
    <3>1. Len(log) \in Nat
      BY LenProperties DEF TypeOK, TableOK
    <3> QED
      BY <2>5, <3>1, WikiAssumption DEF Ids
  <2>6. fails' \in [Ids -> 0..(MaxFail + 1)]
    BY <2>1, <2>5, WikiAssumption DEF TypeOK, TableOK, Budget, InTable
  <2>7. TableOK'
    <3>1. row' \in [Ids -> {"absent", "free", "fresh", "stale"}]
      BY <2>1 DEF TypeOK, TableOK
    <3>2. \A i \in Ids : i > Len(log) => row'[i] = "absent"
      BY <2>1, <2>5a DEF TypeOK, TableOK
    <3> QED
      BY <2>2, <2>6, <3>1, <3>2 DEF TypeOK, TableOK
  <2>8. InTable' \subseteq InTable \ cut
    BY <2>1, <2>5 DEF InTable
  <2>9. \A i \in InTable' : fails'[i] <= MaxFail
    <3> SUFFICES ASSUME NEW i \in InTable' PROVE fails'[i] <= MaxFail
      OBVIOUS
    <3>1. i \in InTable /\ i \in Ids /\ i \notin cut /\ fails[i] <= MaxFail
      BY <2>8 DEF Budget, InTable
    <3>2. CASE fails' = fails \/ i \notin failed
      BY <2>1, <3>1, <3>2
    <3>3. CASE fails' = Count /\ dead \subseteq cut /\ i \in failed
      <4>1. ~Exhausted(i)
        BY <3>1, <3>3
      <4>2. fails[i] < MaxFail /\ fails[i] \in Nat
        BY <3>1, <4>1, WikiAssumption DEF Exhausted, TypeOK, TableOK
      <4> QED
        BY <3>1, <3>3, <4>2, WikiAssumption
    <3> QED
      BY <2>1, <3>2, <3>3
  <2>10. \A i \in Ids : i > Len(log') => fails'[i] = 0
    BY <2>1, <2>2, <2>5a DEF Budget
  <2>11. Budget'
    BY <2>9, <2>10 DEF Budget
  <2> QED
    BY <2>1, <2>2, <2>3, <2>4, <2>7, <2>11, DrainType DEF TypeOK, service, wiki
<1> QED
  BY <1>1, <1>2, <1>3, <1>4, <1>5, <1>9, <1>10, <1>11, <1>12, <1>13
  DEF Work, ReadLocked, ReadUnlocked, WriteFails, ModelFails

LEMMA FaultType ==
  ASSUME TypeOK, Budget, NEW b \in Batches, Crash(b) \/ Panic(b) \/ TimeOut(b)
  PROVE  TypeOK' /\ Budget'
<1>1. /\ batch' = [batch EXCEPT ![b] = Idle] /\ Trigger(batch[b].task)
      /\ UNCHANGED <<log, fails, service, page, unversioned, armed>>
  BY DEF Crash, Panic, TimeOut, Redeliver, table, wiki
<1>2. BatchOK'
  BY <1>1, OneBatch, IdleType DEF TypeOK
<1>3. queue' \in [Kinds -> 0..MaxQueued]
  BY <1>1, TriggerType DEF TypeOK
<1>4. leases' \in Nat /\ lock' \in Batches \cup {NoBatch}
  BY DEF Crash, Panic, TimeOut, Unlock, TypeOK, wiki
<1>5. drained' \in [Ids -> Nat]
  BY DrainType DEF Crash, Panic, TimeOut, TypeOK
<1>6. \/ row' = row
      \/ row' = [i \in Ids |-> IF i \in batch[b].held \cap InTable THEN "free" ELSE row[i]]
  BY DEF Crash, Panic, TimeOut, table
<1>7. row' \in [Ids -> {"absent", "free", "fresh", "stale"}] /\ InTable' \subseteq InTable
  BY <1>6 DEF TypeOK, TableOK, InTable
<1>8. \A i \in Ids : i > Len(log) => row'[i] = "absent"
  BY <1>7 DEF TypeOK, TableOK, InTable
<1>9. TableOK' /\ Budget'
  BY <1>1, <1>7, <1>8 DEF TypeOK, TableOK, Budget
<1> QED
  BY <1>1, <1>2, <1>3, <1>4, <1>5, <1>9 DEF TypeOK, service

LEMMA TimeType ==
  ASSUME TypeOK, Budget, (\E i \in Ids : ClaimGoesStale(i)) \/ LockExpires \/ LeaseExpires
  PROVE  TypeOK' /\ Budget'
<1>1. ASSUME NEW i \in Ids, ClaimGoesStale(i)
      PROVE  TypeOK' /\ Budget'
  BY <1>1 DEF ClaimGoesStale, TypeOK, TableOK, BatchOK, Consistent, Budget, InTable,
              service, wiki, tasks, ghosts
<1>2. CASE LockExpires
  BY <1>2 DEF LockExpires, TypeOK, TableOK, BatchOK, Consistent, Budget, InTable,
              table, service, tasks
<1>3. CASE LeaseExpires
  BY <1>3 DEF LeaseExpires, TypeOK, TableOK, BatchOK, Consistent, Budget, InTable,
              table, service, wiki, ghosts
<1> QED
  BY <1>1, <1>2, <1>3

LEMMA TypeInit ==
  Init => TypeOK /\ Budget
<1> SUFFICES ASSUME Init PROVE TypeOK /\ Budget
  OBVIOUS
<1>1. <<>> \in Seq([doc : Docs, op : {"ingest", "retract"}]) /\ Len(<<>>) = 0
  BY EmptySeq
<1>2. TableOK /\ Budget
  BY <1>1, WikiAssumption DEF Init, TableOK, Budget, InTable
<1>3. BatchOK
  BY IdleType DEF Init, BatchOK
<1> QED
  <2>1. copy \in [Docs -> Copies]
    BY DEF Init, Copies, NoCopy
  <2>2. page \in SUBSET (Docs \cup {NoDoc}) /\ unversioned \in BOOLEAN
    BY DEF Init, NoPage
  <2>3. queue \in [Kinds -> 0..MaxQueued]
    BY WikiAssumption DEF Init
  <2> QED
    BY <1>2, <1>3, <2>1, <2>2, <2>3 DEF Init, TypeOK

LEMMA TypeNext ==
  ASSUME TypeOK, Budget, [Next]_vars
  PROVE  TypeOK' /\ Budget'
<1>1. CASE UNCHANGED vars
  BY <1>1 DEF vars, TypeOK, TableOK, BatchOK, Consistent, Budget, InTable
<1> QED
  BY <1>1, ServiceType, StartType, WorkType, FaultType, TimeType DEF Next

-----------------------------------------------------------------------------
(* Claims *)

\* Claims stay apart as long as nobody takes on rows and the rows that are
\* still held keep their mark or go.
LEMMA ClaimsKeep ==
  ASSUME HeldFresh, ClaimsDisjoint,
         \A b \in Batches : batch'[b].held \subseteq batch[b].held,
         \A b \in Batches : \A i \in batch'[b].held :
            i \in InTable' => i \in InTable /\ row'[i] = row[i]
  PROVE  HeldFresh' /\ ClaimsDisjoint'
BY DEF HeldFresh, ClaimsDisjoint

\* A batch that stops holds nothing, whatever becomes of its rows.
LEMMA ClaimsEnd ==
  ASSUME IInv, NEW b \in Batches, batch' = [batch EXCEPT ![b] = Idle],
         \A i \in Ids : i \in InTable' =>
            i \in InTable /\ (row'[i] = row[i] \/ i \in batch[b].held)
  PROVE  HeldFresh' /\ ClaimsDisjoint'
<1>1. \A c \in Batches : batch'[c].held = IF c = b THEN {} ELSE batch[c].held
  BY IdleType DEF IInv, TypeOK, BatchOK
<1>2. ASSUME NEW c \in Batches, NEW i \in batch'[c].held, i \in InTable'
      PROVE  i \in InTable /\ row'[i] = row[i]
  <2>1. c # b /\ i \in batch[c].held
    BY <1>1, <1>2
  <2>2. i \in Ids
    BY <1>2 DEF InTable
  <2>3. i \in InTable
    BY <1>2, <2>2
  <2>4. i \notin batch[b].held
    BY <2>1, <2>3 DEF IInv, ClaimsDisjoint
  <2> QED
    BY <1>2, <2>2, <2>3, <2>4
<1> QED
  BY <1>1, <1>2, ClaimsKeep DEF IInv

LEMMA ServiceClaims ==
  ASSUME IInv, NEW d \in Docs, Service(d)
  PROVE  HeldFresh' /\ ClaimsDisjoint'
<1>1. \A b \in Batches : batch'[b].held = batch[b].held
  BY MovedType DEF Service, Cleanup, EnqueueWikiIngest, PrepareWikiForReparse,
     MarkKnowledgeDeleted, ScrubWikiPendingIngest, CleanupList, CleanupFix,
     EnqueueWikiRetract, MarkKnowledgeCancelled, RetractNotQueued, IInv, TypeOK
<1>2. CASE EnqueueWikiIngest(d) \/ EnqueueWikiRetract(d)
  <2>1. row' = [row EXCEPT ![Len(log) + 1] = "free"]
    BY <1>2 DEF EnqueueWikiIngest, EnqueueWikiRetract, AddRow
  <2>2. \A b \in Batches : Len(log) + 1 \notin batch[b].held
    BY LenProperties DEF IInv, TypeOK, TableOK, BatchOK, Consistent
  <2>3. \A b \in Batches : \A i \in batch[b].held :
          i \in InTable' => i \in InTable /\ row'[i] = row[i]
    BY <2>1, <2>2 DEF IInv, TypeOK, TableOK, InTable
  <2> QED
    BY <1>1, <2>3, ClaimsKeep DEF IInv
<1>3. CASE PrepareWikiForReparse(d) \/ ScrubWikiPendingIngest(d)
  <2>1. Scrub(d)
    BY <1>3 DEF PrepareWikiForReparse, ScrubWikiPendingIngest
  <2>2. \A i \in InTable' : i \in InTable /\ row'[i] = row[i]
    BY <2>1 DEF Scrub, InTable
  <2> QED
    BY <1>1, <2>2, ClaimsKeep DEF IInv
<1>4. CASE \/ MarkKnowledgeCancelled(d) \/ MarkKnowledgeDeleted(d) \/ CleanupList(d)
           \/ CleanupFix(d) \/ RetractNotQueued(d)
  <2>1. row' = row /\ InTable' = InTable
    BY <1>4 DEF MarkKnowledgeCancelled, MarkKnowledgeDeleted, CleanupList, CleanupFix,
                RetractNotQueued, table, InTable
  <2> QED
    BY <1>1, <2>1, ClaimsKeep DEF IInv
<1> QED
  BY <1>2, <1>3, <1>4 DEF Service, Cleanup

\* What is claimed was free or stale, so nobody else holds it.
LEMMA ClaimBatchClaims ==
  ASSUME IInv, NEW b \in Batches, ClaimBatch(b)
  PROVE  HeldFresh' /\ ClaimsDisjoint'
<1> DEFINE rows == Claimable(batch[b].keys)
<1>1. /\ row' = [i \in Ids |-> IF i \in rows THEN "fresh" ELSE row[i]]
      /\ batch' = [batch EXCEPT ![b] = Claimed(batch[b], rows)]
  BY DEF ClaimBatch, Claimed
<1>2. rows \in SUBSET Ids /\ \A i \in rows : row[i] # "fresh"
  BY DEF Claimable, Eligible
<1>3. rows \subseteq InTable
  BY ClaimableType DEF IInv, TypeOK
<1>4. Claimed(batch[b], rows).held = rows
  BY <1>2, ClaimedType DEF Like, IInv, TypeOK, BatchOK
<1>5. \A c \in Batches : batch'[c].held = IF c = b THEN rows ELSE batch[c].held
  BY <1>1, <1>4 DEF IInv, TypeOK, BatchOK
<1> HIDE DEF rows
<1>6. InTable' = InTable
  BY <1>1, <1>3 DEF InTable
<1>7. \A c \in Batches \ {b} : rows \cap batch[c].held = {}
  BY <1>2, <1>3 DEF IInv, HeldFresh
<1>8. HeldFresh'
  BY <1>1, <1>2, <1>5, <1>6, <1>7 DEF IInv, HeldFresh, InTable
<1>9. ClaimsDisjoint'
  BY <1>5, <1>6, <1>7 DEF IInv, ClaimsDisjoint
<1> QED
  BY <1>8, <1>9

LEMMA WorkClaims ==
  ASSUME IInv, NEW b \in Batches, Start(b) \/ Work(b)
  PROVE  HeldFresh' /\ ClaimsDisjoint'
<1>1. ASSUME UNCHANGED table, \A c \in Batches : batch'[c].held \subseteq batch[c].held
      PROVE  HeldFresh' /\ ClaimsDisjoint'
  BY <1>1, ClaimsKeep DEF IInv, table, InTable
<1>2. CASE \E k \in Kinds : TurnedAway(b, k)
  BY <1>1, <1>2 DEF TurnedAway
<1>3. ASSUME NEW k \in Kinds, Begin(b, k)
      PROVE  HeldFresh' /\ ClaimsDisjoint'
  <2>1. batch' = [batch EXCEPT ![b] = Begun(batch[b], k, Candidates)] /\ UNCHANGED table
    BY <1>3 DEF Begin, Begun
  <2>2. Begun(batch[b], k, Candidates).held = batch[b].held
    BY CandidatesType, BegunType DEF Like, IInv, TypeOK, BatchOK
  <2> QED
    BY <1>1, <2>1, <2>2 DEF IInv, TypeOK, BatchOK
<1>4. CASE ClaimBatch(b)
  BY <1>4, ClaimBatchClaims
<1>5. CASE NothingToClaim(b)
  BY <1>1, <1>5, IdleType DEF NothingToClaim, IInv, TypeOK, BatchOK
<1>6. ASSUME NEW s, s.held = batch[b].held, UNCHANGED table,
             batch' = [batch EXCEPT ![b] = s] \/ batch' = [Moved({"write"}) EXCEPT ![b] = s]
      PROVE  HeldFresh' /\ ClaimsDisjoint'
  BY <1>1, <1>6, MovedType DEF IInv, TypeOK, BatchOK
<1>7. CASE Map(b)
  <2>1. PICK pc, upd, stale, failed :
          batch' = [batch EXCEPT ![b] = Mapped(batch[b], pc, upd, stale, failed)]
    BY <1>7, MapEffect
  <2>2. Mapped(batch[b], pc, upd, stale, failed).held = batch[b].held
    BY DEF Mapped, IInv, TypeOK, BatchOK, BatchStates
  <2> QED
    BY <1>6, <1>7, <2>1, <2>2, MapKeeps
<1>8. CASE SlugBusy(b)
  <2> DEFINE s == Collected(batch[b], batch[b].failed \cup batch[b].upd)
  <2>1. batch' = [batch EXCEPT ![b] = s] /\ UNCHANGED table
    BY <1>8 DEF SlugBusy, Collected
  <2>2. s.held = batch[b].held
    BY DEF Collected, IInv, TypeOK, BatchOK, BatchStates
  <2> QED
    BY <1>6, <2>1, <2>2
<1>9. ASSUME NEW locked \in BOOLEAN, Read(b, locked)
      PROVE  HeldFresh' /\ ClaimsDisjoint'
  <2>1. PICK s : /\ s.held = batch[b].held
                 /\ batch' = [batch EXCEPT ![b] = s]
    <3>1. Moot(batch[b]).held = batch[b].held
      BY DEF Moot, IInv, TypeOK, BatchOK, BatchStates
    <3>2. \A kept, base, moved :
            Keeping(batch[b], kept, base, moved, locked).held = batch[b].held
      BY DEF Keeping, IInv, TypeOK, BatchOK, BatchStates
    <3> QED
      BY <1>9, <3>1, <3>2, ReadEffect DEF IInv
  <2>2. UNCHANGED table
    BY <1>9, ReadEffect DEF IInv
  <2> QED
    BY <1>6, <2>1, <2>2
<1>10. Written(b).held = batch[b].held
  BY WrittenType DEF IInv, TypeOK, Like
<1>11. CASE WritePage(b) \/ UpdateMeta(b)
  BY <1>6, <1>10, <1>11 DEF WritePage, UpdateMeta, Write
<1>14. CASE TextUnchanged(b)
  <2>1. batch' = [batch EXCEPT ![b] = Unchanged(batch[b])] /\ UNCHANGED table
    BY <1>14 DEF TextUnchanged, Unchanged
  <2>2. Unchanged(batch[b]).held = batch[b].held
    BY DEF Unchanged, IInv, TypeOK, BatchOK, BatchStates
  <2> QED
    BY <1>6, <2>1, <2>2
<1>12. ASSUME NEW how, EndWrite(b, how)
       PROVE  HeldFresh' /\ ClaimsDisjoint'
  BY <1>6, <1>10, <1>12 DEF EndWrite
<1>13. CASE Finish(b)
  <2> DEFINE failed == batch[b].failed \cap InTable
             dead   == {i \in failed : Exhausted(i)}
             Outcome(cut, freed) ==
               /\ freed \subseteq failed
               /\ row' = [i \in Ids |-> IF i \in cut THEN "absent"
                                      ELSE IF i \in freed THEN "free" ELSE row[i]]
  <2>0. \/ Outcome((batch[b].held \ batch[b].failed) \cup dead, failed \ dead)
        \/ Outcome(dead, failed \ dead)
        \/ Outcome(batch[b].held \ batch[b].failed, {})
    BY <1>13 DEF Finish
  <2>1. /\ batch' = [batch EXCEPT ![b] = Idle]
        /\ \E cut, freed : Outcome(cut, freed)
    <3> HIDE DEF Outcome
    <3> QED
      BY <1>13, <2>0 DEF Finish
  <2>2. batch[b].failed \subseteq batch[b].held
    BY DEF IInv, TypeOK, BatchOK, Consistent
  <2>3. \A i \in Ids : i \in InTable' =>
          i \in InTable /\ (row'[i] = row[i] \/ i \in batch[b].held)
    BY <2>1, <2>2 DEF InTable
  <2> QED
    BY <2>1, <2>3, ClaimsEnd
<1> QED
  BY <1>2, <1>3, <1>4, <1>5, <1>7, <1>8, <1>9, <1>11, <1>12, <1>13, <1>14
  DEF Start, Work, ReadLocked, ReadUnlocked, WriteFails, ModelFails

LEMMA FaultClaims ==
  ASSUME IInv, NEW b \in Batches, Crash(b) \/ Panic(b) \/ TimeOut(b)
  PROVE  HeldFresh' /\ ClaimsDisjoint'
<1>1. batch' = [batch EXCEPT ![b] = Idle]
  BY DEF Crash, Panic, TimeOut, Redeliver
<1>2. \/ row' = row
      \/ row' = [i \in Ids |-> IF i \in batch[b].held \cap InTable THEN "free" ELSE row[i]]
  BY DEF Crash, Panic, TimeOut, table
<1>3. \A i \in Ids : i \in InTable' =>
        i \in InTable /\ (row'[i] = row[i] \/ i \in batch[b].held)
  BY <1>2 DEF InTable
<1> QED
  BY <1>1, <1>3, ClaimsEnd

\* A claim that somebody lives by does not go stale.
LEMMA TimeClaims ==
  ASSUME IInv, (\E i \in Ids : ClaimGoesStale(i)) \/ LockExpires \/ LeaseExpires
  PROVE  HeldFresh' /\ ClaimsDisjoint'
<1>1. ASSUME NEW i \in Ids, ClaimGoesStale(i)
      PROVE  HeldFresh' /\ ClaimsDisjoint'
  BY <1>1, ClaimsKeep DEF ClaimGoesStale, IInv, TypeOK, TableOK, InTable
<1>2. CASE LockExpires \/ LeaseExpires
  BY <1>2, ClaimsKeep DEF LockExpires, LeaseExpires, IInv, InTable, table
<1> QED
  BY <1>1, <1>2

LEMMA Inductive ==
  ASSUME IInv, [Next]_vars
  PROVE  IInv'
<1>1. TypeOK' /\ Budget'
  BY TypeNext DEF IInv
<1>2. HeldFresh' /\ ClaimsDisjoint'
  <2>1. CASE UNCHANGED vars
    BY <2>1, ClaimsKeep DEF IInv, vars, InTable
  <2> QED
    BY <2>1, ServiceClaims, WorkClaims, FaultClaims, TimeClaims DEF Next
<1> QED
  BY <1>1, <1>2 DEF IInv

LEMMA Initially ==
  Init => IInv
<1> SUFFICES ASSUME Init PROVE IInv
  OBVIOUS
<1>1. HeldFresh /\ ClaimsDisjoint
  BY DEF Init, HeldFresh, ClaimsDisjoint, InTable
<1> QED
  BY <1>1, TypeInit DEF IInv

-----------------------------------------------------------------------------
(* The theorems *)

LEMMA Invariance ==
  Spec => []IInv
BY Initially, Inductive, PTL DEF Spec

\* Types: among them that no row is retried more often than it may be, and
\* that a batch only touches rows that were inserted.
THEOREM TypeCorrect ==
  Spec => []TypeOK
<1>1. IInv => TypeOK
  BY DEF IInv
<1> QED
  BY <1>1, Invariance, PTL

\* ClaimBatch hands out disjoint rows, and they stay apart through crashes,
\* panics, time-outs, releases and claims that go stale.
THEOREM RowsClaimedOnce ==
  Spec => []ClaimsDisjoint
<1>1. IInv => ClaimsDisjoint
  BY DEF IInv
<1> QED
  BY <1>1, Invariance, PTL
=============================================================================
