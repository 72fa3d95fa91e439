----------------------------- MODULE WikiQueue -----------------------------
(***************************************************************************)
(* The wiki ingest queue of one knowledge base in standard (Redis) mode:   *)
(* rows of task_pending_ops that say "ingest this document" or "retract    *)
(* this document", the queue's triggers, the batches that claim rows, map  *)
(* them and write one shared page, and the delete and reparse paths that   *)
(* remove rows under them.                                                 *)
(*                                                                         *)
(* A row is named by its id, in order of insertion; log[i] is what row i   *)
(* says and row[i] is what the table holds of it.  All documents           *)
(* contribute to one page, the worst case for the per-slug lock; the page  *)
(* is the set of documents its source_refs cite.                           *)
(***************************************************************************)
EXTENDS Integers, Sequences, FiniteSets, FiniteSetsExt

CONSTANTS
  Docs,         \* documents of the knowledge base
  Batches,      \* workers that can run a wiki:ingest task at once
  NoBatch,      \* the per-slug lock is free
  NoDoc,        \* not a document
  MaxOps,       \* bound: rows ever inserted
  BatchSize,    \* documents one batch claims (IngestBatchSize)
  MaxInflight,  \* batches of one base at once (IngestMaxInflight)
  MaxQueued,    \* bound: triggers of a kind that are told apart
  MaxFail,      \* wikiMaxFailRetries
  FaultKinds,   \* which faults this instance allows
  MaxFaults,    \* bound: faults in one behaviour
  Deletes,      \* documents that may be deleted
  Cancels,      \* documents whose parse may be cancelled
  Reparses      \* documents that may be parsed again

ASSUME WikiAssumption ==
  /\ MaxOps \in Nat /\ MaxFail \in Nat /\ MaxQueued \in Nat \ {0} /\ MaxFaults \in Nat
  /\ BatchSize \in Nat \ {0} /\ MaxInflight \in Nat \ {0}
  /\ NoBatch \notin Batches /\ NoDoc \notin Docs
  /\ FaultKinds \subseteq {"crash", "panic", "timeout", "db", "llm", "redis", "ttl"}
  /\ Deletes \cup Cancels \cup Reparses \subseteq Docs

VARIABLES
  log,      \* what each row says, in order of id
  row,      \* "absent", "free", or its claim: "fresh", "stale"
  fails,    \* fail_count of each row
  plan,     \* documents whose post-processing is about to queue an ingest
  gone,     \* documents marked as deleting, tombstone written
  del,      \* how far the clean-up of a deleted or cancelled document has come
  copy,     \* the page as that clean-up has listed it
  page,     \* source_refs of the shared page, or NoPage
  lock,     \* holder of wiki:slug:<kb>:<slug>
  unversioned, \* ghost: an update of the page has left its version as it was
  batch,    \* the local state of each worker
  leases,   \* in-flight slots of workers that died, until they expire
  queue,    \* triggers waiting, by kind
  armed,    \* rows that carried a fresh claim when the recheck was armed
  faults,   \* ghost: the faults that have happened
  ended,    \* ghost: how each row's work ended, as far as anyone decided
  drained,  \* ghost: how often a row's finalizing slot was released
  late      \* ghost: deleted while a batch was past its last look at the row

vars == <<log, row, fails, plan, gone, del, copy, page, lock, unversioned, batch,
          leases, queue, armed, faults, ended, drained, late>>

table   == <<log, row, fails>>
service == <<plan, gone, del, copy, late>>
wiki    == <<page, lock, unversioned>>
tasks   == <<queue, armed, leases>>
ghosts  == <<faults, ended, drained>>

-----------------------------------------------------------------------------
(* The table *)

Ids     == 1..MaxOps
NoCopy  == [refs |-> {}, same |-> FALSE]
NoPage  == {NoDoc}
InTable == {i \in Ids : row[i] # "absent"}
Fresh   == {i \in Ids : row[i] = "fresh"}
Eligible == {i \in Ids : row[i] \in {"free", "stale"}}

DocsOf(I) == {log[i].doc : i \in I}
Ingests(I)  == {i \in I : log[i].op = "ingest"}
Retracts(I) == {i \in I : log[i].op = "retract"}

\* ClaimBatch, first statement: the BatchSize oldest documents with an
\* eligible row and no fresh claim.
Candidates ==
  LET free == DocsOf(Eligible) \ DocsOf(Fresh)
      anchor(d) == Min({i \in Eligible : log[i].doc = d})
  IN  {d \in free :
         Cardinality({e \in free : anchor(e) < anchor(d)}) < BatchSize}

\* Faulty variant: claims by document, also what another batch has claimed.
ClaimableByDoc(keys) == {i \in InTable : log[i].doc \in keys}

\* ClaimBatch, second statement: the rows of these documents that are
\* eligible by now.
Claimable(keys) == {i \in Eligible : log[i].doc \in keys}

\* decodePendingRows: the last row of each document is the one that counts.
Canonical(I) ==
  {i \in I : \A j \in I : log[j].doc = log[i].doc => j <= i}

\* Faulty variant: one retry too many.
ExhaustedLate(i) == fails[i] > MaxFail

\* requeueFailedOps: this failure is one more than the row may have.
Exhausted(i) == fails[i] >= MaxFail

-----------------------------------------------------------------------------
(* Batches and triggers *)

Kinds == {"plain", "recheck", "capped"}

Idle == [pc |-> "idle", task |-> "none", keys |-> {}, held |-> {},
         upd |-> {}, stale |-> {}, kept |-> {}, failed |-> {},
         base |-> NoPage, moved |-> FALSE, locked |-> FALSE]

\* The batches at one of these points have read a page that is no longer the
\* one stored, and their update will be refused.
Moved(pcs) ==
  [c \in Batches |->
     IF batch[c].pc \in pcs THEN [batch[c] EXCEPT !.pc = "write", !.moved = TRUE]
                            ELSE [batch[c] EXCEPT !.moved = FALSE]]

Live == {b \in Batches : batch[b].pc # "idle"}

\* The updates among I that are to add their document to the page: an ingest
\* whose document no longer mentions the subject takes it off ("retractStale").
Additions(s, I) == Ingests(I) \ s.stale

\* asynq keeps a task's id taken until the task is done, so also while it runs.
Taken(k) == queue[k] > 0 \/ \E b \in Batches : batch[b].task = k

\* Of several triggers waiting, the ones beyond MaxQueued are not counted.
Trigger(k) == queue' = [queue EXCEPT ![k] = IF @ < MaxQueued THEN @ + 1 ELSE @]

CanFail(f) == f \in FaultKinds \ faults /\ Cardinality(faults) < MaxFaults
Fault(f)   == CanFail(f) /\ faults' = faults \cup {f}
Suffers(F) == /\ F \subseteq FaultKinds \ faults
              /\ F # {} => Cardinality(faults \cup F) <= MaxFaults
              /\ faults' = faults \cup F
DbError(happens) == IF happens THEN {"db"} ELSE {}

\* What has been scrubbed stays scrubbed: the batch at work on it goes on in vain.
Mark(I, how) ==
  ended' = [i \in Ids |-> IF i \in I /\ ended[i] # "replaced" THEN how ELSE ended[i]]
MarkTwo(I, how, J, other) ==
  ended' = [i \in Ids |-> IF ended[i] = "replaced" THEN ended[i]
                          ELSE IF i \in I THEN how
                          ELSE IF i \in J THEN other ELSE ended[i]]
DrainRows(I) == [i \in Ids |-> IF i \in I THEN drained[i] + 1 ELSE drained[i]]

AddRow(d, op) ==
  /\ Len(log) < MaxOps
  /\ log' = Append(log, [doc |-> d, op |-> op])
  /\ row' = [row EXCEPT ![Len(log) + 1] = "free"]
  /\ UNCHANGED fails
  /\ Trigger("plain")

Init ==
  /\ log = <<>>
  /\ row = [i \in Ids |-> "absent"]
  /\ fails = [i \in Ids |-> 0]
  /\ plan = Docs
  /\ gone = {} /\ late = {}
  /\ del = [d \in Docs |-> "no"]
  /\ copy = [d \in Docs |-> NoCopy]
  /\ page = NoPage
  /\ lock = NoBatch /\ unversioned = FALSE
  /\ batch = [b \in Batches |-> Idle]
  /\ leases = 0
  /\ queue = [k \in Kinds |-> 0]
  /\ armed = {}
  /\ faults = {}
  /\ ended = [i \in Ids |-> "open"]
  /\ drained = [i \in Ids |-> 0]

-----------------------------------------------------------------------------
(* The services that insert and remove rows *)

\* Post-processing hands the document to the wiki; it looked at the row long
\* before, so the document may be deleted by now.
EnqueueWikiIngest(d) ==
  /\ d \in plan
  /\ AddRow(d, "ingest")
  /\ plan' = plan \ {d}
  /\ UNCHANGED <<gone, del, copy, late, wiki, batch, leases, armed, ghosts>>

\* DeleteByDedupKey: every ingest row of d goes, claimed or not.
Scrub(d) ==
  LET out == {i \in Ingests(InTable) : log[i].doc = d}
  IN  /\ row' = [i \in Ids |-> IF i \in out THEN "absent" ELSE row[i]]
      /\ Mark(out, "replaced")

\* CancelKnowledgeParse marks the row of a document that is not done yet; like
\* a delete it goes on to scrub the queue.
MarkKnowledgeCancelled(d) ==
  /\ d \in Cancels /\ del[d] = "no"
  /\ d \in plan \cup DocsOf(Ingests(InTable))
  /\ del' = [del EXCEPT ![d] = "cancel"]
  /\ UNCHANGED <<table, plan, gone, copy, late, wiki, batch, tasks, ghosts>>

\* A reparse scrubs the queue; its post-processing will queue a new ingest.
PrepareWikiForReparse(d) ==
  /\ d \in Reparses \ (gone \cup plan) /\ del[d] \in {"no", "cancelled"}
  /\ Len(log) < MaxOps
  /\ Scrub(d)
  /\ plan' = plan \cup {d}
  /\ del' = [del EXCEPT ![d] = "no"]
  /\ UNCHANGED <<log, fails, gone, copy, late, wiki, batch, tasks, faults, drained>>

\* DeleteKnowledge marks the row, then writes the tombstone.
MarkKnowledgeDeleted(d) ==
  /\ d \in Deletes \ gone
  /\ gone' = gone \cup {d}
  /\ del' = [del EXCEPT ![d] = "scrub"]
  /\ late' = IF \E b \in Batches : d \in DocsOf(Additions(batch[b], batch[b].kept))
             THEN late \cup {d} ELSE late
  /\ UNCHANGED <<table, plan, copy, wiki, batch, tasks, ghosts>>

ScrubWikiPendingIngest(d) ==
  /\ del[d] \in {"scrub", "cancel"}
  /\ Scrub(d)
  /\ del' = [del EXCEPT ![d] = IF @ = "scrub" THEN "list" ELSE "cancelled"]
  /\ UNCHANGED <<log, fails, plan, gone, copy, late, wiki, batch, tasks,
                 faults, drained>>

\* cleanupWikiOnKnowledgeDelete lists the pages that cite d; if that fails it
\* goes on as if there were none ...
CleanupList(d) ==
  /\ del[d] = "list"
  /\ \/ /\ d \in page /\ UNCHANGED faults
        /\ copy' = [copy EXCEPT ![d] = [refs |-> page, same |-> TRUE]]
        /\ del' = [del EXCEPT ![d] = "fix"]
     \/ /\ Suffers(DbError(d \in page))
        /\ del' = [del EXCEPT ![d] = "retract"]
        /\ UNCHANGED copy
  /\ UNCHANGED <<table, plan, gone, late, wiki, batch, tasks, ended, drained>>

\* ... and, from that copy and without the slug lock, either deletes whatever
\* page has the slug, because d was the only source, or writes the other
\* sources back to the page it has read.  A deleted page is another one when
\* it comes back: copies read before no longer match it.  An error is logged.
CleanupFix(d) ==
  /\ del[d] = "fix"
  /\ \E works \in BOOLEAN :
     LET rest == copy[d].refs \ {d}
         found == works /\ page # NoPage /\ (rest = {} \/ copy[d].same)
         others == [e \in Docs |-> [copy[e] EXCEPT !.same = FALSE]]
     IN  /\ Suffers(DbError(~works))
         /\ del' = [del EXCEPT ![d] = IF found THEN "retractKnown" ELSE "retract"]
         /\ page' = IF ~found THEN page ELSE IF rest = {} THEN NoPage ELSE rest
         /\ copy' = [(IF found /\ rest = {} THEN others ELSE copy)
                        EXCEPT ![d] = NoCopy]
         /\ batch' = IF found /\ rest = {} THEN Moved({"write", "meta"}) ELSE batch
  /\ UNCHANGED <<table, plan, gone, late, lock, unversioned, tasks, ended, drained>>

EnqueueWikiRetract(d) ==
  /\ del[d] \in {"retract", "retractKnown"}
  /\ AddRow(d, "retract")
  /\ del' = [del EXCEPT ![d] = IF @ = "retract" THEN "done" ELSE "doneKnown"]
  /\ UNCHANGED <<plan, gone, copy, late, wiki, batch, leases, armed, ghosts>>

\* The insert fails: that is logged, and the queue triggered all the same.
RetractNotQueued(d) ==
  /\ del[d] \in {"retract", "retractKnown"} /\ Fault("db")
  /\ del' = [del EXCEPT ![d] = "unqueued"]
  /\ Trigger("plain")
  /\ UNCHANGED <<table, plan, gone, copy, late, wiki, batch, leases, armed,
                 ended, drained>>

-----------------------------------------------------------------------------
(* ProcessWikiIngest *)

Full == Cardinality(Live) + leases >= MaxInflight

\* The recheck is delayed past wikiClaimStaleAfter: what was freshly claimed
\* when it was armed is not so any more.
Due(k) == queue[k] > 0 /\ (k = "recheck" => armed \cap Fresh = {})

\* At the in-flight cap the task ends; scheduleCappedRetry does nothing while
\* its task id is taken, be it by the very task that is running.
TurnedAway(b, k) ==
  /\ batch[b].pc = "idle" /\ Due(k) /\ Full
  /\ queue' = IF k = "capped" \/ Taken("capped")
              THEN [queue EXCEPT ![k] = @ - 1]
              ELSE [queue EXCEPT ![k] = @ - 1, !["capped"] = 1]
  /\ UNCHANGED <<table, service, wiki, batch, armed, leases, ghosts>>

\* reserveInflightSlot, and the snapshot of ClaimBatch's first statement.
Begin(b, k) ==
  /\ batch[b].pc = "idle" /\ Due(k) /\ ~Full
  /\ queue' = [queue EXCEPT ![k] = @ - 1]
  /\ batch' = [batch EXCEPT ![b] =
                 [@ EXCEPT !.pc = "claim", !.task = k, !.keys = Candidates]]
  /\ UNCHANGED <<table, service, wiki, armed, leases, ghosts>>

ClaimBatch(b) ==
  /\ batch[b].pc = "claim"
  /\ LET rows == Claimable(batch[b].keys) IN
     /\ rows # {}
     /\ row' = [i \in Ids |-> IF i \in rows THEN "fresh" ELSE row[i]]
     /\ armed' = armed \ rows
     /\ batch' = [batch EXCEPT ![b] =
                    [@ EXCEPT !.pc = "map", !.keys = {}, !.held = rows]]
  /\ UNCHANGED <<log, fails, service, wiki, queue, leases, ghosts>>

\* Nothing to claim: scheduleStaleClaimRecheck, one recheck per base.
NothingToClaim(b) ==
  /\ batch[b].pc = "claim"
  /\ Claimable(batch[b].keys) = {}
  /\ IF InTable # {} /\ ~Taken("recheck")
     THEN Trigger("recheck") /\ armed' = Fresh
     ELSE UNCHANGED <<queue, armed>>
  /\ batch' = [batch EXCEPT ![b] = Idle]
  /\ UNCHANGED <<table, service, wiki, leases, ghosts>>

\* isKnowledgeGone, when the database answers.
isKnowledgeGone(d) == d \in gone \/ del[d] \in {"cancel", "cancelled"}

\* The map phase.  An ingest of a document that is gone, or taken for gone
\* because the database does not answer, is skipped, one of a live document may
\* fail, may have nothing to say, or yields an update; a retract yields one if a
\* page is known or found to cite the document, and a failed look finds none.
Map(b) ==
  /\ batch[b].pc = "map"
  /\ LET ops == Canonical(batch[b].held)
         dead == {i \in Ingests(ops) : isKnowledgeGone(log[i].doc)}
         citing == {i \in ops : log[i].doc \in page}
         known == {i \in Retracts(ops) : del[log[i].doc] = "doneKnown"}
     IN \E misread \in SUBSET (ops \ (dead \cup known)) :
        LET alive == Ingests(ops) \ (dead \cup misread)
            unlink == known \cup ((Retracts(ops) \cap citing) \ misread)
        IN \E failed \in SUBSET alive : \E empty \in SUBSET (alive \ failed) :
           LET said == alive \ (failed \cup empty) IN
           /\ \E stale \in SUBSET (said \cap citing) :
                batch' = [batch EXCEPT ![b] =
                  [@ EXCEPT !.pc = IF said \cup unlink = {} THEN "settle" ELSE "reduce",
                            !.upd = said \cup unlink, !.stale = stale,
                            !.failed = failed]]
           /\ Suffers(DbError(misread # {}))
           /\ drained' = DrainRows(dead \cup Ingests(misread) \cup empty)
           /\ MarkTwo(misread, "mistaken",
                      dead \cup empty \cup (Retracts(ops) \ unlink), "closed")
  /\ UNCHANGED <<table, service, wiki, tasks>>

\* Faulty variant: the updates of a busy page are not collected.
SlugBusyIgnored(b) ==
  /\ batch[b].pc = "reduce"
  /\ lock # NoBatch
  /\ batch' = [batch EXCEPT ![b] = [@ EXCEPT !.pc = "settle"]]
  /\ UNCHANGED <<table, service, wiki, tasks, ghosts>>

\* The slug lock is not free within wikiSlugLockWait: collectUnapplied.
SlugBusy(b) ==
  /\ batch[b].pc = "reduce"
  /\ lock # NoBatch
  /\ batch' = [batch EXCEPT ![b] =
                 [@ EXCEPT !.pc = "settle",
                           !.failed = batch[b].failed \cup batch[b].upd]]
  /\ UNCHANGED <<table, service, wiki, tasks, ghosts>>

\* Faulty variant: no last look.
filterNothing(b) == batch[b].upd

\* The last look at the documents: additions of those that are gone are dropped.
filterLiveUpdates(b) ==
  batch[b].upd \ {i \in Additions(batch[b], batch[b].upd) : isKnowledgeGone(log[i].doc)}

\* withSlugLock and filterLiveUpdates, which takes a document for gone if the
\* database does not answer; then the page is read and the model asked to
\* rewrite it.  A page that cannot be read is taken for one that does not exist:
\* without additions nothing is done, with some it is created anew, in vain.
LastLook(b, locked, misread, seen) ==
  LET live == filterLiveUpdates(b) \ misread
      found == IF seen THEN page ELSE NoPage
      idle == IF found = NoPage THEN Additions(batch[b], live) = {} ELSE live = {}
      kept == IF idle THEN {} ELSE live
      missed == misread \cup (IF seen THEN {} ELSE live \ kept)
  IN  /\ batch[b].pc = "reduce"
      /\ seen \/ page # NoPage
      /\ Suffers(DbError(misread # {} \/ ~seen)
                  \cup (IF locked THEN {} ELSE {"redis"}))
      /\ batch' = IF idle
            THEN [batch EXCEPT ![b] = [@ EXCEPT !.pc = "settle"]]
            ELSE [batch EXCEPT ![b] =
                    [@ EXCEPT !.pc = "write", !.kept = kept, !.base = found,
                              !.moved = ~seen, !.locked = locked]]
      /\ lock' = IF locked /\ ~idle THEN b ELSE lock
      /\ MarkTwo(missed, "mistaken", batch[b].upd \ kept, "closed")
      /\ UNCHANGED <<table, service, page, unversioned, tasks, drained>>

Read(b, locked) ==
  \E misread \in SUBSET Additions(batch[b], filterLiveUpdates(b)), seen \in BOOLEAN :
    LastLook(b, locked, misread, seen)

ReadLocked(b) == lock = NoBatch /\ Read(b, TRUE)
\* Redis cannot be asked: the update runs without the lock.
ReadUnlocked(b) == Read(b, FALSE)

\* The lock is deleted whoever holds it by now.
Unlock(b) == lock' = IF batch[b].locked THEN NoBatch ELSE lock

Adds(b) == DocsOf(Additions(batch[b], batch[b].kept))
Removes(b) == DocsOf(batch[b].kept \ Additions(batch[b], batch[b].kept))

Rewritten(b) ==
  LET refs == IF batch[b].base = NoPage THEN {} ELSE batch[b].base
  IN  (refs \ Removes(b)) \cup Adds(b)

\* What the batch knows once its page is done with.
Written(b) == [batch[b] EXCEPT !.pc = "settle", !.kept = {}, !.base = NoPage,
                               !.moved = FALSE, !.locked = FALSE]

\* A row that took its document off the page, and the rows that had put it
\* there, are "unlinked"; the others are applied.
Applied(b) ==
  LET off == DocsOf(batch[b].kept \cap batch[b].stale)
  IN  ended' = [i \in Ids |->
        IF i \in batch[b].kept /\ ended[i] # "replaced"
        THEN IF i \in batch[b].stale THEN "unlinked" ELSE "applied"
        ELSE IF ended[i] = "applied" /\ log[i].doc \in off THEN "unlinked" ELSE ended[i]]

Write(b, others) ==
  /\ page' = Rewritten(b)
  /\ Applied(b)
  /\ Unlock(b)
  /\ batch' = [others EXCEPT ![b] = Written(b)]
  /\ UNCHANGED <<table, service, tasks, faults, drained>>

\* Faulty variant: no version is compared.
WriteAnyVersion(b) ==
  batch[b].pc = "write" /\ Write(b, Moved({"write"})) /\ UNCHANGED unversioned

\* CreatePage, or UpdatePage with a new text: the version that was read is
\* compared in the statement that raises it.
WritePage(b) ==
  /\ batch[b].pc = "write" /\ ~batch[b].moved
  /\ Write(b, Moved({"write"}))
  /\ UNCHANGED unversioned

\* UpdatePage has compared the version and finds the text unchanged ...
TextUnchanged(b) ==
  /\ batch[b].pc = "write" /\ ~batch[b].moved /\ batch[b].base # NoPage
  /\ batch' = [batch EXCEPT ![b] = [@ EXCEPT !.pc = "meta"]]
  /\ UNCHANGED <<table, service, wiki, tasks, ghosts>>

\* ... so UpdateMeta writes the sources to the page of that id, whatever
\* version it has by now, and leaves the version as it is.
UpdateMeta(b) ==
  /\ batch[b].pc = "meta"
  /\ Write(b, batch)
  /\ unversioned' = TRUE

EndWrite(b, how) ==
  /\ Mark(batch[b].kept, how)
  /\ Unlock(b)
  /\ batch' = [batch EXCEPT ![b] = Written(b)]
  /\ UNCHANGED <<table, service, page, unversioned, tasks, drained>>

\* Another version, another page, or a database error.  withSlugLock hands
\* the error of the update on, and the caller takes it for a cancelled
\* context: nothing is collected as unapplied.
WriteFails(b) ==
  /\ batch[b].pc \in {"write", "meta"}
  /\ IF batch[b].moved THEN UNCHANGED faults ELSE Fault("db")
  /\ EndWrite(b, "unwritten")

\* The model call fails: the page stays as it is, and that is no error.
ModelFails(b) ==
  batch[b].pc = "write" /\ Fault("llm") /\ EndWrite(b, "refused")

\* Every mapped ingest that is not to be retried releases its slot.
Settled(b) == Ingests(batch[b].upd) \ batch[b].failed

\* Faulty variant: a batch follows up only on its own failures.
FollowUpOwn(b) == IF \E i \in batch[b].failed : row'[i] # "absent"
                  THEN Trigger("plain") ELSE UNCHANGED queue

\* scheduleFollowUp: another trigger if any row is left.
FollowUp(b) == IF \E i \in Ids : row'[i] # "absent"
               THEN Trigger("plain") ELSE UNCHANGED queue

\* Faulty variant: a row that is given up keeps its slot.
GivenUpQuietly(I) == {}

\* An ingest that is given up has come to its end and releases its slot.
GivenUp(I) == Ingests(I)

\* The slots are released; trimPendingList deletes all claimed rows but the
\* failed ones; requeueFailedOps counts those, frees them or gives them up;
\* both log an error and go on.
Finish(b) ==
  /\ batch[b].pc = "settle"
  /\ LET held   == batch[b].held
         out    == held \ batch[b].failed
         failed == batch[b].failed \cap InTable
         dead   == {i \in failed : Exhausted(i)}
         Rows(cut, freed) ==
           [i \in Ids |-> IF i \in cut THEN "absent"
                         ELSE IF i \in freed THEN "free" ELSE row[i]]
         Count(I) == [i \in Ids |-> IF i \in I THEN fails[i] + 1 ELSE fails[i]]
         Over(given) == [i \in Ids |->
           IF ended[i] # "open" THEN ended[i]
           ELSE IF i \in held \ Canonical(held) THEN "replaced"
           ELSE IF i \in given THEN "given up" ELSE "open"]
         Requeued == /\ fails' = Count(failed)
                     /\ drained' = DrainRows(Settled(b) \cup GivenUp(dead))
                     /\ ended' = Over(dead)
     IN \/ /\ row' = Rows(out \cup dead, failed \ dead)
           /\ Requeued /\ UNCHANGED faults
        \/ /\ Fault("db") \* of trimPendingList
           /\ row' = Rows(dead, failed \ dead) /\ Requeued
        \/ /\ Fault("db") \* of IncrFailCount
           /\ row' = Rows(out, {}) /\ ended' = Over({})
           /\ drained' = DrainRows(Settled(b)) /\ UNCHANGED fails
  /\ batch' = [batch EXCEPT ![b] = Idle]
  /\ FollowUp(b)
  /\ UNCHANGED <<log, service, wiki, armed, leases>>

-----------------------------------------------------------------------------
(* Faults and time *)

Redeliver(b) == Trigger(batch[b].task) /\ batch' = [batch EXCEPT ![b] = Idle]

\* The process dies: its trigger is delivered again; its claims, its slug
\* lock and its in-flight slot stay until they run out.
Crash(b) ==
  /\ b \in Live /\ Fault("crash")
  /\ Redeliver(b)
  /\ leases' = leases + 1
  /\ UNCHANGED <<table, service, wiki, armed, ended, drained>>

\* A panic after the reduce phase, before or after the slots are released:
\* the deferred calls release the claims.
Panic(b) ==
  /\ batch[b].pc = "settle" /\ Fault("panic")
  /\ Redeliver(b)
  /\ drained' \in {drained, DrainRows(Settled(b))}
  /\ row' = [i \in Ids |-> IF i \in batch[b].held \cap InTable THEN "free" ELSE row[i]]
  /\ UNCHANGED <<log, fails, service, wiki, armed, leases, ended>>

\* The task's hour is over.  asynq retries the trigger while the goroutine
\* runs on with a cancelled context: nothing is applied and nothing collected,
\* the slots are released all the same (that context is detached), and trim,
\* requeue and the release of the claims do not happen.
TimeOut(b) ==
  /\ batch[b].pc \in {"reduce", "write", "meta"} /\ Fault("timeout")
  /\ Redeliver(b)
  /\ Unlock(b)
  /\ drained' = DrainRows(Ingests(batch[b].upd))
  /\ UNCHANGED <<table, service, page, unversioned, armed, leases, ended>>

\* A claim outlives every task: it goes stale when its batch is no more.
ClaimGoesStale(i) ==
  /\ row[i] = "fresh"
  /\ \A b \in Batches : i \notin batch[b].held
  /\ row' = [row EXCEPT ![i] = "stale"]
  /\ UNCHANGED <<log, fails, service, wiki, batch, tasks, ghosts>>

\* The slug lock runs out; under a live holder that is a fault.
LockExpires ==
  /\ lock # NoBatch
  /\ IF batch[lock].locked THEN Fault("ttl") ELSE UNCHANGED faults
  /\ lock' = NoBatch
  /\ UNCHANGED <<table, service, page, unversioned, batch, tasks, ended, drained>>

LeaseExpires ==
  /\ leases > 0
  /\ leases' = leases - 1
  /\ UNCHANGED <<table, service, wiki, batch, queue, armed, ghosts>>

-----------------------------------------------------------------------------
(* The specification *)

Cleanup(d) ==
  \/ ScrubWikiPendingIngest(d) \/ CleanupList(d) \/ CleanupFix(d)
  \/ EnqueueWikiRetract(d) \/ RetractNotQueued(d)

Service(d) ==
  \/ EnqueueWikiIngest(d) \/ PrepareWikiForReparse(d)
  \/ MarkKnowledgeCancelled(d) \/ MarkKnowledgeDeleted(d) \/ Cleanup(d)

Work(b) ==
  \/ ClaimBatch(b) \/ NothingToClaim(b) \/ Map(b)
  \/ SlugBusy(b) \/ ReadLocked(b) \/ ReadUnlocked(b)
  \/ WritePage(b) \/ TextUnchanged(b) \/ UpdateMeta(b)
  \/ WriteFails(b) \/ ModelFails(b)
  \/ Finish(b)

Start(b) == \E k \in Kinds : TurnedAway(b, k) \/ Begin(b, k)

Next ==
  \/ \E d \in Docs : Service(d)
  \/ \E b \in Batches : Start(b) \/ Work(b) \/ Crash(b) \/ Panic(b) \/ TimeOut(b)
  \/ \E i \in Ids : ClaimGoesStale(i)
  \/ LockExpires \/ LeaseExpires

Fairness ==
  /\ \A b \in Batches : WF_vars(Start(b)) /\ WF_vars(Work(b))
  /\ \A d \in Docs : WF_vars(Cleanup(d))
  /\ \A i \in Ids : WF_vars(ClaimGoesStale(i))
  /\ WF_vars(LockExpires) /\ WF_vars(LeaseExpires)

Spec == Init /\ [][Next]_vars /\ Fairness

-----------------------------------------------------------------------------
(* Properties *)

BatchStates ==
  [pc : {"idle", "claim", "map", "reduce", "write", "meta", "settle"},
   task : Kinds \cup {"none"}, keys : SUBSET Docs, held : SUBSET Ids,
   upd : SUBSET Ids, stale : SUBSET Ids, kept : SUBSET Ids, failed : SUBSET Ids,
   base : SUBSET (Docs \cup {NoDoc}), moved : BOOLEAN, locked : BOOLEAN]

Copies == [refs : SUBSET (Docs \cup {NoDoc}), same : BOOLEAN]

TableOK ==
  /\ log \in Seq([doc : Docs, op : {"ingest", "retract"}]) /\ Len(log) <= MaxOps
  /\ row \in [Ids -> {"absent", "free", "fresh", "stale"}]
  /\ fails \in [Ids -> 0..(MaxFail + 1)]
  /\ \A i \in Ids : i > Len(log) => row[i] = "absent"

\* A batch works on rows that were inserted, updates rows it holds, and applies
\* some of its updates.
Consistent(s) ==
  /\ s.held \subseteq 1..Len(log)
  /\ s.upd \cup s.failed \subseteq s.held
  /\ s.kept \cup s.stale \subseteq s.upd
  /\ s.pc \in {"idle", "claim", "map"} => s.upd = {} /\ s.failed = {}
  /\ s.pc \notin {"write", "meta"} => s.kept = {}

BatchOK ==
  /\ batch \in [Batches -> BatchStates]
  /\ \A b \in Batches : Consistent(batch[b])

\* The types of all variables.
TypeOK ==
  /\ TableOK /\ BatchOK
  /\ plan \subseteq Docs /\ gone \subseteq Docs
  /\ copy \in [Docs -> Copies]
  /\ page \in SUBSET (Docs \cup {NoDoc})
  /\ lock \in Batches \cup {NoBatch} /\ unversioned \in BOOLEAN
  /\ leases \in Nat /\ armed \subseteq Ids /\ queue \in [Kinds -> 0..MaxQueued]
  /\ drained \in [Ids -> Nat]

\* No row is worked on by two batches, whatever was released, has gone stale
\* or was enqueued between the two statements of ClaimBatch.  Two rows of one
\* document may be: a scrub removes the claim that protects the document.
ClaimsDisjoint ==
  \A a, b \in Batches : a # b =>
    batch[a].held \cap batch[b].held \cap InTable = {}

\* No row leaves the queue undecided: its update has been applied, refused by
\* the model or found to be moot, it was given up after its retries, scrubbed
\* or replaced by a later row of its document - or the write failed.  Only an
\* error of the database makes a batch take a live document for deleted, or miss
\* the page that a retract is about.
NoneDropped ==
  \A i \in 1..Len(log) : row[i] = "absent" =>
    ended[i] # "open" /\ (ended[i] = "mistaken" => "db" \in faults)

\* A failed write is retried as well, while its document lives: "a slug left
\* unwritten gets retried" (reduce phase of ProcessWikiIngest).
NoneLost ==
  \A i \in 1..Len(log) :
    row[i] = "absent" /\ log[i].doc \notin gone => ended[i] # "unwritten"

\* The slot that a document holds for its wiki row is released when the row
\* has come to its end, and released once unless a worker died, panicked or
\* ran out of time in between; only a row that a later one replaces keeps it.
SlotReleased ==
  \A i \in 1..Len(log) : log[i].op = "ingest" /\ row[i] = "absent" =>
    \/ ended[i] = "replaced"
    \/ drained[i] = 1
    \/ drained[i] > 0 /\ faults # {}

\* The slug lock was lost, and an update that left the text as it was had no
\* version to compare in its last statement.
Unguarded == unversioned /\ faults \cap {"redis", "ttl"} # {}

\* What a batch has written stays on the page, as long as nobody deletes
\* documents and the document itself does not drop the subject: writers do not
\* undo each other while the slug lock holds, nor without it as long as updates
\* change the text and so compare the version they have read.
AppliedStays ==
  gone = {} /\ ~Unguarded =>
    \A i \in 1..Len(log) : ended[i] = "applied" => log[i].doc \in page

AtRest == InTable = {} /\ Live = {}

\* The retract of d has not been carried out: it was not queued, its page was not
\* found or could not be written, the model did not answer, its retries were used
\* up on a busy page, or a late ingest of the document took its place.
RetractFails(d) ==
  \/ del[d] = "unqueued"
  \/ \E i \in Retracts(1..Len(log)) :
       /\ log[i].doc = d
       /\ ended[i] \in {"mistaken", "unwritten", "refused", "given up", "replaced"}

\* When the queue has come to rest after one delete, the page cites the deleted
\* document only if a batch was past its last look at it at that moment, or its
\* retract failed, or writers ran without the lock and without a version: no
\* batch puts it back from a page it had read before.
DeletedIsRetracted ==
  AtRest => \A d \in gone :
    gone = {d} /\ del[d] \in {"done", "doneKnown", "unqueued"} /\ d \in page
      => d \in late \/ RetractFails(d) \/ Unguarded

\* Without faults every row is worked off for good.
Drains == <>[](InTable = {})

=============================================================================
