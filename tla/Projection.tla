----------------------------- MODULE Projection -----------------------------
(***************************************************************************)
(* One read-model document and the relational row it is projected from.    *)
(*                                                                         *)
(* The write side commits a row together with one outbox event per write.  *)
(* Consumers (the workers of every pod of the group) apply those events to *)
(* the document at least once, in log order for one aggregate but with     *)
(* redeliveries and with zombie consumers of a past generation.  Revision  *)
(* watermarks, tombstones, the parking ledger and the reconciliation sweep *)
(* are what the document's correctness rests on; all four are here, each   *)
(* store access being a step of its own.                                   *)
(*                                                                         *)
(* The view is entity-rooted, has own children and no embeds: the payload- *)
(* direct path of projectOwnViews.                                         *)
(***************************************************************************)
EXTENDS Integers, Sequences

CONSTANTS
    Workers,            \* consumer goroutines, of any pod and any generation
    Children,           \* ids of the aggregate's own child rows
    Services,           \* the views, configurations and bounds considered
    SerialWrites,       \* no write commits inside another write's transaction
    AbortAfterWrite,    \* a worker may stop between upsert and check
    LossyLedger,        \* recording a parked event may fail
    MaxEvents,          \* bound on committed writes, in any service
    MaxLives,           \* bound on incarnations of the id (deterministic ids)
    MaxAborts,          \* bound on attempts given up before their outcome
    MaxParks            \* bound on events that exhaust their retry budget,
                        \* in any service

ASSUME ServiceAssumption ==
    Services \subseteq
        [deleteOnArchive : BOOLEAN, childArchivable : BOOLEAN, reconcile : BOOLEAN,
         workers : SUBSET Workers, events : 0..MaxEvents, parks : 0..MaxParks]

ASSUME FlagAssumption ==
    /\ SerialWrites \in BOOLEAN
    /\ AbortAfterWrite \in BOOLEAN
    /\ LossyLedger \in BOOLEAN

ASSUME BoundAssumption ==
    /\ MaxEvents \in Nat
    /\ MaxLives \in Nat
    /\ MaxAborts \in Nat
    /\ MaxParks \in Nat

VARIABLES
    service,  \* fixed when the service is built: the view's DeleteOnArchive,
              \* whether its child schema has an ArchivedAt column,
              \* mongo.reconcile.enabled and the worker goroutines; with it,
              \* the bounds on this service's writes and parked events
    row,      \* the relational root row and its children
    del,      \* the revision a hard delete in progress has read, 0 if none
    log,      \* the outbox, in commit order
    doc,      \* the document in the view's active collection
    tomb,     \* the tombstone record of the id
    fin,      \* events 1..fin have reported Done at least once
    ledger,   \* the pending projection_failures row: an event, 0 if none
    work,     \* what every worker is doing
    rec,      \* what the reconciliation sweep is doing
    aborts,
    parks

vars == <<service, row, del, log, doc, tomb, fin, ledger, work, rec, aborts, parks>>

-----------------------------------------------------------------------------
(* Data.  A value is the revision of the write that produced it.           *)

Verbs == {"INSERTED", "UPDATED", "ARCHIVED", "UNARCHIVED", "DELETED"}
ChildOps == {"noop", "put", "archive", "unarchive", "delete"}

NoKid == [val |-> 0, arch |-> 0]
NoKids == [c \in Children |-> NoKid]
NoOps == [c \in Children |-> "noop"]
NoRow == [live |-> FALSE, life |-> 0, rev |-> 0, arch |-> 0, kids |-> NoKids]

\* Revision 0 stands for the missing document, record or watermark: every
\* committed row has a revision of at least 1.
NoDoc == [rev |-> 0, life |-> 0, data |-> 0, born |-> 0, arch |-> FALSE,
          kids |-> NoKids]
NoTomb == [rev |-> 0, born |-> 0]

Idle == [pc |-> "idle", ev |-> 0, replay |-> FALSE, tomb |-> NoTomb]
IdleSweep == [pc |-> "idle", rev |-> 0, row |-> NoRow]

Larger(a, b) == IF a < b THEN b ELSE a

\* The children after the ops of one write at revision r: an insert or update
\* replaces the element, archive and unarchive only touch an existing one.
ApplyOps(kids, ops, r) ==
    [c \in Children |->
        CASE ops[c] = "put" -> [val |-> r, arch |-> 0]
          [] ops[c] = "archive" /\ kids[c].val # 0 -> [kids[c] EXCEPT !.arch = r]
          [] ops[c] = "unarchive" /\ kids[c].val # 0 -> [kids[c] EXCEPT !.arch = 0]
          [] ops[c] = "delete" -> NoKid
          [] OTHER -> kids[c]]

\* What the relational database does with an event's document-changing verb.
Event(type, r, ops) == [type |-> type, life |-> row.life, rev |-> r, ops |-> ops]

\* The archive cascade stamps the active children, the unarchive cascade
\* clears the children whose stamp is the root's own.
Cascade(verb) ==
    [c \in Children |->
        IF ~service.childArchivable \/ row.kids[c].val = 0 THEN "noop"
        ELSE IF verb = "ARCHIVED" /\ row.kids[c].arch = 0 THEN "archive"
        ELSE IF verb = "UNARCHIVED" /\ row.kids[c].arch = row.arch THEN "unarchive"
        ELSE "noop"]

-----------------------------------------------------------------------------
(* The document store: each operator is one atomic server-side pipeline.   *)

\* Variants with a stage of the pipeline left unguarded: the children, the
\* scalars, the whole document.
MutProjectChildren(d, e) ==
    [(IF d.rev > e.rev THEN d
      ELSE [d EXCEPT !.rev = e.rev, !.life = e.life, !.data = e.rev,
                     !.born = IF e.type = "INSERTED" THEN e.life ELSE @,
                     !.arch = IF e.type = "UPDATED" THEN @ ELSE e.type = "ARCHIVED"])
     EXCEPT !.kids = ApplyOps(@, e.ops, e.rev)]

MutProjectScalars(d, e) ==
    [d EXCEPT !.rev = Larger(@, e.rev), !.life = e.life, !.data = e.rev,
              !.born = IF e.type = "INSERTED" THEN e.life ELSE @,
              !.arch = IF e.type = "UPDATED" THEN @ ELSE e.type = "ARCHIVED",
              !.kids = ApplyOps(@, e.ops, e.rev)]

MutProjectUnguarded(d, e) == [MutProjectScalars(d, e) EXCEPT !.rev = e.rev]

\* buildProjectionStages: child edits and scalars apply at older or equal,
\* the watermark only advances.  created_at rides INSERTED alone, archived_at
\* rides INSERTED, ARCHIVED and UNARCHIVED.
Project(d, e) ==
    IF d.rev > e.rev THEN d
    ELSE [rev  |-> e.rev,
          life |-> e.life,
          data |-> e.rev,
          born |-> IF e.type = "INSERTED" THEN e.life ELSE d.born,
          arch |-> IF e.type = "UPDATED" THEN d.arch ELSE e.type = "ARCHIVED",
          kids |-> ApplyOps(d.kids, e.ops, e.rev)]

\* Variants: a repair that overwrites whatever is stored, and one whose
\* children stage is unguarded.
MutConsultOverwrites(d, r) ==
    [rev |-> r.rev, life |-> r.life, data |-> r.rev, born |-> r.life,
     arch |-> r.arch # 0, kids |-> r.kids]

MutConsultChildren(d, r) ==
    IF d.rev <= r.rev THEN MutConsultOverwrites(d, r) ELSE [d EXCEPT !.kids = r.kids]

\* consultGuardedStages on a composed row: everything at newer, only missing
\* fields at equal, nothing at older.
ConsultUpsert(d, r) ==
    IF d.rev < r.rev
    THEN [rev |-> r.rev, life |-> r.life, data |-> r.rev, born |-> r.life,
          arch |-> r.arch # 0, kids |-> r.kids]
    ELSE IF d.rev = r.rev /\ d.born = 0 THEN [d EXCEPT !.born = r.life]
    ELSE d

\* Variant: an unconditional delete.
MutDeleteUnguarded(d, r, born) == NoDoc

\* DeleteGuarded: the stored revision is not newer and the document is of the
\* same incarnation, or does not say which.
DeleteGuarded(d, r, born) ==
    IF d.rev <= r /\ d.born \in {0, born} THEN NoDoc ELSE d

\* stampTombstone: a guarded set with the revision as its watermark.
StampedTomb(t, e) ==
    IF t.rev > e.rev THEN t ELSE [rev |-> e.rev, born |-> e.life]

ShouldDelete(e) ==
    e.type = "DELETED" \/ (e.type = "ARCHIVED" /\ service.deleteOnArchive)

-----------------------------------------------------------------------------
(* The write side.                                                         *)

Commit(r, e) ==
    /\ row' = r
    /\ log' = Append(log, e)
    /\ UNCHANGED <<service, doc, tomb, fin, ledger, work, rec, aborts, parks>>

MayWrite == Len(log) < service.events /\ (SerialWrites => del = 0)

Insert ==
    /\ MayWrite
    /\ ~row.live
    /\ row.life < MaxLives
    /\ \E born \in SUBSET Children :
         LET ops == [c \in Children |-> IF c \in born THEN "put" ELSE "noop"]
             life == row.life + 1
         IN  Commit([live |-> TRUE, life |-> life, rev |-> 1, arch |-> 0,
                     kids |-> ApplyOps(NoKids, ops, 1)],
                    [type |-> "INSERTED", life |-> life, rev |-> 1, ops |-> ops])
    /\ UNCHANGED del

\* One update may touch one child: put an absent or active one, or remove an
\* active one, which archives it when its schema is archivable.
UpdateOps ==
    {NoOps} \cup
    {[NoOps EXCEPT ![c] = "put"] : c \in {k \in Children : row.kids[k].arch = 0}} \cup
    {[NoOps EXCEPT ![c] = IF service.childArchivable THEN "archive" ELSE "delete"] :
        c \in {k \in Children : row.kids[k].val # 0 /\ row.kids[k].arch = 0}}

Write(verb, arch, ops) ==
    LET r == row.rev + 1
    IN  /\ Commit([row EXCEPT !.rev = r, !.arch = arch,
                              !.kids = ApplyOps(@, ops, r)],
                  Event(verb, r, ops))
        /\ UNCHANGED del

Update ==
    /\ MayWrite
    /\ row.live /\ row.arch = 0
    /\ \E ops \in UpdateOps : Write("UPDATED", 0, ops)

Archive ==
    /\ MayWrite
    /\ row.live /\ row.arch = 0
    /\ Write("ARCHIVED", row.rev + 1, Cascade("ARCHIVED"))

Unarchive ==
    /\ MayWrite
    /\ row.live /\ row.arch # 0
    /\ Write("UNARCHIVED", 0, Cascade("UNARCHIVED"))

\* hardDelete reads the row's last revision without locking the row, which may
\* have been archived since the aggregate was loaded and found active ...
DeleteRead ==
    /\ MayWrite
    /\ del = 0
    /\ row.live
    /\ del' = row.rev
    /\ UNCHANGED <<service, row, log, doc, tomb, fin, ledger, work, rec, aborts, parks>>

\* ... and then deletes it whatever its revision has become.
DeleteCommit ==
    /\ Len(log) < service.events
    /\ del # 0
    /\ row.live
    /\ Commit([NoRow EXCEPT !.life = row.life], Event("DELETED", del, NoOps))
    /\ del' = 0

-----------------------------------------------------------------------------
(* The consumers.                                                          *)

Ev(w) == log[work[w].ev]

Begin(w, i, replay) ==
    /\ w \in service.workers
    /\ work[w].pc = "idle"
    /\ work' = [work EXCEPT ![w] =
                  [pc |-> IF ShouldDelete(log[i]) THEN "stamp" ELSE "project",
                   ev |-> i, replay |-> replay, tomb |-> NoTomb]]
    /\ UNCHANGED <<service, row, del, log, doc, tomb, fin, ledger, rec, aborts, parks>>

\* The transport hands over an event whose predecessors of the same aggregate
\* have all been reported Done: for the first time, or again.
Deliver(w) ==
    \E i \in 1..Len(log) : i <= fin + 1 /\ Begin(w, i, FALSE)

\* The parked-event driver replays the stored payload.
Replay(w) == ledger # 0 /\ Begin(w, ledger, TRUE)

Goto(w, pc) == work' = [work EXCEPT ![w].pc = pc]

\* Variants: completions are counted instead of named; Done is forgotten.
MutSucceedCounts(w) ==
    IF work[w].replay
    THEN Goto(w, "resolve") /\ UNCHANGED fin
    ELSE work' = [work EXCEPT ![w] = Idle] /\ fin' = fin + 1

MutSucceedSilent(w) ==
    IF work[w].replay
    THEN Goto(w, "resolve") /\ UNCHANGED fin
    ELSE work' = [work EXCEPT ![w] = Idle] /\ UNCHANGED fin

\* Done moves the transport on; a replay still has its ledger row to resolve.
Succeed(w) ==
    IF work[w].replay
    THEN Goto(w, "resolve") /\ UNCHANGED fin
    ELSE work' = [work EXCEPT ![w] = Idle] /\ fin' = Larger(fin, work[w].ev)

ApplyProjection(w) ==
    /\ work[w].pc = "project"
    /\ doc' = Project(doc, Ev(w))
    /\ Goto(w, "check")
    /\ UNCHANGED <<service, row, del, log, tomb, fin, ledger, rec, aborts, parks>>

\* Variant: a tombstone at the write's own revision is not taken as covering.
MutCheckStrict(w) ==
    /\ work[w].pc = "check"
    /\ IF tomb.rev = 0 \/ tomb.rev <= Ev(w).rev
       THEN Succeed(w)
       ELSE /\ work' = [work EXCEPT ![w].pc = "purge", ![w].tomb = tomb]
            /\ UNCHANGED fin
    /\ UNCHANGED <<service, row, del, log, doc, tomb, ledger, rec, aborts, parks>>

\* checkTombstone, its read ...
CheckTombstone(w) ==
    /\ work[w].pc = "check"
    /\ IF tomb.rev = 0 \/ tomb.rev < Ev(w).rev
       THEN Succeed(w)
       ELSE /\ work' = [work EXCEPT ![w].pc = "purge", ![w].tomb = tomb]
            /\ UNCHANGED fin
    /\ UNCHANGED <<service, row, del, log, doc, tomb, ledger, rec, aborts, parks>>

\* ... and its delete, at the tombstone it has read.
PurgeZombie(w) ==
    /\ work[w].pc = "purge"
    /\ doc' = DeleteGuarded(doc, work[w].tomb.rev, work[w].tomb.born)
    /\ Succeed(w)
    /\ UNCHANGED <<service, row, del, log, tomb, ledger, rec, aborts, parks>>

StampTombstone(w) ==
    /\ work[w].pc = "stamp"
    /\ tomb' = StampedTomb(tomb, Ev(w))
    /\ Goto(w, "remove")
    /\ UNCHANGED <<service, row, del, log, doc, fin, ledger, rec, aborts, parks>>

RemoveDocument(w) ==
    /\ work[w].pc = "remove"
    /\ doc' = DeleteGuarded(doc, Ev(w).rev, Ev(w).life)
    /\ Succeed(w)
    /\ UNCHANGED <<service, row, del, log, tomb, ledger, rec, aborts, parks>>

\* ResolveProjectionFailure works by natural key: whatever row is pending.
Resolve(w) ==
    /\ work[w].pc = "resolve"
    /\ ledger' = 0
    /\ work' = [work EXCEPT ![w] = Idle]
    /\ UNCHANGED <<service, row, del, log, doc, tomb, fin, rec, aborts, parks>>

\* The attempt ends without an outcome: the pod stops, the consumer hands the
\* event back, or a replay fails and leaves its row pending.
Abandon(w) ==
    /\ work[w].pc # "idle"
    /\ work[w].pc \in {"check", "purge"} => AbortAfterWrite
    /\ aborts < MaxAborts
    /\ aborts' = aborts + 1
    /\ work' = [work EXCEPT ![w] = Idle]
    /\ UNCHANGED <<service, row, del, log, doc, tomb, fin, ledger, rec, parks>>

\* The retry budget is exhausted: RecordProjectionFailure overwrites the
\* pending row of the aggregate, or fails, and Done advances the stream.
Park(w) ==
    /\ work[w].pc \notin {"idle", "resolve"}
    /\ ~work[w].replay
    /\ parks < service.parks
    /\ parks' = parks + 1
    /\ ledger' \in {work[w].ev} \cup (IF LossyLedger THEN {ledger} ELSE {})
    /\ fin' = Larger(fin, work[w].ev)
    /\ work' = [work EXCEPT ![w] = Idle]
    /\ UNCHANGED <<service, row, del, log, doc, tomb, rec, aborts>>

-----------------------------------------------------------------------------
(* The reconciliation sweep.                                               *)

Sweep(s) ==
    /\ rec' = s
    /\ UNCHANGED <<service, row, del, log, tomb, fin, ledger, work, aborts, parks>>

\* Variant: a missing document is not a candidate.
MutBehindPresent(r) == doc.rev # 0 /\ doc.rev < r

Behind(r) == doc.rev < r

\* reconcilePage reads the source revision ...
ReconcilePage ==
    /\ service.reconcile
    /\ rec.pc = "idle"
    /\ row.live
    /\ Sweep([IdleSweep EXCEPT !.pc = "compare", !.rev = row.rev])
    /\ UNCHANGED doc

\* ... and parityCandidates compares the document with it, twice: the second
\* comparison is after the grace period and against the same revision.
ReconcileCompare ==
    /\ rec.pc \in {"compare", "recheck"}
    /\ Sweep(IF Behind(rec.rev)
             THEN [rec EXCEPT !.pc = IF @ = "compare" THEN "recheck" ELSE "compose"]
             ELSE IdleSweep)
    /\ UNCHANGED doc

\* ComposeBatch reads the root row first ...
ReconcileCompose ==
    /\ rec.pc = "compose"
    /\ Sweep(IF row.live /\ ~(service.deleteOnArchive /\ row.arch # 0)
             THEN [rec EXCEPT !.pc = "kids", !.row = row]
             ELSE IdleSweep)
    /\ UNCHANGED doc

\* ... and its children after it, from whatever has been committed by then.
ReconcileKids ==
    /\ rec.pc = "kids"
    /\ Sweep([rec EXCEPT !.pc = "write", !.row.kids = row.kids])
    /\ UNCHANGED doc

\* recomposeInto writes the composed document; no tombstone is consulted.
ReconcileWrite ==
    /\ rec.pc = "write"
    /\ doc' = ConsultUpsert(doc, rec.row)
    /\ Sweep(IdleSweep)

-----------------------------------------------------------------------------

Init ==
    /\ service \in Services
    /\ row = NoRow
    /\ del = 0
    /\ log = <<>>
    /\ doc = NoDoc
    /\ tomb = NoTomb
    /\ fin = 0
    /\ ledger = 0
    /\ work = [w \in Workers |-> Idle]
    /\ rec = IdleSweep
    /\ aborts = 0
    /\ parks = 0

Source == Insert \/ Update \/ Archive \/ Unarchive \/ DeleteRead \/ DeleteCommit

Step(w) ==
    \/ ApplyProjection(w) \/ CheckTombstone(w) \/ PurgeZombie(w)
    \/ StampTombstone(w) \/ RemoveDocument(w) \/ Resolve(w)

Consumer(w) == Deliver(w) \/ Replay(w) \/ Step(w) \/ Abandon(w) \/ Park(w)

Reconciler ==
    \/ ReconcilePage \/ ReconcileCompare \/ ReconcileCompose
    \/ ReconcileKids \/ ReconcileWrite

Next == Source \/ (\E w \in Workers : Consumer(w)) \/ Reconciler

Spec == Init /\ [][Next]_vars

\* Scheduling: a worker that has an event goes on with it, a worker that keeps
\* becoming free takes the next event of its queue, and the ledger driver and
\* the sweep are tickers.  Redelivery, faults and writes are never forced.
DeliverNext(w) == fin < Len(log) /\ Begin(w, fin + 1, FALSE)

Fairness ==
    /\ \A w \in Workers : WF_vars(Step(w))
    /\ SF_vars(\E w \in Workers : DeliverNext(w))
    /\ WF_vars(Reconciler)

FairSpec == Spec /\ Fairness

-----------------------------------------------------------------------------
(* Properties.                                                             *)

KidType == [val : 0..MaxEvents, arch : 0..MaxEvents]
RowType == [live : BOOLEAN, life : 0..MaxLives, rev : 0..MaxEvents,
            arch : 0..MaxEvents, kids : [Children -> KidType]]
EventType == [type : Verbs, life : 1..MaxLives, rev : 1..MaxEvents,
              ops : [Children -> ChildOps]]
DocType == [rev : 0..MaxEvents, life : 0..MaxLives, data : 0..MaxEvents,
            born : 0..MaxLives, arch : BOOLEAN, kids : [Children -> KidType]]
TombType == [rev : 0..MaxEvents, born : 0..MaxLives]
WorkType ==
    [pc : {"idle", "project", "check", "purge", "stamp", "remove", "resolve"},
     ev : 0..Len(log), replay : BOOLEAN, tomb : TombType]
SweepType ==
    [pc : {"idle", "compare", "recheck", "compose", "kids", "write"},
     rev : 0..MaxEvents, row : RowType]

\* Every variable has its type; no completion runs ahead of the log, a busy
\* worker holds a logged event, and so does the ledger (process, Park).
TypeOK ==
    /\ service \in Services
    /\ row \in RowType
    /\ del \in 0..MaxEvents
    /\ log \in Seq(EventType) /\ Len(log) <= MaxEvents
    /\ doc \in DocType
    /\ tomb \in TombType
    /\ fin \in 0..Len(log)
    /\ ledger \in 0..Len(log)
    /\ work \in [Workers -> WorkType]
    /\ \A w \in Workers : (work[w].pc = "idle") <=> (work[w].ev = 0)
    /\ rec \in SweepType
    /\ aborts \in 0..MaxAborts
    /\ parks \in 0..MaxParks

\* The document a fresh composition of the row would yield.
Expected == row.live /\ ~(service.deleteOnArchive /\ row.arch # 0)

ScalarsMatch ==
    IF Expected
    THEN /\ doc.rev = row.rev /\ doc.data = row.rev /\ doc.life = row.life
         /\ doc.arch = (row.arch # 0)
    ELSE doc.rev = 0

Quiescent ==
    /\ del = 0 /\ fin = Len(log) /\ ledger = 0 /\ rec.pc = "idle"
    /\ \A w \in Workers : work[w].pc = "idle"

Converged ==
    /\ ScalarsMatch
    /\ Expected /\ ~service.deleteOnArchive =>
         doc.kids = row.kids /\ doc.born = row.life

\* Only the event stream writes the document: no sweep, and nothing is parked.
Streamed == ~service.reconcile /\ service.parks = 0

\* Convergence: when every event has been processed and nobody is at work, the
\* document is the row, children and birth instant included, whatever was
\* redelivered or retried on the way (consume: reprocessing converges).  Under
\* DeleteOnArchive the UNARCHIVED event recreates the document from its own
\* payload, which carries no birth instant and only the children it touches.
Converges == Streamed /\ Quiescent => Converged

\* The same with the sweep, while the row exists and no event was parked: a
\* sweep that repairs concurrently, from torn reads of root and children, does
\* not keep a live document from converging (ReconcileView is safe with live
\* projection).
RepairConverges ==
    service.reconcile /\ row.live /\ parks = 0 /\ Quiescent => Converged

\* With the sweep too, a document whose row is gone is gone when everything is
\* processed and nobody is at work (every document-creating upsert re-checks
\* the tombstone).
DeletedIsGone == Quiescent /\ parks = 0 /\ ~row.live => doc.rev = 0

\* A document that its tombstone covers is on its way out: the worker that
\* wrote it has yet to check, or a delete event has yet to remove it
\* (checkTombstone, applyDelete: one of the two sides always fires).
ZombieCovered ==
    Streamed /\ doc.rev > 0 /\ tomb.rev >= doc.rev =>
        \/ \E w \in Workers :
             \/ work[w].pc = "check" /\ Ev(w).rev <= tomb.rev
             \/ work[w].pc = "purge" /\ work[w].tomb.rev >= doc.rev
             \/ work[w].pc = "remove" /\ Ev(w).rev >= doc.rev
        \/ \E i \in (fin + 1)..Len(log) :
             ShouldDelete(log[i]) /\ log[i].rev >= doc.rev

\* The scalars are those of the committed write the watermark names, never a
\* mixture of two writes and never ahead of the row (guardedSetStage).
DocIsCommitted ==
    doc.rev > 0 =>
        /\ doc.data = doc.rev
        /\ \E i \in 1..Len(log) :
             /\ log[i].rev = doc.rev /\ log[i].life = doc.life
             /\ log[i].type # "DELETED"
        /\ row.live => doc.rev <= row.rev

\* No step takes the stored document back to an older revision; it can only
\* be removed (guardedSetStage, scopeStage: the watermark advances).
WatermarkMonotone ==
    [][doc.rev > 0 /\ doc'.rev > 0 => doc'.rev >= doc.rev]_vars

Removal(r) == \E i \in 1..Len(log) : ShouldDelete(log[i]) /\ log[i].rev >= r

\* A document disappears only when a removal of its own or a later revision has
\* been committed: neither a late delete nor a zombie holding the tombstone of
\* an earlier archive takes away what a newer write created (DeleteGuarded,
\* checkTombstone, with every redelivery, replay and repair).
RemovalIsDue == [][doc.rev > 0 /\ doc'.rev = 0 => Removal(doc.rev)]_vars

\* The document catches up with the row again and again, however often events
\* are redelivered and whatever finite number of attempts fail.
EventuallyConverges == []<>(Streamed => ScalarsMatch)

\* A live row's document is repaired by the sweep even when the failed event
\* was never recorded in the ledger (ReconcileView).
SweepRepairs == []<>(service.reconcile /\ Expected => doc.rev = row.rev)
=============================================================================
