-------------------------- MODULE ProjectionProofs --------------------------
(***************************************************************************)
(* Proofs about Projection, for any number of workers, children, events,   *)
(* incarnations, aborted attempts and parked events.                       *)
(***************************************************************************)
EXTENDS Projection, SequenceTheorems, TLAPS

-----------------------------------------------------------------------------
(* Types.  A row's revision counts its committed writes, so it is bounded  *)
(* by the log; a live row has been inserted.                               *)

RowInv ==
    /\ row.rev <= Len(log)
    /\ row.live => row.rev >= 1 /\ row.life >= 1

TypeInv == TypeOK /\ RowInv

Revs == 0..MaxEvents
Kids == [Children -> KidType]

\* The ops of one write leave well-formed children.
LEMMA ApplyOpsType ==
    ASSUME NEW kids \in Kids, NEW ops \in [Children -> ChildOps], NEW r \in Revs
    PROVE  ApplyOps(kids, ops, r) \in Kids
<1> USE BoundAssumption
<1>1. ASSUME NEW c \in Children
      PROVE  ApplyOps(kids, ops, r)[c] \in KidType
  <2>1. kids[c] \in KidType
    BY DEF Kids
  <2>2. /\ [val |-> r, arch |-> 0] \in KidType
        /\ [kids[c] EXCEPT !.arch = r] \in KidType
        /\ [kids[c] EXCEPT !.arch = 0] \in KidType
        /\ NoKid \in KidType
    BY <2>1 DEF KidType, Revs, NoKid
  <2>3. QED
    BY <2>1, <2>2 DEF ApplyOps
<1>2. QED
  BY <1>1 DEF ApplyOps, Kids

\* Nothing is a well-formed row, document, tombstone and attempt.
LEMMA EmptyTypes ==
    /\ NoKids \in Kids
    /\ NoRow \in RowType
    /\ NoDoc \in DocType
    /\ NoTomb \in TombType
    /\ NoOps \in [Children -> ChildOps]
    /\ IdleSweep \in SweepType
<1> USE BoundAssumption
<1>1. NoKids \in Kids /\ NoOps \in [Children -> ChildOps]
  BY DEF NoKids, NoKid, Kids, KidType, NoOps, ChildOps
<1>2. NoRow \in RowType
  BY <1>1 DEF NoRow, RowType, Kids
<1>3. NoDoc \in DocType /\ NoTomb \in TombType
  BY <1>1 DEF NoDoc, DocType, NoTomb, TombType, Kids
<1>4. IdleSweep \in SweepType
  BY <1>2 DEF IdleSweep, SweepType
<1>5. QED
  BY <1>1, <1>2, <1>3, <1>4

\* The pipelines of the document store keep the document's type.
LEMMA StoreTypes ==
    ASSUME NEW d \in DocType, NEW e \in EventType, NEW r \in RowType, NEW t \in TombType,
           NEW n, NEW b
    PROVE  /\ Project(d, e) \in DocType
           /\ ConsultUpsert(d, r) \in DocType
           /\ DeleteGuarded(d, n, b) \in DocType
           /\ StampedTomb(t, e) \in TombType
<1> USE BoundAssumption
<1>1. Project(d, e) \in DocType
  <2>1. ApplyOps(d.kids, e.ops, e.rev) \in Kids
    BY ApplyOpsType DEF DocType, EventType, Kids, Revs
  <2>2. (IF e.type = "UPDATED" THEN d.arch ELSE e.type = "ARCHIVED") \in BOOLEAN
    BY Zenon DEF DocType
  <2>3. (IF e.type = "INSERTED" THEN e.life ELSE d.born) \in 0..MaxLives
    BY DEF DocType, EventType
  <2>4. e.rev \in Revs /\ e.life \in 0..MaxLives
    BY DEF EventType, Revs
  <2> HIDE BoundAssumption
  <2>5. QED
    BY <2>1, <2>2, <2>3, <2>4 DEF Project, DocType, Kids, Revs
<1>2. ConsultUpsert(d, r) \in DocType
  BY DEF ConsultUpsert, DocType, RowType
<1>3. DeleteGuarded(d, n, b) \in DocType
  BY EmptyTypes DEF DeleteGuarded
<1>4. StampedTomb(t, e) \in TombType
  BY DEF StampedTomb, TombType, EventType
<1>5. QED
  BY <1>1, <1>2, <1>3, <1>4

\* A committed event is logged at the end; what was logged stays where it was.
LEMMA Appended ==
    ASSUME TypeInv, NEW e \in EventType, Len(log) < MaxEvents, log' = Append(log, e)
    PROVE  /\ log' \in Seq(EventType)
           /\ Len(log') = Len(log) + 1
           /\ Len(log') <= MaxEvents
           /\ log'[Len(log')] = e
           /\ \A i \in 1..Len(log) : log'[i] = log[i]
BY BoundAssumption, AppendProperties, LenProperties DEF TypeInv, TypeOK

\* The part of the type invariant that a commit leaves alone except for the
\* growth of the log.
LEMMA CommitTypes ==
    ASSUME TypeInv, NEW r \in RowType, NEW e \in EventType,
           Len(log) < MaxEvents, Commit(r, e), del' \in Revs,
           r.rev <= Len(log) + 1, r.live => r.rev >= 1 /\ r.life >= 1
    PROVE  TypeInv'
<1>1. /\ log' \in Seq(EventType)
      /\ Len(log') = Len(log) + 1
      /\ Len(log') <= MaxEvents
  BY Appended DEF Commit
<1>2. 0..Len(log) \subseteq 0..Len(log')
  BY <1>1, LenProperties DEF TypeInv, TypeOK
<1>3. fin' \in 0..Len(log') /\ ledger' \in 0..Len(log')
  BY <1>2 DEF TypeInv, TypeOK, Commit
<1>4. work' \in [Workers -> WorkType']
  BY <1>2 DEF TypeInv, TypeOK, Commit, WorkType
<1>5. RowInv'
  BY <1>1 DEF Commit, RowInv
<1>6. QED
  BY <1>1, <1>3, <1>4, <1>5 DEF TypeInv, TypeOK, Commit, Revs

\* What a committing write of a live row looks like: the next revision of the
\* row, or the first of a new incarnation, with an event that says the same.
Records(r, e) ==
    /\ Commit(r, e) /\ del' = del /\ Len(log) < MaxEvents
    /\ r.live /\ r.life >= 1 /\ r.rev >= 1 /\ r.rev <= Len(log) + 1
    /\ e.rev = r.rev /\ e.life = r.life /\ e.type # "DELETED"
    /\ \/ row.live /\ r.rev = row.rev + 1
       \/ row.life < MaxLives

\* A service's own bounds are within the bounds of all.
LEMMA ServiceBounds ==
    ASSUME TypeInv
    PROVE  /\ Len(log) < service.events => Len(log) < MaxEvents
           /\ service.parks \in Nat /\ service.parks <= MaxParks
<1>1. service.events \in 0..MaxEvents /\ service.parks \in 0..MaxParks
  BY ServiceAssumption DEF TypeInv, TypeOK
<1>2. Len(log) \in Nat
  BY LenProperties DEF TypeInv, TypeOK
<1>3. QED
  BY <1>1, <1>2, BoundAssumption

\* Every write but a delete has that shape.
LEMMA SourceShape ==
    ASSUME TypeInv, Insert \/ Update \/ Archive \/ Unarchive
    PROVE  \E r \in RowType, e \in EventType : Records(r, e)
<1> USE BoundAssumption
<1>0. /\ row \in RowType /\ row.kids \in Kids
      /\ row.rev \in Revs /\ row.life \in 0..MaxLives
      /\ Len(log) \in Nat
  BY LenProperties DEF TypeInv, TypeOK, RowType, Kids, Revs
<1>w. ASSUME NEW verb \in Verbs \ {"DELETED"}, NEW arch \in Revs,
             NEW ops \in [Children -> ChildOps],
             Len(log) < MaxEvents, row.live, Write(verb, arch, ops)
      PROVE  \E r \in RowType, e \in EventType : Records(r, e)
  <2> DEFINE n == row.rev + 1
             r == [row EXCEPT !.rev = n, !.arch = arch, !.kids = ApplyOps(@, ops, n)]
             e == Event(verb, n, ops)
  <2>1. n \in 1..MaxEvents /\ n \in Revs /\ n <= Len(log) + 1 /\ n = row.rev + 1
    BY <1>0, <1>w DEF TypeInv, RowInv, Revs
  <2>2. ApplyOps(row.kids, ops, n) \in Kids
    BY <1>0, <2>1, ApplyOpsType
  <2>3. r \in RowType /\ r.rev = n /\ r.life = row.life /\ r.live
    BY Zenon, <1>0, <1>w, <2>1, <2>2 DEF RowType, Kids, Revs
  <2>4. e \in EventType /\ e.rev = n /\ e.life = row.life /\ e.type # "DELETED"
    BY <1>0, <1>w, <2>1 DEF Event, EventType, TypeInv, RowInv
  <2>5. Commit(r, e) /\ del' = del /\ row.life >= 1
    BY <1>w DEF Write, TypeInv, RowInv
  <2> HIDE DEF n, r, e
  <2>6. Records(r, e)
    BY <1>w, <2>1, <2>3, <2>4, <2>5 DEF Records
  <2>7. QED
    BY <2>3, <2>4, <2>6
<1>1. CASE Insert
  <2>1. PICK born \in SUBSET Children :
          LET ops == [c \in Children |-> IF c \in born THEN "put" ELSE "noop"]
              life == row.life + 1
          IN  Commit([live |-> TRUE, life |-> life, rev |-> 1, arch |-> 0,
                      kids |-> ApplyOps(NoKids, ops, 1)],
                     [type |-> "INSERTED", life |-> life, rev |-> 1, ops |-> ops])
    BY Zenon, <1>1 DEF Insert
  <2> DEFINE ops == [c \in Children |-> IF c \in born THEN "put" ELSE "noop"]
             life == row.life + 1
             r == [live |-> TRUE, life |-> life, rev |-> 1, arch |-> 0,
                   kids |-> ApplyOps(NoKids, ops, 1)]
             e == [type |-> "INSERTED", life |-> life, rev |-> 1, ops |-> ops]
  <2>2. Len(log) < MaxEvents /\ row.life < MaxLives /\ del' = del
    BY <1>1, ServiceBounds DEF Insert, MayWrite
  <2>3. life \in 1..MaxLives /\ 1 \in Revs
    BY <1>0, <2>2 DEF Revs
  <2>4. ops \in [Children -> ChildOps]
    BY DEF ChildOps
  <2>5. ApplyOps(NoKids, ops, 1) \in Kids
    BY <2>3, <2>4, ApplyOpsType, EmptyTypes
  <2>6. r \in RowType /\ r.rev = 1 /\ r.life = life /\ r.live
    BY <2>3, <2>5 DEF RowType, Kids, Revs
  <2>7. e \in EventType /\ e.rev = 1 /\ e.life = life /\ e.type # "DELETED"
    BY <1>0, <2>2, <2>3, <2>4 DEF EventType, Verbs
  <2>8. Commit(r, e)
    BY <2>1
  <2>9. life >= 1 /\ 1 <= Len(log) + 1
    BY <1>0, <2>3
  <2> HIDE DEF life, r, e
  <2>10. Records(r, e)
    BY <2>2, <2>6, <2>7, <2>8, <2>9 DEF Records
  <2>11. QED
    BY <2>6, <2>7, <2>10
<1>2. CASE Update
  <2>1. ASSUME NEW ops \in UpdateOps PROVE ops \in [Children -> ChildOps]
    BY <2>1 DEF UpdateOps, NoOps, ChildOps
  <2>2. PICK ops \in UpdateOps : Write("UPDATED", 0, ops)
    BY <1>2 DEF Update
  <2>3. QED
    BY <1>w, <1>2, <2>1, <2>2, ServiceBounds DEF Update, MayWrite, Verbs, Revs
<1>3. CASE Archive
  <2>1. Cascade("ARCHIVED") \in [Children -> ChildOps]
    BY DEF Cascade, ChildOps
  <2>2. row.rev + 1 \in Revs
    BY <1>0, <1>3, ServiceBounds DEF Archive, MayWrite, TypeInv, RowInv, Revs
  <2>3. QED
    BY <1>w, <1>3, <2>1, <2>2, ServiceBounds DEF Archive, MayWrite, Verbs
<1>4. CASE Unarchive
  <2>1. Cascade("UNARCHIVED") \in [Children -> ChildOps]
    BY DEF Cascade, ChildOps
  <2>2. QED
    BY <1>w, <1>4, <2>1, ServiceBounds DEF Unarchive, MayWrite, Verbs, Revs
<1>5. QED
  BY <1>1, <1>2, <1>3, <1>4

\* The write side keeps the types.
LEMMA SourceTypes == TypeInv /\ Source => TypeInv'
<1> SUFFICES ASSUME TypeInv, Source PROVE TypeInv'
  OBVIOUS
<1> USE BoundAssumption
<1>0. row \in RowType /\ del \in Revs /\ row.life \in 0..MaxLives /\ row.rev \in Revs
      /\ Len(log) \in Nat
  BY LenProperties DEF TypeInv, TypeOK, RowType, Revs
<1>1. CASE Insert \/ Update \/ Archive \/ Unarchive
  <2>1. PICK r \in RowType, e \in EventType : Records(r, e)
    BY <1>1, SourceShape
  <2>2. QED
    BY <1>0, <2>1, CommitTypes DEF Records
<1>2. CASE DeleteRead
  BY <1>0, <1>2 DEF DeleteRead, TypeInv, TypeOK, RowInv, WorkType, Revs
<1>3. CASE DeleteCommit
  <2> DEFINE r == [NoRow EXCEPT !.life = row.life]
             e == Event("DELETED", del, NoOps)
  <2>1. r \in RowType /\ r.rev = 0 /\ r.live = FALSE
    BY Zenon, <1>0, EmptyTypes DEF NoRow, RowType
  <2>2. e \in EventType
    BY <1>0, <1>3, EmptyTypes DEF DeleteCommit, Event, EventType, Verbs, TypeInv, RowInv, Revs
  <2>3. Commit(r, e) /\ Len(log) < MaxEvents /\ del' \in Revs
    BY <1>3, ServiceBounds DEF DeleteCommit, Revs
  <2> HIDE DEF r, e
  <2>4. QED
    BY <1>0, <2>1, <2>2, <2>3, CommitTypes
<1>4. QED
  BY <1>1, <1>2, <1>3 DEF Source

\* A busy worker holds a logged event.
LEMMA Holds ==
    ASSUME TypeInv, NEW w \in Workers
    PROVE  /\ work[w] \in WorkType
           /\ work[w].pc # "idle" => work[w].ev \in 1..Len(log) /\ Ev(w) \in EventType
<1>1. work[w] \in WorkType
  BY DEF TypeInv, TypeOK
<1>2. ASSUME work[w].pc # "idle"
      PROVE  work[w].ev \in 1..Len(log) /\ Ev(w) \in EventType
  <2>1. work[w].ev \in 1..Len(log)
    BY <1>1, <1>2, LenProperties DEF TypeInv, TypeOK, WorkType
  <2>2. QED
    BY <2>1, ElementOfSeq DEF TypeInv, TypeOK, Ev
<1>3. QED
  BY <1>1, <1>2

\* One worker moving to a well-formed state keeps the workers well formed.
LEMMA WorkerMoves ==
    ASSUME TypeInv, NEW w \in Workers, NEW s \in WorkType,
           (s.pc = "idle") <=> (s.ev = 0),
           log' = log, work' = [work EXCEPT ![w] = s]
    PROVE  /\ work' \in [Workers -> WorkType']
           /\ \A v \in Workers : (work'[v].pc = "idle") <=> (work'[v].ev = 0)
BY DEF TypeInv, TypeOK, WorkType

\* The states a worker moves to are well formed.
LEMMA WorkerStates ==
    ASSUME TypeInv, NEW w \in Workers
    PROVE  /\ Idle \in WorkType /\ Idle.pc = "idle" /\ Idle.ev = 0
           /\ \A pc \in {"check", "remove", "resolve"} :
                /\ [work[w] EXCEPT !.pc = pc] \in WorkType
                /\ work[w].pc # "idle" => [work[w] EXCEPT !.pc = pc].ev # 0
<1>1. Len(log) \in Nat /\ work[w] \in WorkType
  BY LenProperties DEF TypeInv, TypeOK
<1>2. Idle \in WorkType /\ Idle.pc = "idle" /\ Idle.ev = 0
  BY <1>1, EmptyTypes DEF Idle, WorkType
<1>3. QED
  BY Zenon, <1>1, <1>2 DEF TypeInv, TypeOK, WorkType

\* The outcome of an attempt keeps the workers and the completions well formed.
LEMMA SucceedTypes ==
    ASSUME TypeInv, NEW w \in Workers, work[w].pc # "idle", log' = log, Succeed(w)
    PROVE  /\ work' \in [Workers -> WorkType']
           /\ \A v \in Workers : (work'[v].pc = "idle") <=> (work'[v].ev = 0)
           /\ fin' \in 0..Len(log')
<1>1. CASE work[w].replay
  <2>1. work' = [work EXCEPT ![w] = [work[w] EXCEPT !.pc = "resolve"]] /\ fin' = fin
    BY <1>1 DEF Succeed, Goto
  <2>2. [work[w] EXCEPT !.pc = "resolve"].pc = "resolve"
    BY Holds DEF WorkType
  <2>3. QED
    BY Zenon, <2>1, <2>2, WorkerStates, WorkerMoves DEF TypeInv, TypeOK
<1>2. CASE ~work[w].replay
  <2>1. work' = [work EXCEPT ![w] = Idle] /\ fin' = Larger(fin, work[w].ev)
    BY <1>2 DEF Succeed
  <2>2. fin' \in 0..Len(log)
    BY <2>1, Holds, LenProperties DEF Larger, TypeInv, TypeOK
  <2>3. QED
    BY Zenon, <2>1, <2>2, WorkerStates, WorkerMoves
<1>3. QED
  BY <1>1, <1>2

\* Every step of a consumer keeps the types.
LEMMA ConsumerTypes ==
    ASSUME TypeInv, NEW w \in Workers, Consumer(w)
    PROVE  TypeInv'
<1> USE BoundAssumption
<1> DEFINE WorkOK == /\ work' \in [Workers -> WorkType']
                     /\ \A v \in Workers : (work'[v].pc = "idle") <=> (work'[v].ev = 0)
<1>0. /\ work[w] \in WorkType
      /\ work[w].pc # "idle" => work[w].ev \in 1..Len(log) /\ Ev(w) \in EventType
      /\ Len(log) \in Nat
  BY Holds, LenProperties DEF TypeInv, TypeOK
<1>g. ASSUME NEW pc \in {"check", "remove"}, work[w].pc # "idle", log' = log, Goto(w, pc)
      PROVE  WorkOK
  <2>1. work' = [work EXCEPT ![w] = [work[w] EXCEPT !.pc = pc]]
    BY <1>g DEF Goto
  <2>2. [work[w] EXCEPT !.pc = pc].pc = pc
    BY <1>0 DEF WorkType
  <2>3. QED
    BY Zenon, <1>g, <2>1, <2>2, WorkerStates, WorkerMoves
<1>b. ASSUME NEW i \in 1..Len(log), NEW replay \in BOOLEAN, Begin(w, i, replay)
      PROVE  TypeInv'
  <2> DEFINE s == [pc |-> IF ShouldDelete(log[i]) THEN "stamp" ELSE "project",
                   ev |-> i, replay |-> replay, tomb |-> NoTomb]
  <2>1. s \in WorkType /\ s.pc # "idle" /\ s.ev # 0
    BY <1>0, EmptyTypes DEF WorkType
  <2>2. WorkOK
    BY Zenon, <1>b, <2>1, WorkerMoves DEF Begin
  <2>3. QED
    BY <1>b, <2>2 DEF Begin, TypeInv, TypeOK, RowInv
<1>1. CASE Deliver(w)
  BY Zenon, <1>1, <1>b DEF Deliver
<1>2. CASE Replay(w)
  <2>1. ledger \in 1..Len(log)
    BY <1>0, <1>2 DEF Replay, TypeInv, TypeOK
  <2>2. QED
    BY Zenon, <1>2, <1>b, <2>1 DEF Replay
<1>3. CASE ApplyProjection(w)
  <2>1. WorkOK
    BY <1>3, <1>g DEF ApplyProjection
  <2>2. doc' \in DocType
    BY Zenon, <1>0, <1>3, StoreTypes DEF ApplyProjection, TypeInv, TypeOK
  <2>3. QED
    BY <1>3, <2>1, <2>2 DEF ApplyProjection, TypeInv, TypeOK, RowInv
<1>4. CASE CheckTombstone(w)
  <2>1. CASE tomb.rev = 0 \/ tomb.rev < Ev(w).rev
    BY <1>4, <2>1, SucceedTypes DEF CheckTombstone, TypeInv, TypeOK, RowInv
  <2>2. CASE ~(tomb.rev = 0 \/ tomb.rev < Ev(w).rev)
    <3> DEFINE s == [work[w] EXCEPT !.pc = "purge", !.tomb = tomb]
    <3>1. s \in WorkType /\ s.pc # "idle" /\ s.ev # 0
      BY Zenon, <1>0, <1>4 DEF CheckTombstone, WorkType, TypeInv, TypeOK
    <3>2. work' = [work EXCEPT ![w] = s] /\ log' = log
      BY Zenon, <1>4, <2>2 DEF CheckTombstone
    <3>3. WorkOK
      BY Zenon, <3>1, <3>2, WorkerMoves
    <3>4. QED
      BY <1>4, <2>2, <3>3 DEF CheckTombstone, TypeInv, TypeOK, RowInv
  <2>3. QED
    BY <2>1, <2>2
<1>5. CASE PurgeZombie(w)
  <2>1. doc' \in DocType
    BY <1>5, EmptyTypes DEF PurgeZombie, DeleteGuarded, TypeInv, TypeOK
  <2>2. QED
    BY <1>5, <2>1, SucceedTypes DEF PurgeZombie, TypeInv, TypeOK, RowInv
<1>6. CASE StampTombstone(w)
  <2>1. WorkOK
    BY Zenon, <1>6, <1>g DEF StampTombstone
  <2>2. tomb' \in TombType
    BY <1>0, <1>6 DEF StampTombstone, StampedTomb, TombType, EventType, TypeInv, TypeOK
  <2>3. QED
    BY <1>6, <2>1, <2>2 DEF StampTombstone, TypeInv, TypeOK, RowInv
<1>7. CASE RemoveDocument(w)
  <2>1. doc' \in DocType
    BY <1>7, EmptyTypes DEF RemoveDocument, DeleteGuarded, TypeInv, TypeOK
  <2>2. QED
    BY <1>7, <2>1, SucceedTypes DEF RemoveDocument, TypeInv, TypeOK, RowInv
<1>8. CASE Resolve(w)
  <2>1. WorkOK
    BY Zenon, <1>8, WorkerStates, WorkerMoves DEF Resolve
  <2>2. ledger' \in 0..Len(log)
    BY <1>0, <1>8 DEF Resolve
  <2>3. QED
    BY <1>8, <2>1, <2>2 DEF Resolve, TypeInv, TypeOK, RowInv
<1>9. CASE Abandon(w)
  <2>1. aborts' \in 0..MaxAborts
    BY <1>9 DEF Abandon, TypeInv, TypeOK
  <2>2. QED
    BY Zenon, <1>9, <2>1, WorkerStates, WorkerMoves DEF Abandon, TypeInv, TypeOK, RowInv
<1>10. CASE Park(w)
  <2>1. parks' \in 0..MaxParks
    BY <1>10, ServiceBounds DEF Park, TypeInv, TypeOK
  <2>2. ledger' \in 0..Len(log) /\ fin' \in 0..Len(log)
    BY <1>0, <1>10 DEF Park, Larger, TypeInv, TypeOK
  <2>3. QED
    BY Zenon, <1>10, <2>1, <2>2, WorkerStates, WorkerMoves DEF Park, TypeInv, TypeOK, RowInv
<1>11. QED
  BY <1>1, <1>2, <1>3, <1>4, <1>5, <1>6, <1>7, <1>8, <1>9, <1>10 DEF Consumer, Step

\* Every step of the sweep keeps the types.
LEMMA ReconcilerTypes == TypeInv /\ Reconciler => TypeInv'
<1> SUFFICES ASSUME TypeInv, Reconciler PROVE TypeInv'
  OBVIOUS
<1>0. rec \in SweepType /\ row \in RowType /\ doc \in DocType
  BY DEF TypeInv, TypeOK
<1>s. ASSUME NEW s \in SweepType, Sweep(s), doc' \in DocType PROVE TypeInv'
  BY <1>s DEF Sweep, TypeInv, TypeOK, RowInv, WorkType
<1>1. CASE ReconcilePage
  <2>1. [IdleSweep EXCEPT !.pc = "compare", !.rev = row.rev] \in SweepType
    BY Zenon, <1>0, EmptyTypes DEF IdleSweep, SweepType, RowType
  <2>2. QED
    BY <1>0, <1>1, <1>s, <2>1 DEF ReconcilePage
<1>2. CASE ReconcileCompare
  <2> DEFINE s == IF Behind(rec.rev)
                  THEN [rec EXCEPT !.pc = IF @ = "compare" THEN "recheck" ELSE "compose"]
                  ELSE IdleSweep
  <2>1. s \in SweepType
    BY <1>0, EmptyTypes DEF SweepType
  <2>2. Sweep(s) /\ doc' = doc
    BY <1>2 DEF ReconcileCompare
  <2> HIDE DEF s
  <2>3. QED
    BY <1>0, <1>s, <2>1, <2>2
<1>3. CASE ReconcileCompose
  <2> DEFINE s == IF row.live /\ ~(service.deleteOnArchive /\ row.arch # 0)
                  THEN [rec EXCEPT !.pc = "kids", !.row = row]
                  ELSE IdleSweep
  <2>1. s \in SweepType
    BY Zenon, <1>0, EmptyTypes DEF SweepType
  <2>2. Sweep(s) /\ doc' = doc
    BY <1>3 DEF ReconcileCompose
  <2> HIDE DEF s
  <2>3. QED
    BY <1>0, <1>s, <2>1, <2>2
<1>4. CASE ReconcileKids
  <2> DEFINE s == [rec EXCEPT !.pc = "write", !.row.kids = row.kids]
  <2>1. s \in SweepType
    BY Zenon, <1>0 DEF SweepType, RowType
  <2>2. QED
    BY <1>0, <1>4, <1>s, <2>1 DEF ReconcileKids
<1>5. CASE ReconcileWrite
  <2>1. rec.row \in RowType
    BY <1>0 DEF SweepType
  <2>2. ConsultUpsert(doc, rec.row) \in DocType
    BY <1>0, <2>1, BoundAssumption DEF ConsultUpsert, DocType, RowType
  <2>3. QED
    BY <1>5, <1>s, <2>2, EmptyTypes DEF ReconcileWrite
<1>6. QED
  BY <1>1, <1>2, <1>3, <1>4, <1>5 DEF Reconciler

\* Before the first write nothing exists, and that is well typed.
LEMMA TypeInvInit == Init => TypeInv
<1> SUFFICES ASSUME Init PROVE TypeInv
  OBVIOUS
<1>1. /\ row \in RowType /\ doc \in DocType /\ tomb \in TombType /\ rec \in SweepType
      /\ log \in Seq(EventType) /\ Len(log) = 0
  BY EmptyTypes, EmptySeq DEF Init
<1>2. Idle \in WorkType /\ Idle.pc = "idle" /\ Idle.ev = 0
  BY <1>1, EmptyTypes DEF Idle, WorkType
<1>3. RowInv
  BY <1>1 DEF Init, NoRow, RowInv
<1>4. QED
  BY <1>1, <1>2, <1>3, BoundAssumption DEF Init, TypeInv, TypeOK

\* No step of the write side, the consumers or the sweep leaves the types.
LEMMA TypeInvNext == TypeInv /\ [Next]_vars => TypeInv'
<1> SUFFICES ASSUME TypeInv, [Next]_vars PROVE TypeInv'
  OBVIOUS
<1>1. CASE Source
  BY <1>1, SourceTypes
<1>2. CASE \E w \in Workers : Consumer(w)
  BY <1>2, ConsumerTypes
<1>3. CASE Reconciler
  BY <1>3, ReconcilerTypes
<1>4. CASE UNCHANGED vars
  BY <1>4 DEF vars, TypeInv, TypeOK, RowInv, WorkType
<1>5. QED
  BY <1>1, <1>2, <1>3, <1>4 DEF Next

\* Every variable keeps its type: in particular no event is reported done, held
\* by a worker or parked before it is in the outbox (process, recordParked).
THEOREM TypeCorrect == Spec => []TypeOK
<1>1. TypeInv => TypeOK
  BY DEF TypeInv
<1>2. QED
  BY <1>1, TypeInvInit, TypeInvNext, PTL DEF Spec

-----------------------------------------------------------------------------
(* What one step may do to the document and to the tombstone.              *)

\* Who writes the document: a step leaves it, removes it, or applies one of the
\* two guarded pipelines.
LEMMA DocStep ==
    ASSUME TypeInv, [Next]_vars
    PROVE  \/ doc' = doc
           \/ doc' = NoDoc /\ \E w \in Workers : PurgeZombie(w) \/ RemoveDocument(w)
           \/ \E w \in Workers : ApplyProjection(w)
           \/ ReconcileWrite
<1>1. CASE Source
  BY Zenon, <1>1 DEF Source, Insert, Update, Archive, Unarchive, DeleteRead, DeleteCommit,
              Write, Commit
<1>2. ASSUME NEW w \in Workers, Consumer(w)
      PROVE  \/ doc' = doc \/ ApplyProjection(w)
             \/ doc' = NoDoc /\ (PurgeZombie(w) \/ RemoveDocument(w))
  BY <1>2 DEF Consumer, Step, Deliver, Replay, Begin, CheckTombstone, PurgeZombie,
              StampTombstone, RemoveDocument, Resolve, Abandon, Park, DeleteGuarded
<1>3. CASE Reconciler
  BY <1>3 DEF Reconciler, ReconcilePage, ReconcileCompare, ReconcileCompose,
              ReconcileKids, Sweep
<1>4. QED
  BY <1>1, <1>2, <1>3 DEF Next, vars

\* No step takes the stored document back to an older revision, whatever is
\* redelivered, replayed, parked or swept (guardedSetStage, scopeStage).
THEOREM WatermarkNeverRegresses == Spec => WatermarkMonotone
<1>1. ASSUME TypeInv, [Next]_vars, doc.rev > 0, doc'.rev > 0
      PROVE  doc'.rev >= doc.rev
  <2>1. doc.rev \in Nat
    BY <1>1, BoundAssumption DEF TypeInv, TypeOK, DocType
  <2>2. CASE doc' = doc
    BY <2>1, <2>2
  <2>3. CASE doc' = NoDoc
    BY <1>1, <2>3 DEF NoDoc
  <2>4. ASSUME NEW w \in Workers, ApplyProjection(w) PROVE doc'.rev >= doc.rev
    <3>1. Ev(w) \in EventType
      BY <1>1, <2>4, Holds DEF ApplyProjection
    <3>2. Ev(w).rev \in Nat
      BY <3>1, BoundAssumption DEF EventType
    <3>3. QED
      BY <2>1, <2>4, <3>2 DEF ApplyProjection, Project
  <2>5. CASE ReconcileWrite
    <3>1. rec.row.rev \in Nat
      BY <1>1, BoundAssumption DEF TypeInv, TypeOK, SweepType, RowType
    <3>2. [doc EXCEPT !.born = rec.row.life].rev = doc.rev
      BY <1>1 DEF TypeInv, TypeOK, DocType
    <3>3. QED
      BY <2>1, <2>5, <3>1, <3>2 DEF ReconcileWrite, ConsultUpsert
  <2>6. QED
    BY <1>1, <2>2, <2>3, <2>4, <2>5, DocStep
<1>2. TypeInv /\ [Next]_vars
        => [doc.rev > 0 /\ doc'.rev > 0 => doc'.rev >= doc.rev]_vars
  BY <1>1
<1>3. QED
  BY <1>2, TypeInvInit, TypeInvNext, PTL DEF Spec, WatermarkMonotone

\* Only a delete stamps the tombstone.
LEMMA TombStep ==
    ASSUME TypeInv, [Next]_vars
    PROVE  tomb' = tomb \/ \E w \in Workers : StampTombstone(w)
<1>1. CASE Source
  BY Zenon, <1>1 DEF Source, Insert, Update, Archive, Unarchive, DeleteRead, DeleteCommit,
              Write, Commit
<1>2. ASSUME NEW w \in Workers, Consumer(w)
      PROVE  tomb' = tomb \/ StampTombstone(w)
  BY <1>2 DEF Consumer, Step, Deliver, Replay, Begin, ApplyProjection, CheckTombstone,
              PurgeZombie, RemoveDocument, Resolve, Abandon, Park
<1>3. CASE Reconciler
  BY <1>3 DEF Reconciler, ReconcilePage, ReconcileCompare, ReconcileCompose,
              ReconcileKids, ReconcileWrite, Sweep
<1>4. QED
  BY <1>1, <1>2, <1>3 DEF Next, vars

-----------------------------------------------------------------------------
(* The log only grows, and a write touches nothing of the read side.       *)

LogGrows ==
    /\ Len(log') >= Len(log)
    /\ \A i \in 1..Len(log) : log'[i] = log[i]

\* The write side leaves the read side alone and appends to the outbox.
LEMMA SourceStep ==
    ASSUME TypeInv, Source
    PROVE  /\ UNCHANGED <<service, doc, tomb, fin, ledger, work, rec, aborts, parks>>
           /\ LogGrows
<1>1. UNCHANGED <<service, doc, tomb, fin, ledger, work, rec, aborts, parks>>
  BY Zenon DEF Source, Insert, Update, Archive, Unarchive, DeleteRead, DeleteCommit,
         Write, Commit
<1>2. log' = log \/ \E e : log' = Append(log, e)
  BY Zenon DEF Source, Insert, Update, Archive, Unarchive, DeleteRead, DeleteCommit,
         Write, Commit
<1>3. log \in Seq(EventType) /\ Len(log) \in Nat
  BY LenProperties DEF TypeInv, TypeOK
<1>4. ASSUME NEW e, log' = Append(log, e) PROVE LogGrows
  <2>1. log \in Seq(EventType \cup {e})
    BY <1>3
  <2>2. QED
    BY <1>3, <1>4, <2>1, AppendProperties DEF LogGrows
<1>5. QED
  BY <1>1, <1>2, <1>3, <1>4 DEF LogGrows

\* The readers leave the outbox and the view's declaration alone.
LEMMA ReadSideStep ==
    ASSUME Reconciler \/ \E w \in Workers : Consumer(w)
    PROVE  UNCHANGED <<service, row, del, log>>
<1>1. ASSUME NEW w \in Workers, Consumer(w) PROVE UNCHANGED <<service, row, del, log>>
  BY Zenon, <1>1 DEF Consumer, Step, Deliver, Replay, Begin, ApplyProjection, CheckTombstone,
              PurgeZombie, StampTombstone, RemoveDocument, Resolve, Abandon, Park
<1>2. CASE Reconciler
  BY <1>2 DEF Reconciler, ReconcilePage, ReconcileCompare, ReconcileCompose,
              ReconcileKids, ReconcileWrite, Sweep
<1>3. QED
  BY <1>1, <1>2

\* A consumer's step moves its own worker only, and only a delivery or a replay
\* begins an attempt.
LEMMA ConsumerMoves ==
    ASSUME TypeInv, NEW w \in Workers, Consumer(w)
    PROVE  /\ \A v \in Workers : v # w => work'[v] = work[v]
           /\ work'[w].pc \in {"project", "stamp"} => Deliver(w) \/ Replay(w)
<1>1. work \in [Workers -> WorkType] /\ work[w] \in WorkType
  BY DEF TypeInv, TypeOK
<1>2. \/ Deliver(w) \/ Replay(w)
      \/ work' = [work EXCEPT ![w] = Idle]
      \/ \E pc \in {"check", "remove", "resolve"} : work' = [work EXCEPT ![w].pc = pc]
      \/ work' = [work EXCEPT ![w].pc = "purge", ![w].tomb = tomb]
  BY DEF Consumer, Step, ApplyProjection, CheckTombstone, PurgeZombie,
         StampTombstone, RemoveDocument, Resolve, Abandon, Park, Succeed, Goto
<1>3. CASE Deliver(w) \/ Replay(w)
  BY <1>1, <1>3 DEF Deliver, Replay, Begin
<1>4. CASE work' = [work EXCEPT ![w] = Idle]
  BY <1>1, <1>4 DEF Idle
<1>5. CASE \E pc \in {"check", "remove", "resolve"} : work' = [work EXCEPT ![w].pc = pc]
  BY <1>1, <1>5 DEF WorkType
<1>6. CASE work' = [work EXCEPT ![w].pc = "purge", ![w].tomb = tomb]
  BY <1>1, <1>6 DEF WorkType
<1>7. QED
  BY <1>2, <1>3, <1>4, <1>5, <1>6

-----------------------------------------------------------------------------
(* Removals.  Every tombstone, stored or in a worker's hand, is the stamp  *)
(* of a committed removal.                                                 *)

RemovalInv ==
    /\ tomb.rev > 0 => Removal(tomb.rev)
    /\ \A w \in Workers :
         /\ work[w].pc \in {"stamp", "remove"} => ShouldDelete(Ev(w))
         /\ work[w].pc = "purge" => Removal(work[w].tomb.rev)

\* What was committed stays committed.
LEMMA RemovalStays ==
    ASSUME NEW r, Removal(r), Len(log) \in Nat, Len(log') \in Nat, LogGrows,
           service' = service
    PROVE  Removal(r)'
BY DEF Removal, LogGrows, ShouldDelete

\* A busy worker's own removal event is such a committed removal.
LEMMA HeldRemoval ==
    ASSUME TypeInv, NEW w \in Workers, work[w].pc # "idle", ShouldDelete(Ev(w))
    PROVE  Ev(w).rev \in Nat /\ Removal(Ev(w).rev)
<1>1. Ev(w) \in EventType /\ work[w].ev \in 1..Len(log)
  BY Holds
<1>2. Ev(w).rev \in Nat
  BY <1>1, BoundAssumption DEF EventType
<1>3. QED
  BY <1>1, <1>2 DEF Removal, Ev

\* Stamps and reads of the tombstone pass a committed removal on.
LEMMA RemovalConsumer ==
    ASSUME TypeInv, RemovalInv, NEW w \in Workers, Consumer(w)
    PROVE  RemovalInv'
<1>1. UNCHANGED <<service, row, del, log>>
  BY ReadSideStep
<1>2. \A r : Removal(r)' <=> Removal(r)
  BY <1>1 DEF Removal, ShouldDelete
<1>3. work \in [Workers -> WorkType] /\ work[w] \in WorkType
  BY DEF TypeInv, TypeOK
<1>4. tomb'.rev > 0 => Removal(tomb'.rev)
  <2>1. ASSUME NEW v \in Workers, StampTombstone(v) PROVE tomb'.rev > 0 => Removal(tomb'.rev)
    <3>1. ShouldDelete(Ev(v)) /\ work[v].pc # "idle"
      BY Zenon, <2>1 DEF StampTombstone, RemovalInv
    <3>2. Removal(Ev(v).rev)
      BY <3>1, HeldRemoval
    <3>3. tomb' = tomb \/ tomb'.rev = Ev(v).rev
      BY <2>1 DEF StampTombstone, StampedTomb
    <3>4. QED
      BY <3>2, <3>3 DEF RemovalInv
  <2>2. tomb' = tomb \/ \E v \in Workers : StampTombstone(v)
    BY TombStep DEF Next
  <2>3. QED
    BY <2>1, <2>2 DEF RemovalInv
<1>5. ASSUME NEW v \in Workers, v # w
      PROVE  /\ work'[v].pc \in {"stamp", "remove"} => ShouldDelete(Ev(v))'
             /\ work'[v].pc = "purge" => Removal(work'[v].tomb.rev)
  BY <1>1, <1>5, ConsumerMoves DEF RemovalInv, Ev, ShouldDelete
<1>6. work'[w].pc = "stamp" => ShouldDelete(Ev(w))'
  <2>1. CASE Deliver(w) \/ Replay(w)
    <3>1. PICK i, replay : Begin(w, i, replay)
      BY Zenon, <2>1 DEF Deliver, Replay
    <3>2. work'[w] = [pc |-> IF ShouldDelete(log[i]) THEN "stamp" ELSE "project",
                      ev |-> i, replay |-> replay, tomb |-> NoTomb]
      BY Zenon, <1>3, <3>1 DEF Begin
    <3>3. work'[w].ev = i /\ (work'[w].pc = "stamp" => ShouldDelete(log[i]))
      BY <3>2
    <3>4. QED
      BY Zenon, <1>1, <3>3 DEF Ev, ShouldDelete
  <2>2. QED
    BY <2>1, ConsumerMoves
<1>7. work'[w].pc = "remove" => ShouldDelete(Ev(w))'
  <2>1. CASE StampTombstone(w)
    <3>1. work'[w].ev = work[w].ev
      BY <1>3, <2>1 DEF StampTombstone, Goto, WorkType
    <3>2. ShouldDelete(Ev(w))
      BY <2>1 DEF StampTombstone, RemovalInv
    <3>3. QED
      BY <1>1, <3>1, <3>2 DEF Ev, ShouldDelete
  <2>2. CASE ~StampTombstone(w)
    <3>1. work'[w].pc # "remove"
      BY <1>3, <2>2 DEF Consumer, Step, Deliver, Replay, Begin, ApplyProjection,
             CheckTombstone, PurgeZombie, RemoveDocument, Resolve, Abandon, Park,
             Succeed, Goto, Idle, WorkType
    <3>2. QED
      BY <3>1
  <2>3. QED
    BY <2>1, <2>2
<1>8. work'[w].pc = "purge" => Removal(work'[w].tomb.rev)
  <2>1. CASE work' = [work EXCEPT ![w].pc = "purge", ![w].tomb = tomb] /\ tomb.rev # 0
    <3>1. work'[w].tomb = tomb
      BY <1>3, <2>1 DEF WorkType
    <3>2. tomb.rev \in Nat
      BY BoundAssumption DEF TypeInv, TypeOK, TombType
    <3>3. QED
      BY <2>1, <3>1, <3>2 DEF RemovalInv
  <2>2. CASE ~(work' = [work EXCEPT ![w].pc = "purge", ![w].tomb = tomb] /\ tomb.rev # 0)
    <3>1. work'[w].pc # "purge"
      BY <1>3, <2>2 DEF Consumer, Step, Deliver, Replay, Begin, ApplyProjection,
             CheckTombstone, PurgeZombie, StampTombstone, RemoveDocument, Resolve,
             Abandon, Park, Succeed, Goto, Idle, WorkType
    <3>2. QED
      BY <3>1
  <2>3. QED
    BY <2>1, <2>2
<1>9. QED
  BY <1>2, <1>4, <1>5, <1>6, <1>7, <1>8 DEF RemovalInv

\* The invariant holds through every step.
LEMMA RemovalNext == TypeInv /\ TypeInv' /\ RemovalInv /\ [Next]_vars => RemovalInv'
<1> SUFFICES ASSUME TypeInv, TypeInv', RemovalInv, [Next]_vars PROVE RemovalInv'
  OBVIOUS
<1>1. CASE Source
  <2>1. UNCHANGED <<service, tomb, work>> /\ LogGrows
    BY <1>1, SourceStep
  <2>2. Len(log) \in Nat /\ Len(log') \in Nat
    BY LenProperties DEF TypeInv, TypeOK
  <2>3. ASSUME NEW w \in Workers, work[w].pc # "idle" PROVE Ev(w)' = Ev(w)
    BY <2>1, <2>3, Holds DEF Ev, LogGrows
  <2>4. \A r : Removal(r) => Removal(r)'
    BY <2>1, <2>2, RemovalStays
  <2>5. QED
    BY <2>1, <2>3, <2>4 DEF RemovalInv, ShouldDelete
<1>2. CASE \E w \in Workers : Consumer(w)
  BY <1>2, RemovalConsumer
<1>3. CASE Reconciler \/ UNCHANGED vars
  <2>1. UNCHANGED <<service, log, tomb, work>>
    BY <1>3, ReadSideStep DEF vars, Reconciler, ReconcilePage, ReconcileCompare,
       ReconcileCompose, ReconcileKids, ReconcileWrite, Sweep
  <2>2. QED
    BY Zenon, <2>1 DEF RemovalInv, Removal, Ev, ShouldDelete
<1>4. QED
  BY <1>1, <1>2, <1>3 DEF Next

\* No step removes a document that is newer than every committed removal: a
\* zombie may hold any old tombstone, a delete may be redelivered at any time,
\* ids may be reused and the sweep may run (DeleteGuarded, checkTombstone).
THEOREM OnlyDueRemovals == Spec => RemovalIsDue
<1>1. ASSUME TypeInv, RemovalInv, [Next]_vars, doc.rev > 0, doc'.rev = 0
      PROVE  Removal(doc.rev)
  <2>0. doc.rev \in Nat
    BY <1>1, BoundAssumption DEF TypeInv, TypeOK, DocType
  <2>1. ASSUME NEW r \in Nat, Removal(r), doc.rev <= r PROVE Removal(doc.rev)
    <3>1. PICK i \in 1..Len(log) : ShouldDelete(log[i]) /\ log[i].rev >= r
      BY <2>1 DEF Removal
    <3>2. log[i] \in EventType
      BY <1>1, ElementOfSeq DEF TypeInv, TypeOK
    <3>3. log[i].rev >= doc.rev
      BY <2>0, <2>1, <3>1, <3>2, BoundAssumption DEF EventType
    <3>4. QED
      BY Zenon, <3>1, <3>3 DEF Removal
  <2>2. ASSUME NEW w \in Workers, PurgeZombie(w) PROVE Removal(doc.rev)
    <3>1. doc.rev <= work[w].tomb.rev /\ Removal(work[w].tomb.rev)
      BY <1>1, <2>0, <2>2 DEF PurgeZombie, DeleteGuarded, RemovalInv
    <3>2. work[w].tomb.rev \in Nat
      BY <1>1, BoundAssumption DEF TypeInv, TypeOK, WorkType, TombType
    <3>3. QED
      BY <2>1, <3>1, <3>2
  <2>3. ASSUME NEW w \in Workers, RemoveDocument(w) PROVE Removal(doc.rev)
    <3>1. doc.rev <= Ev(w).rev
      BY <1>1, <2>0, <2>3 DEF RemoveDocument, DeleteGuarded
    <3>2. Ev(w).rev \in Nat /\ Removal(Ev(w).rev)
      BY <1>1, <2>3, HeldRemoval DEF RemoveDocument, RemovalInv
    <3>3. QED
      BY <2>1, <3>1, <3>2
  <2>4. ASSUME NEW w \in Workers, ApplyProjection(w) PROVE FALSE
    <3>1. Ev(w).rev \in Nat /\ Ev(w).rev >= 1
      BY <1>1, <2>4, Holds, BoundAssumption DEF ApplyProjection, EventType
    <3>2. QED
      BY <1>1, <2>0, <2>4, <3>1 DEF ApplyProjection, Project
  <2>5. CASE ReconcileWrite
    <3>1. rec.row.rev \in Nat
      BY <1>1, BoundAssumption DEF TypeInv, TypeOK, SweepType, RowType
    <3>2. [doc EXCEPT !.born = rec.row.life].rev = doc.rev
      BY <1>1 DEF TypeInv, TypeOK, DocType
    <3>3. QED
      BY <1>1, <2>0, <2>5, <3>1, <3>2 DEF ReconcileWrite, ConsultUpsert
  <2>6. doc' # doc
    BY <1>1, <2>0
  <2>7. QED
    BY <1>1, <2>2, <2>3, <2>4, <2>5, <2>6, DocStep
<1>2. TypeInv /\ RemovalInv /\ [Next]_vars
        => [doc.rev > 0 /\ doc'.rev = 0 => Removal(doc.rev)]_vars
  BY <1>1
<1>3. Init => TypeInv /\ RemovalInv
  BY TypeInvInit DEF Init, RemovalInv, NoTomb, Idle
<1>4. TypeInv /\ RemovalInv /\ [Next]_vars => (TypeInv /\ RemovalInv)'
  BY TypeInvNext, RemovalNext
<1>5. QED
  BY <1>2, <1>3, <1>4, PTL DEF Spec, RemovalIsDue

-----------------------------------------------------------------------------
(* The document is always one committed write.  Ids are not reused here:   *)
(* with a second incarnation the revisions start again at 1.               *)

Recorded(r, life) ==
    \E i \in 1..Len(log) :
        log[i].rev = r /\ log[i].life = life /\ log[i].type # "DELETED"

\* The row's own write is the newest in the log.
SourceInv ==
    /\ row.life = 0 => Len(log) = 0
    /\ row.live =>
         /\ Recorded(row.rev, row.life)
         /\ \A i \in 1..Len(log) : log[i].rev <= row.rev

\* A worker that is about to project holds no delete, and the sweep carries a
\* row that was committed.
HandInv ==
    /\ \A w \in Workers : work[w].pc = "project" => ~ShouldDelete(Ev(w))
    /\ rec.pc \in {"kids", "write"} => Recorded(rec.row.rev, rec.row.life)

DocInv == doc.rev > 0 => doc.data = doc.rev /\ Recorded(doc.rev, doc.life)

CommittedInv == SourceInv /\ HandInv /\ DocInv

\* What is recorded stays recorded.
LEMMA RecordedStays ==
    ASSUME NEW r, NEW life, Recorded(r, life), Len(log) \in Nat, Len(log') \in Nat, LogGrows
    PROVE  Recorded(r, life)'
BY DEF Recorded, LogGrows

\* The write side keeps its own part of the invariant.
LEMMA SourceInvSource ==
    ASSUME MaxLives <= 1, TypeInv, SourceInv, Source
    PROVE  SourceInv'
<1>0. /\ row.rev \in Nat /\ row.life \in 0..MaxLives /\ Len(log) \in Nat
      /\ log \in Seq(EventType)
  BY BoundAssumption, LenProperties DEF TypeInv, TypeOK, RowType
<1>1. CASE Insert \/ Update \/ Archive \/ Unarchive
  <2>1. PICK r \in RowType, e \in EventType : Records(r, e)
    BY <1>1, SourceShape
  <2>2. /\ Len(log') = Len(log) + 1 /\ log'[Len(log')] = e
        /\ \A i \in 1..Len(log) : log'[i] = log[i]
    BY <2>1, Appended DEF Records, Commit
  <2>3. ASSUME NEW i \in 1..Len(log) PROVE log[i].rev <= r.rev
    <3>0. Len(log) # 0
      BY <1>0, <2>3
    <3>1. row.live /\ r.rev = row.rev + 1
      <4>1. ~(row.life < MaxLives)
        BY <1>0, <3>0, BoundAssumption DEF SourceInv
      <4>2. QED
        BY <2>1, <4>1 DEF Records
    <3>2. log[i].rev \in Nat
      <4>1. log[i] \in EventType
        BY <1>0, <2>3, ElementOfSeq
      <4>2. QED
        BY <4>1, BoundAssumption DEF EventType
    <3>3. QED
      BY <1>0, <3>1, <3>2 DEF SourceInv
  <2>4. r.rev \in Nat
    BY BoundAssumption DEF RowType
  <2>5. \A i \in 1..Len(log') : log'[i].rev <= r.rev
    BY <1>0, <2>1, <2>2, <2>3, <2>4 DEF Records
  <2>6. Recorded(r.rev, r.life)'
    BY <1>0, <2>1, <2>2 DEF Records, Recorded
  <2>7. row' = r /\ r.life # 0
    BY <2>1 DEF Records, Commit
  <2>8. QED
    BY <2>5, <2>6, <2>7 DEF SourceInv
<1>2. CASE DeleteRead
  BY <1>2 DEF DeleteRead, SourceInv, Recorded
<1>3. CASE DeleteCommit
  <2>1. row'.live = FALSE /\ row'.life = row.life /\ row.life # 0
    BY <1>0, <1>3 DEF DeleteCommit, Commit, NoRow, TypeInv, RowInv
  <2>2. QED
    BY <2>1 DEF SourceInv
<1>4. QED
  BY <1>1, <1>2, <1>3 DEF Source

\* The invariant holds through every step.
LEMMA CommittedNext ==
    ASSUME MaxLives <= 1, TypeInv, TypeInv', CommittedInv, [Next]_vars
    PROVE  CommittedInv'
<1>0. Len(log) \in Nat /\ Len(log') \in Nat
  BY LenProperties DEF TypeInv, TypeOK
<1>1. CASE Source
  <2>1. UNCHANGED <<service, doc, work, rec>> /\ LogGrows
    BY <1>1, SourceStep
  <2>2. SourceInv'
    BY <1>1, SourceInvSource DEF CommittedInv
  <2>3. DocInv'
    BY <1>0, <2>1, RecordedStays DEF CommittedInv, DocInv
  <2>4. rec'.pc \in {"kids", "write"} => Recorded(rec.row.rev, rec.row.life)'
    BY <1>0, <2>1, RecordedStays DEF CommittedInv, HandInv
  <2>5. ASSUME NEW w \in Workers, work'[w].pc = "project"
        PROVE  ~ShouldDelete(Ev(w))'
    <3>1. work[w].ev \in 1..Len(log)
      BY <2>1, <2>5, Holds
    <3>2. Ev(w)' = Ev(w)
      BY <2>1, <3>1 DEF Ev, LogGrows
    <3>3. QED
      BY <2>1, <2>5, <3>2 DEF CommittedInv, HandInv, ShouldDelete
  <2>6. QED
    BY <2>1, <2>2, <2>3, <2>4, <2>5 DEF CommittedInv, HandInv
<1>2. ASSUME NEW w \in Workers, Consumer(w) PROVE CommittedInv'
  <2>1. UNCHANGED <<service, row, log>>
    BY <1>2, ReadSideStep
  <2>2. rec' = rec
    BY <1>2 DEF Consumer, Step, Deliver, Replay, Begin, ApplyProjection, CheckTombstone,
                PurgeZombie, StampTombstone, RemoveDocument, Resolve, Abandon, Park
  <2>3. SourceInv'
    BY <2>1 DEF CommittedInv, SourceInv, Recorded
  <2>4. ASSUME NEW v \in Workers, work'[v].pc = "project"
        PROVE  ~ShouldDelete(Ev(v))'
    <3>1. CASE work'[v] = work[v]
      BY <2>1, <2>4, <3>1 DEF CommittedInv, HandInv, Ev, ShouldDelete
    <3>2. CASE work'[v] # work[v]
      <4>1. work \in [Workers -> WorkType]
        BY DEF TypeInv, TypeOK
      <4>2. PICK i, replay : v = w /\ Begin(w, i, replay)
        BY Zenon, <1>2, <2>4, <3>2, ConsumerMoves DEF Deliver, Replay
      <4>3. work'[v].ev = i /\ ~ShouldDelete(log[i])
        BY <2>4, <4>1, <4>2 DEF Begin
      <4>4. QED
        BY <2>1, <4>3 DEF Ev, ShouldDelete
    <3>3. QED
      BY <3>1, <3>2
  <2>5. DocInv'
    <3>1. CASE doc' = doc
      BY <2>1, <3>1 DEF CommittedInv, DocInv, Recorded
    <3>2. CASE doc' = NoDoc
      BY <3>2 DEF DocInv, NoDoc
    <3>3. CASE ApplyProjection(w)
      <4>1. work[w].ev \in 1..Len(log) /\ Ev(w) \in EventType
        BY Zenon, <3>3, Holds DEF ApplyProjection
      <4>2. Recorded(Ev(w).rev, Ev(w).life)
        <5>1. ~ShouldDelete(Ev(w))
          BY Zenon, <3>3 DEF ApplyProjection, CommittedInv, HandInv
        <5>2. QED
          BY Zenon, <4>1, <5>1 DEF ShouldDelete, Recorded, Ev
      <4>3. QED
        BY <2>1, <3>3, <4>2 DEF ApplyProjection, Project, CommittedInv, DocInv, Recorded
    <3>4. QED
      BY <1>2, <3>1, <3>2, <3>3
      DEF Consumer, Step, Deliver, Replay, Begin, CheckTombstone, PurgeZombie,
          StampTombstone, RemoveDocument, Resolve, Abandon, Park, DeleteGuarded
  <2>6. QED
    BY <2>1, <2>2, <2>3, <2>4, <2>5 DEF CommittedInv, HandInv, Recorded
<1>3. CASE Reconciler
  <2>1. UNCHANGED <<service, row, log, work>>
    BY <1>3 DEF Reconciler, ReconcilePage, ReconcileCompare, ReconcileCompose,
                ReconcileKids, ReconcileWrite, Sweep
  <2>2. SourceInv' /\ \A w \in Workers : work'[w].pc = "project" => ~ShouldDelete(Ev(w))'
    BY Zenon, <2>1 DEF CommittedInv, SourceInv, HandInv, Recorded, Ev, ShouldDelete
  <2>3. rec \in SweepType /\ row \in RowType /\ doc \in DocType
    BY DEF TypeInv, TypeOK
  <2>4. rec'.pc \in {"kids", "write"} => Recorded(rec'.row.rev, rec'.row.life)
    <3>1. CASE ReconcileCompose
      BY <2>3, <3>1 DEF ReconcileCompose, Sweep, CommittedInv, SourceInv, SweepType, IdleSweep
    <3>2. CASE ReconcileKids
      BY <2>3, <3>2 DEF ReconcileKids, Sweep, CommittedInv, HandInv, SweepType, RowType
    <3>3. CASE ReconcilePage \/ ReconcileWrite
      <4>1. rec' = IdleSweep \/ rec' = [IdleSweep EXCEPT !.pc = "compare", !.rev = row.rev]
        BY <3>3 DEF ReconcilePage, ReconcileWrite, Sweep
      <4>2. IdleSweep.pc = "idle"
        BY DEF IdleSweep
      <4>3. [IdleSweep EXCEPT !.pc = "compare", !.rev = row.rev].pc = "compare"
        BY EmptyTypes DEF SweepType
      <4>4. QED
        BY Zenon, <4>1, <4>2, <4>3
    <3>4. CASE ReconcileCompare
      <4>1. rec' = IdleSweep \/ \E pc \in {"recheck", "compose"} : rec' = [rec EXCEPT !.pc = pc]
        BY <3>4 DEF ReconcileCompare, Sweep
      <4>2. rec'.pc \in {"idle", "recheck", "compose"}
        BY <2>3, <4>1 DEF SweepType, IdleSweep
      <4>3. QED
        BY <4>2
    <3>5. QED
      BY <1>3, <3>1, <3>2, <3>3, <3>4 DEF Reconciler
  <2>5. doc'.rev > 0 => doc'.data = doc'.rev /\ Recorded(doc'.rev, doc'.life)
    <3>1. CASE ReconcileWrite
      BY <2>3, <3>1 DEF ReconcileWrite, ConsultUpsert, CommittedInv, DocInv, HandInv, DocType
    <3>2. CASE ~ReconcileWrite
      BY <1>3, <3>2 DEF Reconciler, ReconcilePage, ReconcileCompare, ReconcileCompose,
                        ReconcileKids, CommittedInv, DocInv
    <3>3. QED
      BY <3>1, <3>2
  <2>6. QED
    BY Zenon, <2>1, <2>2, <2>4, <2>5 DEF CommittedInv, HandInv, DocInv, Recorded
<1>4. CASE UNCHANGED vars
  BY Zenon, <1>4 DEF vars, CommittedInv, SourceInv, HandInv, DocInv, Recorded, Ev, ShouldDelete
<1>5. QED
  BY <1>1, <1>2, <1>3, <1>4 DEF Next

\* Before the first write there is no document to account for.
LEMMA CommittedInit == Init => CommittedInv
BY DEF Init, CommittedInv, SourceInv, HandInv, DocInv, NoRow, NoDoc, Idle, IdleSweep

\* As long as the id is not reused, the stored scalars are those of one committed
\* write and never ahead of the row: under redelivery, zombies, parked events,
\* replays and a concurrent sweep (guardedSetStage, consultGuardedStages).
THEOREM DocIsOneWrite ==
    ASSUME MaxLives <= 1
    PROVE  Spec => []DocIsCommitted
<1>1. TypeInv /\ CommittedInv => DocIsCommitted
  <2> SUFFICES ASSUME TypeInv, CommittedInv, doc.rev > 0
               PROVE  /\ doc.data = doc.rev
                      /\ Recorded(doc.rev, doc.life)
                      /\ row.live => doc.rev <= row.rev
    BY DEF DocIsCommitted, Recorded
  <2>1. doc.data = doc.rev /\ Recorded(doc.rev, doc.life)
    BY DEF CommittedInv, DocInv
  <2>2. row.live => doc.rev <= row.rev
    BY <2>1 DEF CommittedInv, SourceInv, Recorded
  <2>3. QED
    BY <2>1, <2>2
<1>2. TypeInv /\ CommittedInv /\ [Next]_vars => (TypeInv /\ CommittedInv)'
  BY TypeInvNext, CommittedNext
<1>3. Init => TypeInv /\ CommittedInv
  BY TypeInvInit, CommittedInit
<1>4. QED
  BY <1>1, <1>2, <1>3, PTL DEF Spec

-----------------------------------------------------------------------------
(* Zombies.  A late upsert of an old event can recreate a deleted document.*)
(* The delete stamps the tombstone before it removes, the upsert writes    *)
(* before it checks, so one of the two sees the other.  The argument needs *)
(* what the code leaves outside this protocol to be absent: the sweep's    *)
(* unchecked writes, attempts given up between write and check, parked     *)
(* deletes, and a second incarnation under the same id.                    *)

Strict == MaxLives <= 1 /\ ~AbortAfterWrite /\ Streamed

\* What a worker's place in its attempt says about the event it holds.
Duty(w) ==
    /\ work[w].pc \in {"project", "check", "purge"} => ~ShouldDelete(Ev(w))
    /\ work[w].pc \in {"stamp", "remove"} => ShouldDelete(Ev(w))
    /\ work[w].pc = "remove" => tomb.rev >= Ev(w).rev
    /\ work[w].pc = "purge" => work[w].tomb.born = 1
    /\ work[w].ev <= fin + 1

\* Every delete that was reported done has left its stamp.
Stamped == \A i \in 1..fin : ShouldDelete(log[i]) => tomb.rev >= log[i].rev

Discipline ==
    /\ rec.pc = "idle" /\ ledger = 0
    /\ \A w \in Workers : Duty(w)
    /\ Stamped
    /\ tomb.rev > 0 => tomb.born = 1

\* Stronger than ZombieCovered: a worker about to remove the document may give
\* up, so it does not count; the undone event it holds does.
Clears(w) ==
    \/ work[w].pc = "check" /\ Ev(w).rev <= tomb.rev
    \/ work[w].pc = "purge" /\ work[w].tomb.rev >= doc.rev

Pending ==
    \E i \in (fin + 1)..Len(log) : ShouldDelete(log[i]) /\ log[i].rev >= doc.rev

Cover ==
    doc.rev > 0 /\ tomb.rev >= doc.rev =>
        (\E w \in Workers : Clears(w)) \/ Pending

\* Revisions and positions are numbers.
LEMMA Numbers ==
    ASSUME TypeInv
    PROVE  /\ doc.rev \in Nat /\ tomb.rev \in Nat /\ fin \in Nat /\ Len(log) \in Nat
           /\ fin <= Len(log)
           /\ \A i \in 1..Len(log) : log[i] \in EventType /\ log[i].rev \in Nat
           /\ \A w \in Workers : work[w].tomb.rev \in Nat /\ work[w].ev \in Nat
           /\ \A w \in Workers : work[w].pc # "idle" => Ev(w).rev \in Nat
<1> USE BoundAssumption
<1>1. Len(log) \in Nat /\ fin \in Nat /\ fin <= Len(log)
  BY LenProperties DEF TypeInv, TypeOK
<1>2. doc.rev \in Nat /\ tomb.rev \in Nat
  BY DEF TypeInv, TypeOK, DocType, TombType
<1>3. \A i \in 1..Len(log) : log[i] \in EventType
  BY ElementOfSeq DEF TypeInv, TypeOK
<1>4. \A e \in EventType : e.rev \in Nat
  BY DEF EventType
<1>5. ASSUME NEW w \in Workers PROVE work[w].tomb.rev \in Nat /\ work[w].ev \in Nat
  <2>1. work[w] \in WorkType
    BY DEF TypeInv, TypeOK
  <2>2. QED
    BY <1>1, <2>1 DEF WorkType, TombType
<1>6. \A w \in Workers : work[w].pc # "idle" => Ev(w).rev \in Nat
  BY <1>4, Holds
<1> HIDE BoundAssumption
<1>7. QED
  BY <1>1, <1>2, <1>3, <1>4, <1>5, <1>6

\* The same after a step that keeps the types.
LEMMA NumbersNext ==
    ASSUME TypeInv'
    PROVE  /\ doc'.rev \in Nat /\ tomb'.rev \in Nat /\ fin' \in Nat
           /\ \A w \in Workers : work'[w].ev \in Nat
<1> USE BoundAssumption
<1>1. Len(log') \in Nat /\ fin' \in Nat
  BY LenProperties DEF TypeInv, TypeOK
<1>2. doc'.rev \in Nat /\ tomb'.rev \in Nat
  BY DEF TypeInv, TypeOK, DocType, TombType
<1>3. ASSUME NEW w \in Workers PROVE work'[w].ev \in Nat
  <2>1. work'[w] \in WorkType'
    BY DEF TypeInv, TypeOK
  <2>2. QED
    BY <1>1, <2>1 DEF WorkType
<1>4. QED
  BY <1>1, <1>2, <1>3

\* Without parking, only the end of an attempt reports an event done, and the
\* event is the next one.
LEMMA Finishing ==
    ASSUME Strict, TypeInv, NEW w \in Workers, Duty(w), Consumer(w)
    PROVE  \/ fin' = fin
           \/ /\ work[w].pc \in {"check", "purge", "remove"}
              /\ fin' = fin + 1 /\ work[w].ev = fin + 1
<1>1. ~Park(w)
  BY BoundAssumption DEF Park, Strict, Streamed, TypeInv, TypeOK
<1>2. \/ fin' = fin
      \/ /\ work[w].pc \in {"check", "purge", "remove"}
         /\ fin' = Larger(fin, work[w].ev)
  BY <1>1 DEF Consumer, Step, Deliver, Replay, Begin, ApplyProjection, CheckTombstone,
              PurgeZombie, StampTombstone, RemoveDocument, Resolve, Abandon, Succeed
<1>3. QED
  BY <1>2, Numbers DEF Larger, Duty

\* A worker that has not moved keeps its duty: stamps and completions only grow.
LEMMA DutyStays ==
    ASSUME TypeInv, TypeInv', NEW v \in Workers, Duty(v), work'[v] = work[v],
           service' = service, LogGrows, fin' >= fin, tomb'.rev >= tomb.rev
    PROVE  Duty(v)' /\ (work[v].pc # "idle" => Ev(v)' = Ev(v))
<1>1. ASSUME work[v].pc # "idle" PROVE Ev(v)' = Ev(v)
  BY <1>1, Holds DEF Ev, LogGrows
<1>2. fin \in Nat /\ fin' \in Nat /\ tomb.rev \in Nat /\ tomb'.rev \in Nat /\ work[v].ev \in Nat
  BY Zenon, Numbers, NumbersNext
<1>3. work[v].pc = "remove" => Ev(v).rev \in Nat
  BY Zenon, Numbers
<1>4. QED
  BY <1>1, <1>2, <1>3 DEF Duty, ShouldDelete

\* The discipline holds through every step of the write side ...
LEMMA DisciplineSource ==
    ASSUME TypeInv, TypeInv', Discipline, Source
    PROVE  Discipline'
<1>1. UNCHANGED <<service, tomb, fin, ledger, work, rec>> /\ LogGrows
  BY SourceStep
<1>2. fin \in Nat /\ tomb.rev \in Nat /\ fin <= Len(log) /\ Len(log) \in Nat
  BY Zenon, Numbers
<1>3. \A v \in Workers : Duty(v)'
  BY <1>1, <1>2, DutyStays DEF Discipline
<1>4. Stamped'
  BY <1>1, <1>2 DEF Discipline, Stamped, LogGrows, ShouldDelete
<1>5. QED
  BY <1>1, <1>3, <1>4 DEF Discipline

\* ... and of a consumer.
LEMMA DisciplineConsumer ==
    ASSUME Strict, TypeInv, TypeInv', Discipline, NEW w \in Workers, Consumer(w)
    PROVE  /\ Discipline' /\ tomb'.rev >= tomb.rev /\ fin' >= fin
           /\ LogGrows /\ UNCHANGED <<service, log>>
<1>1. UNCHANGED <<service, row, del, log>>
  BY ReadSideStep
<1>2. Duty(w) /\ Stamped /\ ledger = 0 /\ rec.pc = "idle"
  BY DEF Discipline
<1>3. /\ doc.rev \in Nat /\ tomb.rev \in Nat /\ fin \in Nat /\ Len(log) \in Nat
      /\ tomb'.rev \in Nat /\ fin' \in Nat /\ work[w].ev \in Nat
  BY Zenon, Numbers, NumbersNext
<1>r. \A i \in 1..Len(log) : log[i].rev \in Nat
  BY Zenon, Numbers
<1>4. LogGrows
  BY <1>1, <1>3 DEF LogGrows
<1>5. /\ work \in [Workers -> WorkType] /\ work[w] \in WorkType
      /\ work[w].pc # "idle" => work[w].ev \in 1..Len(log) /\ Ev(w) \in EventType
  BY Zenon, Holds DEF TypeInv, TypeOK
<1>6. tomb' = tomb \/ StampTombstone(w)
  BY DEF Consumer, Step, Deliver, Replay, Begin, ApplyProjection, CheckTombstone,
         PurgeZombie, RemoveDocument, Resolve, Abandon, Park
<1>7. ASSUME StampTombstone(w)
      PROVE  /\ tomb'.rev >= tomb.rev /\ tomb'.rev >= Ev(w).rev
             /\ \/ tomb' = tomb
                \/ tomb'.rev = Ev(w).rev /\ tomb'.born = Ev(w).life
  <2>1. Ev(w).rev \in Nat
    BY Zenon, <1>5, <1>7, Numbers DEF StampTombstone
  <2>2. CASE tomb.rev > Ev(w).rev
    <3>1. tomb' = tomb
      BY Zenon, <1>7, <2>2 DEF StampTombstone, StampedTomb
    <3>2. QED
      BY <1>3, <2>1, <2>2, <3>1
  <2>3. CASE ~(tomb.rev > Ev(w).rev)
    <3>1. tomb'.rev = Ev(w).rev /\ tomb'.born = Ev(w).life
      BY <1>7, <2>3 DEF StampTombstone, StampedTomb
    <3>2. QED
      BY <1>3, <2>1, <2>3, <3>1
  <2>4. QED
    BY <2>2, <2>3
<1>8. tomb'.rev >= tomb.rev
  BY <1>3, <1>6, <1>7
<1>9. fin' >= fin
  BY <1>2, <1>3, Finishing
<1>10. tomb'.rev > 0 => tomb'.born = 1
  <2>1. CASE tomb' = tomb
    BY <2>1 DEF Discipline
  <2>2. CASE StampTombstone(w)
    <3>1. Ev(w) \in EventType
      BY <1>5, <2>2 DEF StampTombstone
    <3>2. Ev(w).life = 1
      BY <3>1, BoundAssumption DEF EventType, Strict
    <3>3. QED
      BY <1>7, <2>2, <3>2 DEF Discipline
  <2>3. QED
    BY <1>6, <2>1, <2>2
<1>11. Stamped'
  <2> SUFFICES ASSUME NEW i \in 1..fin', ShouldDelete(log[i])
               PROVE  tomb'.rev >= log[i].rev
    BY <1>1 DEF Stamped, ShouldDelete
  <2>1. CASE i \in 1..fin
    <3>1. tomb.rev >= log[i].rev
      BY Zenon, <1>2, <2>1 DEF Stamped
    <3>2. log[i].rev \in Nat
      <4>1. i \in 1..Len(log)
        BY <1>3, <2>1, Numbers
      <4>2. QED
        BY Zenon, <1>r, <4>1
    <3>3. QED
      BY <1>3, <1>8, <3>1, <3>2
  <2>2. CASE i \notin 1..fin
    <3>1. /\ work[w].pc \in {"check", "purge", "remove"}
          /\ work[w].ev = i
      BY <1>2, <1>3, <2>2, Finishing
    <3>2. work[w].pc = "remove" /\ tomb.rev >= Ev(w).rev /\ Ev(w) = log[i]
      BY <1>2, <3>1 DEF Duty, Ev
    <3>3. log[i].rev \in Nat
      BY <1>5, <1>r, <3>1
    <3>4. QED
      BY <1>3, <1>8, <3>2, <3>3
  <2>3. QED
    BY <2>1, <2>2
<1>12. rec' = rec /\ ledger' = 0
  <2>1. ~Park(w) /\ ~Replay(w)
    BY <1>2, BoundAssumption DEF Strict, Streamed, TypeInv, TypeOK, Park, Replay
  <2>2. QED
    BY <1>2, <2>1 DEF Consumer, Step, Deliver, Begin, ApplyProjection,
         CheckTombstone, PurgeZombie, StampTombstone, RemoveDocument, Resolve, Abandon
<1>13. ASSUME NEW v \in Workers, v # w PROVE Duty(v)'
  <2>1. work'[v] = work[v]
    BY Zenon, <1>13, ConsumerMoves
  <2>2. QED
    BY Zenon, <1>1, <1>4, <1>8, <1>9, <2>1, DutyStays DEF Discipline
<1>14. Duty(w)'
  <2>b. ASSUME NEW i \in 1..Len(log), i <= fin + 1, NEW replay, Begin(w, i, replay)
        PROVE  Duty(w)'
    <3>1. /\ work'[w].pc = IF ShouldDelete(log[i]) THEN "stamp" ELSE "project"
          /\ work'[w].ev = i /\ fin' = fin
      BY <1>5, <2>b DEF Begin
    <3>2. QED
      BY Zenon, <1>1, <2>b, <3>1 DEF Duty, Ev, ShouldDelete
  <2>i. ASSUME work'[w].pc \in {"idle", "resolve"}, work'[w].ev <= fin + 1 PROVE Duty(w)'
    <3>1. work'[w].ev \in Nat
      BY Zenon, NumbersNext
    <3>2. work'[w].ev <= fin' + 1
      BY <1>3, <1>9, <2>i, <3>1
    <3>3. QED
      BY Zenon, <2>i, <3>2 DEF Duty
  <2>s. ASSUME Succeed(w) PROVE Duty(w)'
    <3>1. work'[w] = Idle \/ work'[w] = [work[w] EXCEPT !.pc = "resolve"]
      BY <1>5, <2>s DEF Succeed, Goto
    <3>2. work'[w].pc \in {"idle", "resolve"} /\ work'[w].ev \in {0, work[w].ev}
      BY <1>5, <3>1 DEF Idle, WorkType
    <3>3. work[w].ev <= fin + 1
      BY Zenon, <1>2 DEF Duty
    <3>4. work'[w].ev <= fin + 1
      BY <1>3, <3>2, <3>3
    <3>5. QED
      BY Zenon, <2>i, <3>2, <3>4
  <2>1. CASE Deliver(w)
    BY Zenon, <2>1, <2>b DEF Deliver
  <2>2. CASE Replay(w)
    BY <1>2, <2>2 DEF Replay
  <2>3. CASE ApplyProjection(w)
    <3>1. work'[w].pc = "check" /\ work'[w].ev = work[w].ev /\ fin' = fin
      BY <1>5, <2>3 DEF ApplyProjection, Goto, WorkType
    <3>2. QED
      BY Zenon, <1>1, <1>2, <2>3, <3>1 DEF ApplyProjection, Duty, Ev, ShouldDelete
  <2>4. CASE CheckTombstone(w)
    <3>1. CASE tomb.rev = 0 \/ tomb.rev < Ev(w).rev
      BY <2>4, <2>s, <3>1 DEF CheckTombstone
    <3>2. CASE ~(tomb.rev = 0 \/ tomb.rev < Ev(w).rev)
      <4>1. /\ work'[w].pc = "purge" /\ work'[w].ev = work[w].ev /\ fin' = fin
            /\ work'[w].tomb = tomb
        BY <1>5, <2>4, <3>2 DEF CheckTombstone, WorkType
      <4>2. tomb.born = 1
        BY <1>3, <3>2 DEF Discipline
      <4>3. QED
        BY <1>1, <1>2, <2>4, <4>1, <4>2 DEF CheckTombstone, Duty, Ev, ShouldDelete
    <3>3. QED
      BY <3>1, <3>2
  <2>5. CASE PurgeZombie(w) \/ RemoveDocument(w)
    BY Zenon, <2>5, <2>s DEF PurgeZombie, RemoveDocument
  <2>6. CASE StampTombstone(w)
    <3>1. work'[w].pc = "remove" /\ work'[w].ev = work[w].ev /\ fin' = fin
      BY <1>5, <2>6 DEF StampTombstone, Goto, WorkType
    <3>2. QED
      BY Zenon, <1>1, <1>2, <1>7, <2>6, <3>1 DEF StampTombstone, Duty, Ev, ShouldDelete
  <2>7. CASE Resolve(w) \/ Abandon(w) \/ Park(w)
    <3>1. work'[w] = Idle
      BY <1>5, <2>7 DEF Resolve, Abandon, Park
    <3>2. QED
      BY <1>3, <2>i, <3>1 DEF Idle
  <2>8. QED
    BY <2>1, <2>2, <2>3, <2>4, <2>5, <2>6, <2>7 DEF Consumer, Step
<1>15. QED
  BY <1>1, <1>2, <1>4, <1>8, <1>9, <1>10, <1>11, <1>12, <1>13, <1>14 DEF Discipline

\* A write does not uncover a document ...
LEMMA CoverSource ==
    ASSUME TypeInv, Cover, Source
    PROVE  Cover'
<1>1. UNCHANGED <<service, doc, tomb, fin, work>> /\ LogGrows
  BY SourceStep
<1>2. fin \in Nat /\ Len(log) \in Nat
  BY Zenon, Numbers
<1>3. ASSUME NEW v \in Workers, Clears(v) PROVE Clears(v)'
  <2>1. Ev(v)' = Ev(v)
    BY Zenon, <1>1, <1>3, Holds DEF Clears, Ev, LogGrows
  <2>2. QED
    BY <1>1, <1>3, <2>1 DEF Clears
<1>4. ASSUME Pending PROVE Pending'
  <2>1. PICK i \in (fin + 1)..Len(log) : ShouldDelete(log[i]) /\ log[i].rev >= doc.rev
    BY <1>4 DEF Pending
  <2>2. i \in 1..Len(log) /\ i \in (fin' + 1)..Len(log') /\ log'[i] = log[i]
    <3>1. Len(log') \in Int
      BY SourceTypes, LenProperties DEF TypeInv, TypeOK
    <3>2. QED
      BY <1>1, <1>2, <3>1 DEF LogGrows
  <2>3. QED
    BY <1>1, <2>1, <2>2 DEF Pending, ShouldDelete
<1>5. QED
  BY <1>1, <1>3, <1>4 DEF Cover

\* ... and neither does a consumer.
LEMMA CoverConsumer ==
    ASSUME Strict, TypeInv, TypeInv', Discipline, Cover, NEW w \in Workers, Consumer(w)
    PROVE  Cover'
<1> SUFFICES ASSUME doc'.rev > 0, tomb'.rev >= doc'.rev
             PROVE  (\E v \in Workers : Clears(v)') \/ Pending'
  BY DEF Cover
<1>1. /\ Discipline' /\ tomb'.rev >= tomb.rev /\ fin' >= fin
      /\ LogGrows /\ UNCHANGED <<service, log>>
  BY DisciplineConsumer
<1>2. Duty(w) /\ Stamped /\ ledger = 0
  BY DEF Discipline
<1>3. /\ doc.rev \in Nat /\ tomb.rev \in Nat /\ fin \in Nat /\ Len(log) \in Nat
      /\ doc'.rev \in Nat /\ tomb'.rev \in Nat /\ fin' \in Nat /\ work[w].ev \in Nat
      /\ work[w].pc # "idle" => Ev(w).rev \in Nat
      /\ work[w].tomb.rev \in Nat
  BY Zenon, Numbers, NumbersNext
<1>4. /\ work \in [Workers -> WorkType] /\ work[w] \in WorkType
      /\ work[w].pc # "idle" => work[w].ev \in 1..Len(log) /\ Ev(w) \in EventType
  BY Zenon, Holds DEF TypeInv, TypeOK
<1>5. doc.born \in {0, 1}
  <2>1. doc.born \in 0..MaxLives
    BY DEF TypeInv, TypeOK, DocType
  <2>2. QED
    BY <2>1, BoundAssumption DEF Strict
<1>f. ASSUME NEW i \in (fin + 1)..Len(log), ShouldDelete(log[i]), i \notin (fin' + 1)..Len(log)
      PROVE  work[w].pc = "remove" /\ log[i] = Ev(w)
  <2>1. work[w].pc \in {"check", "purge", "remove"} /\ work[w].ev = i
    <3>1. fin' # fin
      BY <1>f
    <3>2. fin' = fin + 1 /\ work[w].ev = fin + 1 /\ work[w].pc \in {"check", "purge", "remove"}
      BY <1>2, <3>1, Finishing
    <3>3. i = fin + 1
      BY <1>3, <1>f, <3>2
    <3>4. QED
      BY Zenon, <3>2, <3>3
  <2>2. log[i] = Ev(w)
    BY <2>1 DEF Ev
  <2>3. QED
    BY Zenon, <1>2, <1>f, <2>1, <2>2 DEF Duty
<1>k. ASSUME doc' = doc, tomb'.rev = tomb.rev, ~Clears(w),
             work[w].pc = "remove" => ~(Ev(w).rev >= doc.rev)
      PROVE  (\E v \in Workers : Clears(v)') \/ Pending'
  <2>1. (\E v \in Workers : Clears(v)) \/ Pending
    BY <1>k DEF Cover
  <2>2. ASSUME NEW v \in Workers, Clears(v) PROVE Clears(v)'
    <3>1. work'[v] = work[v]
      BY Zenon, <1>k, <2>2, ConsumerMoves
    <3>2. QED
      BY Zenon, <1>1, <1>k, <2>2, <3>1 DEF Clears, Ev
  <2>3. ASSUME Pending PROVE Pending'
    <3>1. PICK i \in (fin + 1)..Len(log) : ShouldDelete(log[i]) /\ log[i].rev >= doc.rev
      BY Zenon, <2>3 DEF Pending
    <3>2. i \in (fin' + 1)..Len(log)
      BY Zenon, <1>f, <1>k, <3>1
    <3>3. QED
      BY Zenon, <1>1, <1>k, <3>1, <3>2 DEF Pending, ShouldDelete
  <2>4. QED
    BY <2>1, <2>2, <2>3
<1>d. ASSUME NEW n \in Nat, doc' = DeleteGuarded(doc, n, 1)
      PROVE  doc' = doc /\ ~(n >= doc.rev)
  <2>1. doc' # NoDoc
    BY DEF NoDoc
  <2>2. QED
    BY <1>3, <1>5, <1>d, <2>1 DEF DeleteGuarded
<1>6. CASE Deliver(w)
  BY Zenon, <1>6, <1>k DEF Deliver, Begin, Clears
<1>7. CASE Replay(w)
  BY <1>2, <1>7 DEF Replay
<1>8. CASE ApplyProjection(w)
  <2>1. CASE doc.rev > Ev(w).rev
    BY Zenon, <1>8, <1>k, <2>1 DEF ApplyProjection, Project, Clears
  <2>2. CASE ~(doc.rev > Ev(w).rev)
    <3>1. doc'.rev = Ev(w).rev
      BY Zenon, <1>8, <2>2 DEF ApplyProjection, Project
    <3>2. work'[w].pc = "check" /\ work'[w].ev = work[w].ev
      BY <1>4, <1>8 DEF ApplyProjection, Goto, WorkType
    <3>3. Clears(w)'
      BY Zenon, <1>1, <3>1, <3>2 DEF Clears, Ev
    <3>4. QED
      BY <3>3
  <2>3. QED
    BY <2>1, <2>2
<1>9. CASE CheckTombstone(w)
  <2>1. doc' = doc /\ tomb' = tomb /\ work[w].pc = "check"
    BY <1>9 DEF CheckTombstone
  <2>2. CASE tomb.rev < Ev(w).rev
    <3>1. ~(tomb.rev >= Ev(w).rev)
      BY <1>3, <2>1, <2>2
    <3>2. QED
      BY Zenon, <1>k, <2>1, <3>1 DEF Clears
  <2>3. CASE ~(tomb.rev < Ev(w).rev)
    <3>1. tomb.rev # 0
      BY <1>3, <2>1
    <3>2. work'[w].pc = "purge" /\ work'[w].tomb = tomb
      BY <1>4, <1>9, <2>3, <3>1 DEF CheckTombstone, WorkType
    <3>3. Clears(w)'
      BY <2>1, <3>2 DEF Clears
    <3>4. QED
      BY <3>3
  <2>4. QED
    BY <2>2, <2>3
<1>10. CASE PurgeZombie(w)
  <2>1. work[w].pc = "purge" /\ tomb' = tomb /\ work[w].tomb.born = 1
    BY Zenon, <1>2, <1>10 DEF PurgeZombie, Duty
  <2>2. doc' = doc /\ ~(work[w].tomb.rev >= doc.rev)
    BY Zenon, <1>3, <1>10, <1>d, <2>1 DEF PurgeZombie
  <2>3. QED
    BY Zenon, <1>k, <2>1, <2>2 DEF Clears
<1>11. CASE StampTombstone(w)
  <2>1. /\ doc' = doc /\ work[w].pc = "stamp" /\ fin' = fin
        /\ ShouldDelete(Ev(w)) /\ work[w].ev \in 1..Len(log) /\ work[w].ev <= fin + 1
    BY Zenon, <1>2, <1>4, <1>11 DEF StampTombstone, Duty
  <2>2. CASE tomb'.rev = tomb.rev
    BY Zenon, <1>k, <2>1, <2>2 DEF Clears
  <2>3. CASE tomb'.rev # tomb.rev
    <3>1. tomb'.rev = Ev(w).rev
      BY Zenon, <1>11, <2>3 DEF StampTombstone, StampedTomb
    <3>2. work[w].ev \notin 1..fin
      <4>1. ~(tomb.rev >= Ev(w).rev)
        BY <1>1, <1>3, <2>1, <2>3, <3>1
      <4>2. QED
        BY Zenon, <1>2, <2>1, <4>1 DEF Stamped, Ev
    <3>3. work[w].ev \in (fin' + 1)..Len(log')
      BY <1>1, <1>3, <2>1, <3>2
    <3>4. Pending'
      BY Zenon, <1>1, <2>1, <3>1, <3>3 DEF Pending, Ev, ShouldDelete
    <3>5. QED
      BY <3>4
  <2>4. QED
    BY <2>2, <2>3
<1>12. CASE RemoveDocument(w)
  <2>1. work[w].pc = "remove" /\ tomb' = tomb /\ Ev(w) \in EventType
    BY <1>4, <1>12 DEF RemoveDocument
  <2>2. Ev(w).life = 1
    BY <2>1, BoundAssumption DEF EventType, Strict
  <2>3. doc' = doc /\ ~(Ev(w).rev >= doc.rev)
    BY Zenon, <1>3, <1>12, <1>d, <2>1, <2>2 DEF RemoveDocument
  <2>4. QED
    BY Zenon, <1>k, <2>1, <2>3 DEF Clears
<1>13. CASE Resolve(w)
  BY Zenon, <1>13, <1>k DEF Resolve, Clears
<1>14. CASE Abandon(w) /\ work[w].pc # "remove"
  BY Zenon, <1>14, <1>k DEF Abandon, Clears, Strict
<1>15. CASE Abandon(w) /\ work[w].pc = "remove"
  <2>1. doc' = doc /\ tomb' = tomb /\ fin' = fin
    BY <1>15 DEF Abandon
  <2>2. ASSUME NEW v \in Workers, Clears(v) PROVE Clears(v)'
    <3>1. work'[v] = work[v]
      BY Zenon, <1>15, <2>2, ConsumerMoves DEF Clears
    <3>2. QED
      BY Zenon, <1>1, <2>1, <2>2, <3>1 DEF Clears, Ev
  <2>3. Pending => Pending'
    BY Zenon, <1>1, <2>1 DEF Pending, ShouldDelete
  <2>4. QED
    BY <2>1, <2>2, <2>3 DEF Cover
<1>16. CASE Park(w)
  BY <1>16, BoundAssumption DEF Park, Strict, Streamed, TypeInv, TypeOK
<1>17. QED
  BY Zenon, <1>6, <1>7, <1>8, <1>9, <1>10, <1>11, <1>12, <1>13, <1>14, <1>15, <1>16
  DEF Consumer, Step

\* A document that its tombstone covers is always on its way out: whichever way
\* the delete's stamp-then-remove and the zombie's write-then-check interleave,
\* for any number of workers and redeliveries (applyDelete, checkTombstone).
THEOREM ZombiesAreCovered ==
    ASSUME MaxLives <= 1, ~AbortAfterWrite
    PROVE  Spec => []ZombieCovered
<1> DEFINE Inv == TypeInv /\ (Streamed => Discipline /\ Cover)
<1>1. Init => Inv
  <2> SUFFICES ASSUME Init PROVE Discipline /\ Cover
    BY TypeInvInit
  <2>1. ASSUME NEW w \in Workers PROVE Duty(w)
    <3>1. work[w].pc = "idle" /\ work[w].ev = 0 /\ fin = 0
      BY DEF Init, Idle
    <3>2. QED
      BY <3>1 DEF Duty
  <2>2. rec.pc = "idle" /\ ledger = 0 /\ tomb.rev = 0 /\ doc.rev = 0 /\ fin = 0
    BY Zenon DEF Init, IdleSweep, NoTomb, NoDoc
  <2>3. QED
    BY <2>1, <2>2 DEF Discipline, Cover, Stamped
<1>2. Inv /\ [Next]_vars => Inv'
  <2>s. [Next]_vars /\ TypeInv => service' = service
    BY SourceStep, ReadSideStep DEF Next, vars
  <2> SUFFICES ASSUME TypeInv, Strict, Discipline, Cover, [Next]_vars
               PROVE  Discipline' /\ Cover'
    BY <2>s, TypeInvNext DEF Strict, Streamed
  <2>0. TypeInv'
    BY TypeInvNext
  <2>1. CASE Source
    BY <2>0, <2>1, DisciplineSource, CoverSource
  <2>2. ASSUME NEW w \in Workers, Consumer(w) PROVE Discipline' /\ Cover'
    BY <2>0, <2>2, DisciplineConsumer, CoverConsumer
  <2>3. ~Reconciler
    BY DEF Reconciler, ReconcilePage, ReconcileCompare, ReconcileCompose, ReconcileKids,
           ReconcileWrite, Strict, Streamed, Discipline
  <2>4. CASE UNCHANGED vars
    BY Zenon, <2>4 DEF vars, Discipline, Duty, Stamped, Cover, Clears, Pending, Ev, ShouldDelete
  <2>5. QED
    BY <2>1, <2>2, <2>3, <2>4 DEF Next
<1>3. Inv => ZombieCovered
  BY DEF Cover, Clears, Pending, ZombieCovered
<1>4. QED
  BY <1>1, <1>2, <1>3, PTL DEF Spec
=============================================================================
