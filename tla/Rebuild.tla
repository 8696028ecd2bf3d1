------------------------------- MODULE Rebuild -------------------------------
(***************************************************************************)
(* The blue-green rebuild of one view, seen through one document.          *)
(*                                                                         *)
(* A pod that boots with a newer view definition drives the rebuild: it    *)
(* fills the inactive slot from the relational source, verifies it and     *)
(* flips the registry's active pointer.  Meanwhile the serving pods keep   *)
(* applying events, to the active slot and, when their cached pointers say *)
(* so, to the shadow slot as well.  Every registry write, every collection *)
(* operation and every read of a cached pointer is a step of its own; what *)
(* relates the pods is the lease that bounds the age of their caches.      *)
(***************************************************************************)
EXTENDS Integers, Sequences

CONSTANTS
    Pods,             \* instances of the service
    Rollouts,         \* the ways the new definition may be rolled out
    PinnedPointers,   \* no pod swaps its pointers between an event's legs
    FenceMargin,      \* the lease wait outlasts the registry reads it overlaps
    EarlyBootFails,   \* a boot fails to read its pointers only before any flip
    ProcessRetries,   \* processRetries
    AbortThreshold    \* shadowAbortThreshold

\* A rollout: the pods that boot with the new definition, whether the view is
\* new (it has no registry row yet), and what happens at most meanwhile: so
\* many committed writes, driver crashes or failed rebuilds, and failed attempts
\* or registry reads.
ASSUME RebuildAssumption ==
    /\ Rollouts \subseteq [drivers : SUBSET Pods, fresh : BOOLEAN,
                          writes : Nat, crashes : Nat, fails : Nat]
    /\ \A r \in Rollouts : r.fresh => r.drivers = Pods
    /\ {PinnedPointers, FenceMargin, EarlyBootFails} \subseteq BOOLEAN
    /\ ProcessRetries \in Nat \ {0}
    /\ AbortThreshold \in Nat \ {0}

VARIABLES
    rollout,  \* which rollout this is; fixed
    row,      \* the row's revision in the relational source, 0 when absent
    log,      \* the outbox
    fin,      \* events 1..fin have reported Done
    parked,   \* the events that reached Done through the parking ledger
    tomb,     \* the revision of the id's tombstone, 0 if none
    docs,     \* slot -> the document's revision, 0 when absent
    others,   \* the slots that hold documents of other rows
    built,    \* slot -> the definition version the slot was provisioned for
    reg,      \* the view's registry row
    lock,     \* the pod holding the rebuild lock, or None
    cache,    \* pod -> its cached pointers
    asked,    \* pod -> the registry reads of its goroutines, not yet swapped in
    fresh,    \* the pods whose cache is younger than the lease
    awaited,  \* the pods whose cache the lease being awaited must outlast
    job,      \* pod -> the event its worker is applying
    streak,   \* pod -> consecutive failures to reach the shadow
    drv,      \* pod -> where its boot and rebuild stand
    repairs,  \* documents the last verify had to repair
    crashes,
    fails

source == <<rollout, row, log>>
done == <<fin, parked>>
slots == <<docs, others, built>>
pointers == <<cache, asked, fresh, awaited>>
bounds == <<crashes, fails>>
vars == <<source, done, tomb, slots, reg, lock, pointers, job, streak, drv,
          repairs, bounds>>

-----------------------------------------------------------------------------
None == "none"
Slots == {"bare", "s0", "s1"}

\* The versions of the definition; NoDef is a registry without the view's row.
NoDef == 0
OldDef == 1
NewDef == 2

\* Variant: slot 0 is the shadow of every slot.
MutInactiveSlotZero(active) == "s0"

\* inactiveSlot: from the bare collection the first shadow is slot 0.
InactiveSlot(active) == IF active = "s0" THEN "s1" ELSE "s0"

Larger(a, b) == IF a < b THEN b ELSE a

Serving(p) == drv[p].pc = "serve"

Pointers(r) == [active |-> r.active, shadow |-> r.shadow]

\* Active and Shadow on an empty cache: the bare collection, and no shadow.
EmptyCache == [active |-> "bare", shadow |-> None]

\* ViewResolver.Refresh runs in two goroutines of a pod, the read loop (which
\* is also where the boot primes the cache) and a worker between attempts: it
\* reads the registry, and later swaps the cache and stamps it as of then.
Loop == "loop"
Retry == "retry"
Goroutines == {Loop, Retry}

NoAnswer == [active |-> None, shadow |-> None, late |-> FALSE]
NoAnswers == [g \in Goroutines |-> NoAnswer]

Answered(p, g) == asked[p][g] # NoAnswer

RegistryRead(p, g) ==
    /\ ~Answered(p, g)
    /\ asked' = [asked EXCEPT ![p][g] =
                    [active |-> reg.active, shadow |-> reg.shadow, late |-> FALSE]]
    /\ UNCHANGED <<cache, fresh, awaited>>

\* An answer from before a lease wait began (late) is stamped as young as any
\* other; only a wait with a margin takes it into account.
CacheSwap(p, g) ==
    /\ Answered(p, g)
    /\ cache' = [cache EXCEPT ![p] = Pointers(asked[p][g])]
    /\ asked' = [asked EXCEPT ![p][g] = NoAnswer]
    /\ fresh' = fresh \cup {p}
    /\ awaited' = IF FenceMargin /\ asked[p][g].late THEN awaited \cup {p}
                  ELSE awaited \ {p}

ReadFails(p, g) ==
    /\ Answered(p, g)
    /\ fails < rollout.fails
    /\ fails' = fails + 1
    /\ asked' = [asked EXCEPT ![p][g] = NoAnswer]
    /\ UNCHANGED <<cache, fresh, awaited>>

\* The driver's own refreshes are not split, nor do they count as fresh: nobody
\* asks before it consumes, and by then the settle wait has outlasted them.
DriverRefresh(d, r) ==
    /\ cache' = [cache EXCEPT ![d] = Pointers(r)]
    /\ UNCHANGED fresh

\* awaitFenceLease starts: every cache that is young now, and every registry
\* read that is under way, is from before.
StartWait(d) ==
    /\ awaited' = fresh \ {d}
    /\ asked' = [p \in Pods |-> [g \in Goroutines |->
                    [asked[p][g] EXCEPT !.late = Answered(p, g)]]]

WaitOver ==
    /\ awaited = {}
    /\ FenceMargin => \A p \in Pods : \A g \in Goroutines : ~asked[p][g].late

-----------------------------------------------------------------------------
(* The write side.  Revisions are consecutive; DELETED carries the last.   *)

Update ==
    /\ Len(log) < rollout.writes
    /\ row # 0
    /\ UNCHANGED rollout
    /\ row' = row + 1
    /\ log' = Append(log, [del |-> FALSE, rev |-> row + 1])
    /\ UNCHANGED <<done, tomb, slots, reg, lock, pointers, job, streak, drv,
                   repairs, bounds>>

Delete ==
    /\ Len(log) < rollout.writes
    /\ row # 0
    /\ UNCHANGED rollout
    /\ row' = 0
    /\ log' = Append(log, [del |-> TRUE, rev |-> row])
    /\ UNCHANGED <<done, tomb, slots, reg, lock, pointers, job, streak, drv,
                   repairs, bounds>>

-----------------------------------------------------------------------------
(* A serving pod: the read loop and the worker that applies one event.     *)

\* Time passes: p's cache is older than the lease.
Expire(p) ==
    /\ p \in fresh
    /\ fresh' = fresh \ {p}
    /\ awaited' = awaited \ {p}
    /\ UNCHANGED <<source, done, tomb, slots, reg, lock, cache, asked, job,
                   streak, drv, repairs, bounds>>

BetweenLegs(p) == job[p].pc \in {"putShadow", "delShadow", "purgeShadow"}

\* EnsureFresh, on the next message p reads, of whatever aggregate and topic
\* (each topic has its read loop): the registry is read ...
Refresh(p) ==
    /\ Serving(p)
    /\ p \notin fresh
    /\ RegistryRead(p, Loop)
    /\ UNCHANGED <<source, done, tomb, slots, reg, lock, job, streak, drv,
                   repairs, bounds>>

\* ... and the cache swapped,
RefreshEnds(p) ==
    /\ Serving(p)
    /\ PinnedPointers => ~BetweenLegs(p)
    /\ CacheSwap(p, Loop)
    /\ UNCHANGED <<source, done, tomb, slots, reg, lock, job, streak, drv,
                   repairs, bounds>>

\* or the message is handed back and read again in the next session.
RefreshFails(p) ==
    /\ Serving(p)
    /\ ReadFails(p, Loop)
    /\ UNCHANGED <<source, done, tomb, slots, reg, lock, job, streak, drv,
                   repairs, crashes>>

Idle == [pc |-> "idle", ev |-> 0, tries |-> 0]

\* process: the legs an event starts with.
FirstLeg(e) == IF e.del THEN "stamp" ELSE "putActive"

\* The read loop hands the next event to its worker: only with a fresh cache.
\* Another pod may still be applying the same event.
Read(p) ==
    /\ Serving(p)
    /\ p \in fresh
    /\ job[p].pc = "idle"
    /\ fin < Len(log)
    /\ job' = [job EXCEPT ![p] = [pc |-> FirstLeg(log[fin + 1]), ev |-> fin + 1,
                                  tries |-> 0]]
    /\ UNCHANGED <<source, done, tomb, slots, reg, lock, pointers, streak, drv,
                   repairs, bounds>>

\* Events of the other aggregates reach whatever slots p's cache names.
ApplyOthers(p) ==
    /\ Serving(p)
    /\ p \in fresh
    /\ others' = others \cup ({cache[p].active, cache[p].shadow} \ {None})
    /\ others' # others
    /\ UNCHANGED <<source, done, tomb, docs, built, reg, lock, pointers, job,
                   streak, drv, repairs, bounds>>

Ev(p) == log[job[p].ev]

JobAt(p, pc) == Serving(p) /\ job[p].pc = pc

JobTo(p, pc) == job' = [job EXCEPT ![p].pc = pc]

\* Variant: completions are counted instead of named.
MutFinishCounts(p) ==
    /\ job' = [job EXCEPT ![p] = Idle]
    /\ fin' = fin + 1

Finish(p) ==
    /\ job' = [job EXCEPT ![p] = Idle]
    /\ fin' = Larger(fin, job[p].ev)

\* An attempt has failed: the event waits for its next one, or is parked when
\* the budget is spent, and Done advances the stream all the same.
AttemptFailed(p) ==
    IF job[p].tries + 1 < ProcessRetries
    THEN /\ job' = [job EXCEPT ![p].pc = "retry", ![p].tries = @ + 1]
         /\ UNCHANGED done
    ELSE /\ Finish(p)
         /\ parked' = parked \cup {job[p].ev}

\* What a guarded projection and a guarded delete at revision r leave.
Projected(d, r) == Larger(d, r)
Deleted(d, r) == IF d <= r THEN 0 ELSE d

\* applyDelete records the tombstone first.
Stamp(p) ==
    /\ JobAt(p, "stamp")
    /\ tomb' = Larger(tomb, Ev(p).rev)
    /\ JobTo(p, "delActive")
    /\ UNCHANGED <<source, done, slots, reg, lock, pointers, streak, drv,
                   repairs, bounds>>

\* The leg on the active slot: applyProjection, applyDelete, checkTombstone.
\* The id has one incarnation here, so the tombstone checkTombstone has read is
\* the only one there will be.
ActiveLeg(p) ==
    /\ UNCHANGED <<source, done, tomb, others, built, reg, lock, pointers,
                   streak, drv, repairs, bounds>>
    /\ \/ /\ JobAt(p, "putActive")
          /\ docs' = [docs EXCEPT ![cache[p].active] = Projected(@, Ev(p).rev)]
          /\ JobTo(p, "putShadow")
       \/ /\ JobAt(p, "delActive")
          /\ docs' = [docs EXCEPT ![cache[p].active] = Deleted(@, Ev(p).rev)]
          /\ JobTo(p, "delShadow")
       \/ /\ JobAt(p, "purgeActive")
          /\ docs' = [docs EXCEPT ![cache[p].active] = Deleted(@, tomb)]
          /\ JobTo(p, "purgeShadow")

AfterShadow(p) ==
    IF job[p].pc = "putShadow"
    THEN JobTo(p, "check") /\ UNCHANGED fin
    ELSE Finish(p)

\* ShadowActive is false: this leg is skipped.
SkipShadow(p) ==
    /\ Serving(p)
    /\ BetweenLegs(p)
    /\ cache[p].shadow = None
    /\ AfterShadow(p)
    /\ UNCHANGED <<source, parked, tomb, slots, reg, lock, pointers, streak, drv,
                   repairs, bounds>>

ShadowContent(p, d) ==
    CASE job[p].pc = "putShadow" -> Projected(d, Ev(p).rev)
      [] job[p].pc = "delShadow" -> Deleted(d, Ev(p).rev)
      [] job[p].pc = "purgeShadow" -> Deleted(d, tomb)

\* dualApplyShadow, a write that succeeds: the failure streak is over.
DualApply(p) ==
    /\ Serving(p)
    /\ BetweenLegs(p)
    /\ cache[p].shadow # None
    /\ docs' = [docs EXCEPT ![cache[p].shadow] = ShadowContent(p, @)]
    /\ streak' = [streak EXCEPT ![p] = 0]
    /\ AfterShadow(p)
    /\ UNCHANGED <<source, parked, tomb, others, built, reg, lock, pointers, drv,
                   repairs, bounds>>

\* dualApplyShadow, retries exhausted: the attempt fails.  At the threshold the
\* streak starts over and the rebuild is abandoned cluster-wide, unless that
\* write fails too, and the pointers are re-read.
DualApplyFails(p) ==
    /\ Serving(p)
    /\ BetweenLegs(p)
    /\ cache[p].shadow # None
    /\ fails < rollout.fails
    /\ fails' = fails + 1
    /\ IF streak[p] + 1 < AbortThreshold
       THEN /\ streak' = [streak EXCEPT ![p] = @ + 1]
            /\ AttemptFailed(p)
            /\ UNCHANGED reg
       ELSE /\ streak' = [streak EXCEPT ![p] = 0]
            /\ \E cleared \in BOOLEAN :
                 IF cleared
                 THEN /\ reg' = [reg EXCEPT !.shadow = None]
                      /\ JobTo(p, "abandoned")
                      /\ UNCHANGED done
                 ELSE AttemptFailed(p) /\ UNCHANGED reg
    /\ UNCHANGED <<source, tomb, slots, lock, pointers, drv, repairs, crashes>>

\* The attempt fails in any other way: a store call, or its time is up.
AttemptFails(p) ==
    /\ Serving(p)
    /\ job[p].pc \notin {"idle", "retry", "abandoned"}
    /\ fails < rollout.fails
    /\ fails' = fails + 1
    /\ AttemptFailed(p)
    /\ UNCHANGED <<source, tomb, slots, reg, lock, pointers, streak, drv, repairs,
                   crashes>>

\* The worker's own Refresh, before the next attempt or after abandoning.
Rereading(p) == Serving(p) /\ job[p].pc \in {"retry", "abandoned"}

Reread(p) ==
    /\ Rereading(p)
    /\ RegistryRead(p, Retry)
    /\ UNCHANGED <<source, done, tomb, slots, reg, lock, job, streak, drv,
                   repairs, bounds>>

RereadEnds(p) ==
    /\ Rereading(p)
    /\ CacheSwap(p, Retry)
    /\ IF job[p].pc = "retry"
       THEN JobTo(p, FirstLeg(Ev(p))) /\ UNCHANGED done
       ELSE AttemptFailed(p)
    /\ UNCHANGED <<source, tomb, slots, reg, lock, streak, drv, repairs, bounds>>

\* A re-read that fails costs the attempt it was for; after abandoning it is
\* only logged, the attempt having failed already.
RereadFails(p) ==
    /\ Rereading(p)
    /\ ReadFails(p, Retry)
    /\ AttemptFailed(p)
    /\ UNCHANGED <<source, tomb, slots, reg, lock, streak, drv, repairs, crashes>>

CheckTombstone(p) ==
    /\ JobAt(p, "check")
    /\ IF tomb = 0 \/ tomb < Ev(p).rev
       THEN Finish(p)
       ELSE JobTo(p, "purgeActive") /\ UNCHANGED fin
    /\ UNCHANGED <<source, parked, tomb, slots, reg, lock, pointers, streak, drv,
                   repairs, bounds>>

-----------------------------------------------------------------------------
(* The driver: boot, drift detection and ExecuteRebuild.                   *)

Off == [pc |-> "boot", fresh |-> FALSE, plan |-> None, shadow |-> "s0",
        buf |-> 0, orphan |-> FALSE]

At(d, pc) == drv[d].pc = pc

Goto(d, pc) == drv' = [drv EXCEPT ![d].pc = pc]

\* What a driver step leaves alone unless it says otherwise.
live == <<source, done, tomb, job, streak>>

\* Boot primes the resolver cache ...
Boot(d) ==
    /\ At(d, "boot")
    /\ RegistryRead(d, Loop)
    /\ UNCHANGED <<live, slots, reg, lock, drv, repairs, bounds>>

BootEnds(d) ==
    /\ At(d, "boot")
    /\ CacheSwap(d, Loop)
    /\ Goto(d, "detect")
    /\ UNCHANGED <<live, slots, reg, lock, repairs, bounds>>

\* ... and goes on without it when the read fails: the cache stays empty.
BootFails(d) ==
    /\ At(d, "boot")
    /\ EarlyBootFails => reg.active = "bare"
    /\ Answered(d, Loop)
    /\ asked' = [asked EXCEPT ![d][Loop] = NoAnswer]
    /\ Goto(d, "detect")
    /\ UNCHANGED <<live, slots, reg, lock, cache, fresh, awaited, repairs, bounds>>

\* decideDrift over a source that has rows: no registry row but documents
\* aborts the boot, a recorded version that matches needs no rebuild unless
\* the active collection is empty.  The registry's status has no say.
Populated(s) == docs[s] # 0 \/ s \in others

\* Variant: a view without a row is only registered, never backfilled.
MutDriftFreshInit(ver, populated) ==
    CASE ver = NoDef /\ populated -> "boot"
      [] ver \in {NoDef, NewDef} -> "serve"
      [] OTHER -> "lock"

AfterDrift(ver, populated) ==
    CASE ver = NoDef /\ populated -> "boot"
      [] ver = NewDef /\ populated -> "serve"
      [] OTHER -> "lock"

Detect(d) ==
    /\ At(d, "detect")
    /\ drv' = [drv EXCEPT ![d].pc = AfterDrift(reg.ver, Populated(cache[d].active)),
                          ![d].fresh = reg.ver = NoDef,
                          ![d].plan = reg.shadow]
    /\ UNCHANGED <<live, slots, reg, lock, pointers, repairs, bounds>>

\* ExecuteRebuild resolves the slot it will build from the cache, then tries
\* the lock.  A pod that does not get it serves: a follower.
AcquireLock(d) ==
    /\ At(d, "lock")
    /\ lock = None
    /\ lock' = d
    /\ drv' = [drv EXCEPT ![d].pc = IF drv[d].fresh THEN "create" ELSE "takeover",
                          ![d].shadow = InactiveSlot(cache[d].active)]
    /\ fresh' = fresh \ {d}
    /\ awaited' = awaited \ {d}
    /\ UNCHANGED <<live, slots, reg, cache, asked, repairs, bounds>>

Follow(d) ==
    /\ At(d, "lock")
    /\ lock # None
    /\ Goto(d, "serve")
    /\ UNCHANGED <<live, slots, reg, lock, pointers, repairs, bounds>>

\* DriftFreshBackfill: re-read the row under the lock, create it if absent.
CreateRow(d) ==
    /\ At(d, "create")
    /\ reg' = IF reg.ver = NoDef THEN [reg EXCEPT !.ver = NewDef] ELSE reg
    /\ drv' = [drv EXCEPT ![d].pc = "takeover", ![d].plan = reg.shadow]
    /\ UNCHANGED <<live, slots, lock, pointers, repairs, bounds>>

\* G5a: the row read at boot names a shadow a crashed driver left.
TakeoverClear(d) ==
    /\ At(d, "takeover")
    /\ drv[d].plan # None
    /\ reg' = [reg EXCEPT !.shadow = None]
    /\ Goto(d, "takeoverDrop")
    /\ UNCHANGED <<live, slots, lock, pointers, repairs, bounds>>

Drop(s) ==
    /\ docs' = [docs EXCEPT ![s] = 0]
    /\ others' = others \ {s}

TakeoverDrop(d) ==
    /\ At(d, "takeoverDrop")
    /\ Drop(drv[d].plan)
    /\ DriverRefresh(d, reg)
    /\ Goto(d, "begin")
    /\ UNCHANGED <<live, built, reg, lock, asked, awaited, repairs, bounds>>

BeginRebuild(d) ==
    /\ At(d, "begin") \/ (At(d, "takeover") /\ drv[d].plan = None)
    /\ reg' = [reg EXCEPT !.status = "processing"]
    /\ Goto(d, "drop")
    /\ UNCHANGED <<live, slots, lock, pointers, repairs, bounds>>

\* Drop whatever occupies the slot, then provision the declared shape.
DropShadow(d) ==
    /\ At(d, "drop")
    /\ Drop(drv[d].shadow)
    /\ built' = [built EXCEPT ![drv[d].shadow] = NewDef]
    /\ Goto(d, "flag")
    /\ UNCHANGED <<live, reg, lock, pointers, repairs, bounds>>

\* beginSlotRebuild turns dual-apply on; the lease is awaited from here.
BeginSlotRebuild(d) ==
    /\ At(d, "flag")
    /\ reg' = [reg EXCEPT !.shadow = drv[d].shadow]
    /\ DriverRefresh(d, reg')
    /\ StartWait(d)
    /\ Goto(d, "fence")
    /\ UNCHANGED <<live, slots, lock, repairs, bounds>>

\* Variant: the backfill starts at once.
MutNoFence(d) ==
    /\ At(d, "fence")
    /\ Goto(d, "backfill")
    /\ UNCHANGED <<live, slots, reg, lock, pointers, repairs, bounds>>

\* One lease later every cache is younger than the wait or has expired.
AwaitFence(d) ==
    /\ At(d, "fence")
    /\ WaitOver
    /\ Goto(d, "backfill")
    /\ UNCHANGED <<live, slots, reg, lock, pointers, repairs, bounds>>

\* backfillInto and recomposeInto: compose from the source, then write the
\* composed document, if there is one, guarded by its revision.
Compose(d) ==
    /\ At(d, "backfill") \/ At(d, "repair")
    /\ drv' = [drv EXCEPT ![d].pc = IF At(d, "backfill") THEN "backfillWrite"
                                    ELSE "repairWrite",
                          ![d].buf = row]
    /\ UNCHANGED <<live, slots, reg, lock, pointers, repairs, bounds>>

WriteComposed(d) ==
    /\ At(d, "backfillWrite") \/ At(d, "repairWrite")
    /\ docs' = [docs EXCEPT ![drv[d].shadow] = Projected(@, drv[d].buf)]
    /\ others' = others \cup {drv[d].shadow}
    /\ repairs' = IF At(d, "backfillWrite") THEN 0 ELSE repairs + 1
    /\ Goto(d, IF At(d, "backfillWrite") THEN "snapshot" ELSE "orphans")
    /\ UNCHANGED <<live, built, reg, lock, pointers, bounds>>

\* verifyShadow: the shadow's ids are read before the source's.
Snapshot(d) ==
    /\ At(d, "snapshot")
    /\ drv' = [drv EXCEPT ![d].pc = "scan", ![d].orphan = docs[drv[d].shadow] # 0]
    /\ UNCHANGED <<live, slots, reg, lock, pointers, repairs, bounds>>

ScanSource(d) ==
    /\ At(d, "scan")
    /\ drv' = [drv EXCEPT ![d].pc = IF row = 0 THEN "orphans" ELSE "parity",
                          ![d].orphan = @ /\ row = 0,
                          ![d].buf = row]
    /\ UNCHANGED <<live, slots, reg, lock, pointers, repairs, bounds>>

Parity(d) ==
    /\ At(d, "parity")
    /\ Goto(d, IF docs[drv[d].shadow] < drv[d].buf THEN "repair" ELSE "orphans")
    /\ UNCHANGED <<live, slots, reg, lock, pointers, repairs, bounds>>

\* Variant: no reverse pass.
MutKeepOrphans(d) ==
    /\ At(d, "orphans")
    /\ Goto(d, "flip")
    /\ UNCHANGED <<live, slots, reg, lock, pointers, repairs, bounds>>

DeleteOrphans(d) ==
    /\ At(d, "orphans")
    /\ docs' = IF drv[d].orphan THEN [docs EXCEPT ![drv[d].shadow] = 0] ELSE docs
    /\ Goto(d, "flip")
    /\ UNCHANGED <<live, others, built, reg, lock, pointers, repairs, bounds>>

\* Variant: the flag is cleared and the pointer stays.
MutFlippedFlagOnly(r) == [r EXCEPT !.shadow = None]

\* flipSlot is a no-op when the shadow pointer is NULL.
Flipped(r) ==
    IF r.shadow = None THEN r ELSE [r EXCEPT !.active = r.shadow, !.shadow = None]

FlipSlot(d) ==
    /\ At(d, "flip")
    /\ reg' = Flipped(reg)
    /\ DriverRefresh(d, reg')
    /\ Goto(d, "end")
    /\ UNCHANGED <<live, slots, lock, asked, awaited, repairs, bounds>>

EndRebuild(d) ==
    /\ At(d, "end")
    /\ reg' = [reg EXCEPT !.status = "done", !.ver = NewDef]
    /\ StartWait(d)
    /\ Goto(d, "settle")
    /\ UNCHANGED <<live, slots, lock, cache, fresh, repairs, bounds>>

\* Variant: the release is forgotten on success.
MutSettleKeepsLock(d) ==
    /\ At(d, "settle")
    /\ WaitOver
    /\ Goto(d, "serve")
    /\ UNCHANGED <<live, slots, lock, reg, pointers, repairs, bounds>>

\* A lease after the flip the lock is released and the consumer starts.
Settle(d) ==
    /\ At(d, "settle")
    /\ WaitOver
    /\ lock' = None
    /\ Goto(d, "serve")
    /\ UNCHANGED <<live, slots, reg, pointers, repairs, bounds>>

\* The process is gone, and its cache with it.
CacheLost(d) ==
    /\ cache' = [cache EXCEPT ![d] = EmptyCache]
    /\ asked' = [asked EXCEPT ![d] = NoAnswers]
    /\ fresh' = fresh \ {d}
    /\ awaited' = awaited \ {d}

\* A failed backfill or verify discards the shadow: the flag is cleared, the
\* slot dropped, and the process exits with the error.
Fail(d) ==
    /\ drv[d].pc \in {"backfill", "backfillWrite", "snapshot", "scan", "parity",
                      "repair", "repairWrite", "orphans"}
    /\ crashes < rollout.crashes
    /\ crashes' = crashes + 1
    /\ reg' = [reg EXCEPT !.shadow = None]
    /\ Goto(d, "discard")
    /\ UNCHANGED <<live, slots, lock, pointers, repairs, fails>>

Discard(d) ==
    /\ At(d, "discard")
    /\ Drop(drv[d].shadow)
    /\ drv' = [drv EXCEPT ![d] = Off]
    /\ lock' = None
    /\ CacheLost(d)
    /\ UNCHANGED <<live, built, reg, repairs, bounds>>

\* The driving pod dies, or exits because another step returned an error: its
\* session's lock goes with it, and it boots again.
Crash(d) ==
    /\ drv[d].pc \notin {"boot", "serve"}
    /\ crashes < rollout.crashes
    /\ crashes' = crashes + 1
    /\ drv' = [drv EXCEPT ![d] = Off]
    /\ lock' = IF lock = d THEN None ELSE lock
    /\ CacheLost(d)
    /\ UNCHANGED <<live, slots, reg, repairs, fails>>

-----------------------------------------------------------------------------
Init ==
    /\ rollout \in Rollouts
    /\ row = 1
    /\ log = <<[del |-> FALSE, rev |-> 1]>>
    /\ fin = 1
    /\ parked = {}
    /\ tomb = 0
    /\ docs = [s \in Slots |-> IF s = "bare" /\ ~rollout.fresh THEN 1 ELSE 0]
    /\ others = IF rollout.fresh THEN {} ELSE {"bare"}
    /\ built = [s \in Slots |-> IF rollout.fresh THEN NewDef ELSE OldDef]
    /\ reg = [active |-> "bare", shadow |-> None, status |-> "done",
              ver |-> IF rollout.fresh THEN NoDef ELSE OldDef]
    /\ lock = None
    /\ cache = [p \in Pods |-> EmptyCache]
    /\ asked = [p \in Pods |-> NoAnswers]
    /\ fresh = Pods \ rollout.drivers
    /\ awaited = {}
    /\ job = [p \in Pods |-> Idle]
    /\ streak = [p \in Pods |-> 0]
    /\ drv = [p \in Pods |->
             IF p \in rollout.drivers THEN Off ELSE [Off EXCEPT !.pc = "serve"]]
    /\ repairs = 0
    /\ crashes = 0
    /\ fails = 0

Worker(p) ==
    \/ Stamp(p) \/ ActiveLeg(p) \/ SkipShadow(p) \/ DualApply(p)
    \/ CheckTombstone(p) \/ Reread(p) \/ RereadEnds(p)

Consumer(p) ==
    \/ Expire(p) \/ Refresh(p) \/ RefreshEnds(p) \/ RefreshFails(p)
    \/ Read(p) \/ ApplyOthers(p)
    \/ Worker(p) \/ DualApplyFails(p) \/ AttemptFails(p) \/ RereadFails(p)

Drive(d) ==
    \/ Boot(d) \/ BootEnds(d) \/ BootFails(d)
    \/ Detect(d) \/ AcquireLock(d) \/ Follow(d) \/ CreateRow(d)
    \/ TakeoverClear(d) \/ TakeoverDrop(d) \/ BeginRebuild(d) \/ DropShadow(d)
    \/ BeginSlotRebuild(d) \/ AwaitFence(d) \/ Compose(d) \/ WriteComposed(d)
    \/ Snapshot(d) \/ ScanSource(d) \/ Parity(d) \/ DeleteOrphans(d)
    \/ FlipSlot(d) \/ EndRebuild(d) \/ Settle(d) \/ Discard(d)

Next ==
    \/ Update
    \/ Delete
    \/ \E p \in Pods : Consumer(p)
    \/ \E p \in Pods : Drive(p) \/ Fail(p) \/ Crash(p)

Spec == Init /\ [][Next]_vars

\* Leases run out, registry reads end, and a driver and a worker with something
\* to do do it (a pod drives first and serves after).  Nothing has to be read.
Fairness ==
    /\ \A p \in Pods : /\ WF_vars(Expire(p))
                       /\ WF_vars(Worker(p) \/ Drive(p))
                       /\ WF_vars(RefreshEnds(p))

FairSpec == Spec /\ Fairness

-----------------------------------------------------------------------------
(* Properties.                                                             *)

\* Every variable has its type; the pods whose lease is being awaited hold a
\* cache that has not expired (awaitFenceLease), and a worker that is not idle
\* holds a logged event (consume).
TypeOK ==
    /\ row \in 0..rollout.writes
    /\ fin \in 0..Len(log)
    /\ tomb \in 0..rollout.writes
    /\ docs \in [Slots -> 0..rollout.writes]
    /\ others \subseteq Slots
    /\ reg.active \in Slots
    /\ reg.shadow \in Slots \cup {None}
    /\ lock \in Pods \cup {None}
    /\ parked \subseteq 1..fin
    /\ awaited \subseteq fresh
    /\ \A p \in Pods : job[p].pc # "idle" => job[p].ev \in 1..Len(log)

Quiescent ==
    /\ fin = Len(log)
    /\ \A p \in Pods : Serving(p) /\ job[p].pc = "idle"

\* "The active slot is never touched", for a view that exists already: while its
\* row lives, a document served by the registry's active slot does not disappear
\* and does not go back to an older revision within the slot, whatever
\* ExecuteRebuild drops or fills and wherever its driver dies.
ActiveSlotUntouched ==
    [][row # 0 /\ row' # 0 /\ ~rollout.fresh =>
          /\ docs[reg.active] # 0 => docs'[reg'.active] # 0
          /\ reg'.active = reg.active => docs'[reg.active] >= docs[reg.active]]_vars

\* Dual-apply, the activation fence, the backfill and verify together: an
\* event that has reported Done, and was not parked on the way, is in the slot
\* the registry sends readers to, at every moment, the flip included.  (A new
\* view serves nothing of its history before its first build ends.)
DoneIsServed ==
    row # 0 /\ ~rollout.fresh =>
        \A i \in (1..fin) \ parked : docs[reg.active] >= log[i].rev

\* The reverse pass of verifyShadow and the tombstone handshake: once all is
\* quiet a deleted row has no document in the active slot, provided verify
\* had nothing to repair and no event is parked.
NoOrphanWithoutRepair ==
    Quiescent /\ row = 0 /\ repairs = 0 /\ parked = {} => docs[reg.active] = 0

\* EndRebuild records the new definition only for a slot built to it: a
\* registry that says done at the new version serves a slot of that version.
RecordedIsBuilt ==
    reg.status = "done" /\ reg.ver = NewDef => built[reg.active] = NewDef

\* Once all is quiet, with no event parked, the row's current revision is
\* served, history included: what a first backfill must bring about.
ServedWhenQuiet ==
    Quiescent /\ row # 0 /\ parked = {} => docs[reg.active] = row

\* However often the driver dies or its shadow is discarded (within the bound)
\* the rebuild ends: the new definition is recorded, nobody holds the lock and
\* every pod serves.
RebuildCompletes ==
    <>[](/\ reg.status = "done" /\ reg.ver = NewDef
         /\ lock = None
         /\ \A p \in Pods : Serving(p))

=============================================================================
