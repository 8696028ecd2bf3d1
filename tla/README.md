# omnicore: TLA+ models, model checks and proofs

omnicore is a Go framework for services built on DDD and CQRS.  A command writes
its aggregate, an outbox row and an audit row in one relational transaction.  The
outbox is shipped to Kafka or NATS, and every service that owns a read model
projects the events into Mongo documents.  The read side is where the hard part
is: delivery is at least once, several pods work at the same time, documents are
rebuilt while they are being served.  The project starts there.

Three models cover it:

| module | what it models | source |
|---|---|---|
| `Projection` | one document, the row it comes from, the consumers that apply its events, tombstones, the parked-event ledger, the reconciliation sweep | `infra/db/query/{sync,payload_project,projection_state,projection_failures,reconcile}.go`, `infra/db/command/write` |
| `SyncConsumer` | one Kafka partition: supervised sessions, worker pools, generations, completed-prefix commits | `infra/db/query/sync.go`, `infra/transport/kafka/kafka.go` |
| `AtLeastOnce` | the abstract promise of the transport port; `SyncConsumer` implements it | `infra/transport/transport.go` |
| `Rebuild` | the blue-green rebuild of one view: registry, lock, slots, cached pointers, dual-apply, backfill, verify, flip | `infra/db/query/{rebuild,verify,resolver,view_registry,drift}.go`, `sync.go` |
| `SyncConsumerProofs`, `ProjectionProofs` | TLAPS proofs | |
| `MC...` | small instances for TLC | |

`PROJECT.json` maps each definition to the lines it models, lists every part of
the system with its status, and lists the hazards with the property that covers
each one.

## How the parts fit

The order in which `Projection` receives events is an assumption of that model:
the next undone event of the aggregate, or any earlier one again.  `SyncConsumer`
is the model that discharges it: `KeyOrder` says that a worker starts on an event
only when every earlier event of the same aggregate has been finished by somebody,
and redeliveries and zombies (workers of a revoked generation that have not
noticed yet) are what its crashes and rebalances produce.  `Rebuild` takes one
document's guarded write and guarded delete, as `Projection` defines them, to the
level of "the larger revision wins", and adds slots and pointers around them.

### Projection

State: the row (`row`, with children), a hard delete in progress (`del`), the
outbox (`log`), the document, the tombstone, the transport's position (`fin`), the
pending ledger row, what each worker is doing and what the sweep is doing.  A value
is represented by the revision of the write that produced it, which is what the
guards compare.

Every access of the store is a step of its own.  A worker on an upsert goes
`project` (`applyProjection`, one atomic pipeline of Mongo: `Project`), `check`
(`checkTombstone` reads) and, if the tombstone covers its write, `purge` (the
guarded delete at the tombstone it has read).  On a delete it goes `stamp`, then
`remove`.  `Abandon` is an attempt without an outcome, `Park` the exhausted retry
budget, `Replay`/`Resolve` the ledger driver.  The sweep has five steps: page,
compare (twice), compose root, read children, write.

`service` is fixed in the initial state: the view's declaration (whether archiving
deletes the document, whether children can be archived), whether the sweep is
enabled, the workers, and the bounds on writes and parked events; the constant
`Services` lists the ones an instance considers.  The view is rooted at an entity
with own children and has no embeds.  A hard delete reads the row's revision in a
statement of its own; by then the row may have been archived since the aggregate
was loaded, which `DeleteRead` allows.

### SyncConsumer

One partition and several pods of the group.  `Join` is the coordinator's new
generation.  `Fetch`, `FlushTake`, `FlushSend`, `EndGeneration`, `CloseTracker` are
the goroutines of the Kafka adapter; `ReaderFails` is a `SetOffset` or `ReadMessage`
that fails and ends the generation, after which the same pod may join again with the
old generation's messages still in its queues; `Dispatch`, `SkipIncomplete`, `FenceFails`,
`CloseSubscription`, `Leave` the read loop and its deferred chain; `Take`,
`Finish`, `HandBack` a worker.  A flush takes the prefix under the lock and sends
it after, in two steps, with anything in between.  Coordinator and broker are
external: a commit is accepted from the current generation only.

### Rebuild

One document, three slots (the bare collection, slot 0, slot 1) and a flag per slot
for all other rows.  `rollout`, fixed in the initial state, says which pods boot with
the new definition, whether the view is new, and the bounds.

A pod's cache of the pointers can be stale.  `Refresh` is two steps, as in the code:
the registry is queried (`RegistryRead`, the answer waits in `asked`) and later the
cache is swapped and stamped (`CacheSwap`); the read loop and a worker between two
attempts each have one of their own.  `fresh` is the set of pods whose cache is
younger than the lease and `awaited` those a driver must still outwait, so the lease
is modelled without a clock: `AwaitFence` waits until every cache from before has
expired or been re-read.  An answer obtained before the wait began and not yet
swapped in is marked `late`: the code's wait does not know of it, a wait with a margin
(`FenceMargin`) does.

A worker applies an event to the active slot and then to the shadow.  A failed
attempt is retried after the pointers have been re-read, and the event is parked and
reported Done when `ProcessRetries` is spent (`AttemptFailed`); `parked` remembers it.
`AbortThreshold` failures to reach the shadow in a row abandon the rebuild, if that
registry write succeeds.  Parked events are not replayed here (`Projection` has the
ledger), so the properties about served documents are stated for the others.

A driver goes through boot, drift detection, lock, takeover, drop, flag, fence,
backfill, snapshot, scan, parity, repair, orphans, flip, end and settle, and can crash
anywhere in between; its boot may fail to read the pointers and then goes on with an
empty cache (`BootFails`).

## Runs

| run | question | states |
|---|---|---|
| `Projection_core` | Two workers, redelivery, zombies and a given-up attempt, with and without delete-on-archive; and a third service with the sweep, a parked event and a ledger that may lose it: does the document converge, is it always one committed write, is a zombie always cleared, is nothing removed that no removal is due for, does the document keep catching up, and does the sweep repair a live document and never harm it? | 437,636 |
| `SyncConsumer_core` | Two pods, a fault of any kind: is nothing skipped, is the order per aggregate kept, is every event finished in the end, is the port implemented? | 344,068 |
| `Rebuild_core` | One driver and one serving pod, with three writes, or a driver crash or failed rebuild, or two failed attempts or registry reads; and two pods that boot a view with no registry row: is everything done and not parked also served, is the active slot left alone, is the backfill complete when all is quiet, does the rebuild end? | 241,297 |

Nine more runs check a property that a comment of the code claims and the code
does not keep; TLC's counterexample is the answer.

| run | what happens |
|---|---|
| `Projection_reconcile_resurrects` | The sweep composes a row, the row is deleted and its document removed, the sweep writes it back. No tombstone is consulted (`verify.go:170`), and the document is there for good (`DeletedIsGone`). |
| `Projection_delete_race` | `hardDelete` reads the revision without a lock; an update commits in between; the DELETED event is older than the update's and loses (`aggregate_write.go:229`). |
| `Projection_abort` | A zombie stops between its upsert and its check, after the delete has passed (`projection_state.go:137`). |
| `Rebuild_straddle` | A refresh between the two legs of one event makes it miss the slot that becomes active (`sync.go:874`). |
| `Rebuild_fence` | A pod queries the registry before the flag is set and swaps its cache after the fence wait has begun; its old pointers pass for young ones when the wait ends, and its next event misses the slot that becomes active (`resolver.go:248`, `rebuild.go:337`). |
| `Rebuild_boot` | The driver dies between the flip and `EndRebuild`; its next boot cannot read the pointers, takes the bare collection for active, and drops the live slot 0 as its shadow (`bootstrap.go:176`, `rebuild.go:90`). |
| `Rebuild_abandon` | Shadow failures clear the flag, the flip does nothing, the new hashes are recorded over the old slot (`rebuild.go:273`). |
| `Rebuild_two_drivers` | The slot to build is chosen before the lock; another driver's flip made it the live one, and it is dropped (`rebuild.go:89`). |
| `Rebuild_fresh_crash` | The hashes of a new view are recorded before the backfill; after a crash no drift is seen (`rebuild.go:147`). |

The passing runs leave out the conditions the violations show to matter, and a few
more that keep the instances small:

| excluded | by | in |
|---|---|---|
| a write inside a delete's transaction | `SerialWrites` | `Projection_core` |
| a worker that stops between write and check | `AbortAfterWrite = FALSE` | `Projection_core` |
| the sweep, and parked events, for `Converges`, `ZombieCovered` and `EventuallyConverges` | `Streamed` | the properties |
| a deleted row, for convergence beside the sweep | `row.live` in `RepairConverges` | the property |
| reused ids | `MaxLives = 1` | `Projection_core` |
| a refresh between the two legs of an event | `PinnedPointers` | `Rebuild_core` |
| a registry read that straddles the start of a lease wait unnoticed | `FenceMargin` | `Rebuild_core` |
| a boot that cannot read its pointers after a flip; before any flip it may fail | `EarlyBootFails` | `Rebuild_core` |
| as many shadow failures in a row as abandon the rebuild | `fails` below `AbortThreshold` | `Rebuild_core` |
| events that were parked, for what is served | `parked` | `DoneIsServed`, `ServedWhenQuiet`, `NoOrphanWithoutRepair` |
| a verify that had something to repair, for orphans | `repairs = 0` | `NoOrphanWithoutRepair` |
| two drivers of an existing view; a new view, for what is served meanwhile | the rollouts; `~rollout.fresh` | `Rebuild_core`; `DoneIsServed`, `ActiveSlotUntouched` |
| a crash, and failures, on a new view | the rollouts | `Rebuild_core` |

With these limits `RecordedIsBuilt` of `Rebuild_core` cannot meet an abandoned rebuild;
`Rebuild_abandon` is the run that does.

### Disagreements that have no run

Met while modelling, and reproducible by changing the constants named:

- **Reused ids.** With `MaxLives = 2` `Converges` fails: revisions restart at 1 and
  only the delete compares the birth instant, so events of two incarnations with
  equal revisions are not told apart (`payload_project.go:199`).
- **Parked insert overtaken.** With a service that parks an event and has no sweep,
  and `LossyLedger = FALSE`, `Quiescent => Converged` fails (`Converges` asks for
  `Streamed`): a parked INSERTED is overtaken by an UPDATED; its replay is then too old to apply, so the document keeps neither the
  birth instant nor the children only the insert carried (`sync.go:589`).
- **Resolve by natural key.** A replay resolves whatever ledger row is pending,
  also the one a newer parked event has written meanwhile (`sync.go:693`, `633`).
- **Delete-on-archive.** After unarchive the document is recreated from the event's
  own payload, without the birth instant and the children it does not touch. That is
  why `Converged` compares those two only for views that keep archived documents.
- **Orphan after a repair.** A verify that repairs a row deleted meanwhile leaves
  its document (`verify.go:21`); `NoOrphanWithoutRepair` excludes it.
- **Idle pods.** A pod that reads no message never refreshes its pointers, so after
  the settle wait it may still serve the retired slot (`rebuild.go:297`).

### Bounds, and why they are enough

`Projection_core` has four events: insert, update or archive, unarchive or delete,
and one more, which is what an overtaking event and its zombie need; two workers
are the delete and its zombie, or two zombies.  Its service with the sweep has one
worker, the sweep being the second actor, three events and one of them parked.
`SyncConsumer_core` has four offsets over two aggregates, so each aggregate has a predecessor and the prefix can
have a hole; offset 4 lacks its headers; channels hold one message, so both can be
full; one fault (rebalance, crash, stop, failed fence, failed read or lost commit) at
any point; a failed read is also how a pod meets messages of its own past generation.
`Rebuild_core` needs one pod with a stale cache and one driver.  Its rollouts are three
writes without faults, two writes and a crash or failed rebuild in any phase with the
second attempt, two writes and two failures, which with `ProcessRetries = 2` is a parked
event below `AbortThreshold = 3` as 5 is below 20 in the code, and two pods that boot a
new view.  Three writes with a crash and two failures together were explored for the
safety properties only (4.9 million states).  No symmetry reduction is used,
since the runs check liveness.

Deadlock checking is off for `SyncConsumer` and `Rebuild`, where the bounded system
may stop once all events are written and processed; that it stops nowhere else is
what `EveryEventFinishes` and `RebuildCompletes` check.  `Projection` is checked for
deadlock.

### Fairness

- `Projection`: a worker that holds an event goes on with it (weak fairness: a
  goroutine in a loop); the next event is delivered if workers keep becoming free
  (strong fairness on the choice of a worker: the queue is FIFO and redeliveries end
  when the generation's backlog does); the sweep is a ticker.  Writes, faults,
  redeliveries and replays are never forced.
- `SyncConsumer`: goroutines, tickers and the coordinator's assignment of an
  unowned partition.  Faults are never forced.
- `Rebuild`: leases run out, registry reads that were started end, drivers and workers
  go on.  Nothing has to be read, and an idle pod's refresh is not assumed, since the
  code has none.

## Proofs

All proofs hold for any values of the constants that satisfy the named assumptions
(`ServiceAssumption`, `FlagAssumption`, `BoundAssumption`; `OffsetAssumption`, `RoutingAssumption`,
`DepthAssumption`): bounds are natural numbers, routing is a function.

`SyncConsumerProofs`

- `TypeCorrect`: the types, with the capacity of every channel.  `LogInv` states
  them relative to what has been published so far: nothing in flight, tracked or
  committed lies beyond the end of the partition.
- `CommitsOnlyFinished` (`NothingSkipped`): `PrefixInv` says that everything below a
  tracker's prefix, a batch taken and not yet sent, and the committed offset is
  done.  `NothingSkipped` alone is not inductive, because a batch outlives the lock
  it was taken under.
- `CommitNeverMovesBack` (`CommittedMonotone`): `GenInv` says that in the current
  generation the prefix and the batch are not behind the committed offset.  An old
  generation's batch may be, and the coordinator refuses it.
- `Implementation` (`ImplementsPort`): with those invariants each step is a step of
  `AtLeastOnce` or changes nothing it can see.

`ProjectionProofs`

- `TypeCorrect`: `RowInv` bounds the row's revision by the length of the log.
- `WatermarkNeverRegresses` (`WatermarkMonotone`): for every value of the flags.  Only
  two pipelines write the document and two guarded deletes remove it (`DocStep`).
- `OnlyDueRemovals` (`RemovalIsDue`): for every value of the flags, reused ids included.
  A purge removes at the tombstone its worker read some steps ago, so the invariant
  `RemovalInv` follows tombstones from the stamp to the worker's hand: each is the stamp
  of a committed removal, and only a worker with a removal event stamps or removes.
- `DocIsOneWrite` (`DocIsCommitted`), for ids that are not reused
  (`MaxLives <= 1`): the row's own revision is the newest of the log, a worker that
  projects holds no delete, the sweep carries a committed row (`CommittedInv`).
- `ZombiesAreCovered` (`ZombieCovered`): ids not reused, no attempt given up between
  write and check, and a service without sweep and parked events (`Streamed`, which the
  property itself asks for); the race of update and delete is allowed.  `ZombieCovered` counts a worker about to remove the document,
  which may give up, so it is not inductive.  `Cover` counts instead the undone
  delete event it holds; `Discipline` supplies that a delete reported done has left
  its stamp, so a second delivery of it cannot raise the tombstone.

Model-checked only: liveness (out of the prover's reach), `Converges`,
`RepairConverges`, `KeyOrder`, `KeySerial`, and everything about `Rebuild`.

## What is not modelled

- **Time.** Leases are modelled by their guarantee; the one-day expiry of
  tombstones is not, the tombstone lasts.
- **Views without an own root, embeds and shared bases**; mirrors of other services'
  aggregates.
- **Gaps in a partition.** Offsets are consecutive; compaction and transaction
  markers are not in use for the outbox topics.
- **The full decision table of drift detection**: `Rebuild` has the rows for a
  source that is not empty.
- Stateless or pure I/O code (query building, SQL dialects, the web layer's routing
  and binding, tracing, clients of caches and channels) has no state to check.
- Command-side code apart from the writes `Projection` uses, the integration event
  consumers, HTTP client and resilience, token issuer, migrations, the boot lifecycle
  and the domain's aggregates: see the plan.

## Plan

Done: the read side's core, in the order `Projection`, `SyncConsumer` with
`AtLeastOnce`, `Rebuild`, and the proofs above.

Next, one module each:

1. `SharedBase`: a base entity shared by several views, with its stamp, probe and
   pull; abstract specification: the embedded base equals the last committed one.
2. `NatsSubscription`: settle, redelivery and Close; it should implement
   `AtLeastOnce` as `SyncConsumer` does.
3. `Ripple`: the embed ripple and the upstream subscriber, composed with the pointer
   cache of `Rebuild`, for replay and sweep on stale pointers.
4. `Drift`: the complete decision table against a reference definition.
5. `Integration`: consumer pool, inbox and dead letters.
6. `WriteSide`: unit of work, optimistic concurrency, soft and hard delete cascades.
7. `Resilience`: circuit breaker, retry and limiter of the HTTP client, token cache.
8. Token issuer, migrations, boot lifecycle, domain aggregates.

Proofs next: `KeyOrder` and `KeySerial`; `ActiveSlotUntouched` and `RecordedIsBuilt`
of `Rebuild`; the scalar part of `Converges`.
