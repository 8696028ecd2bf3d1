---------------------------- MODULE SyncConsumer ----------------------------
(***************************************************************************)
(* The consumer side of one Kafka partition: the supervised sessions of    *)
(* SyncEngine.run/consume, their worker pools, and the Kafka adapter's     *)
(* generations with their completed-prefix trackers.  Several pods share   *)
(* the consumer group; a pod whose generation was revoked keeps working on *)
(* what it holds until it notices.                                         *)
(***************************************************************************)
EXTENDS Integers, Sequences

CONSTANTS
    Pods,           \* processes of the consumer group
    Workers,        \* worker goroutines of one pod
    Keys,           \* aggregate ids
    KeyOf,          \* the aggregate of each offset
    BucketOf,       \* the worker of each aggregate
    Incomplete,     \* offsets whose message lacks its metadata headers
    QueueDepth,     \* defaultWorkerQueueDepth
    FetchBuffer,    \* fetchBuffer
    MaxOffset,      \* bound on published messages
    MaxFaults       \* bound on rebalances, crashes, stops, failed fences,
                    \* failed reads and lost commits together

ASSUME OffsetAssumption == MaxOffset \in Nat /\ MaxFaults \in Nat
ASSUME RoutingAssumption ==
    /\ KeyOf \in [1..MaxOffset -> Keys]
    /\ BucketOf \in [Keys -> Workers]
    /\ Incomplete \subseteq 1..MaxOffset
ASSUME DepthAssumption == QueueDepth \in Nat /\ FetchBuffer \in Nat

VARIABLES
    end,        \* offsets 1..end are in the partition
    committed,  \* the group's committed offset: the next one to consume
    group,      \* the coordinator's generation
    session,    \* what each pod's supervisor is doing
    gen,        \* the generation each pod's tracker belongs to
    trk,        \* genTracker and partState of that generation
    pos,        \* the offset readPartition reads next, 0 when it has ended
    batch,      \* the offset a flush has taken and not yet sent, 0 if none
    msgs,       \* the channel between readPartition and Read
    queue,      \* the worker channels
    busy,       \* the message each worker is processing
    done,       \* offsets some pod has reported Done: projected or parked
    faults

vars == <<end, committed, group, session, gen, trk, pos, batch, msgs, queue,
          busy, done, faults>>

-----------------------------------------------------------------------------

Job(g, o) == [gen |-> g, off |-> o]
NoJob == Job(0, 0)

NewTracker == [phase |-> "open", next |-> 0, started |-> FALSE,
               completed |-> {}, dirty |-> FALSE]
NoTracker == [NewTracker EXCEPT !.phase = "closed"]

NoQueues == [w \in Workers |-> <<>>]
NoJobs == [w \in Workers |-> NoJob]

\* Some pod's current generation is still running.
Owned == \E p \in Pods : gen[p] = group /\ trk[p].phase # "closed"

Fault == faults < MaxFaults /\ faults' = faults + 1

Drained(p) == queue[p] = NoQueues /\ busy[p] = NoJobs

-----------------------------------------------------------------------------
(* The broker.                                                             *)

Produce ==
    /\ end < MaxOffset
    /\ end' = end + 1
    /\ UNCHANGED <<committed, group, session, gen, trk, pos, batch, msgs,
                   queue, busy, done, faults>>

\* group.Next: the coordinator starts a generation that assigns the partition
\* to p, which begins at the committed offset.  The pod's previous generation
\* has finished closing; in a rebalance another pod's is still running.
Join(p) ==
    /\ session[p] \in {"open", "draining"}
    /\ trk[p].phase = "closed"
    /\ IF Owned THEN Fault ELSE UNCHANGED faults
    /\ group' = group + 1
    /\ gen' = [gen EXCEPT ![p] = group + 1]
    /\ trk' = [trk EXCEPT ![p] = NewTracker]
    /\ pos' = [pos EXCEPT ![p] = committed]
    /\ UNCHANGED <<end, committed, session, batch, msgs, queue, busy, done>>

\* The coordinator accepts a commit of its current generation only.
Accepted(p) == gen[p] = group

-----------------------------------------------------------------------------
(* The Kafka adapter.                                                      *)

\* Variant: the floor is one too high.
MutObserveNext(t, o) ==
    IF t.started THEN t ELSE [t EXCEPT !.next = o + 1, !.started = TRUE]

\* genTracker.observe: the first offset delivered is the commit floor.
Observe(t, o) ==
    IF t.started THEN t ELSE [t EXCEPT !.next = o, !.started = TRUE]

\* readPartition: read, observe, hand over.
Fetch(p) ==
    /\ pos[p] # 0 /\ pos[p] <= end
    /\ Len(msgs[p]) < FetchBuffer
    /\ trk' = [trk EXCEPT ![p] = Observe(@, pos[p])]
    /\ msgs' = [msgs EXCEPT ![p] = Append(@, Job(gen[p], pos[p]))]
    /\ pos' = [pos EXCEPT ![p] = @ + 1]
    /\ UNCHANGED <<end, committed, group, session, gen, batch, queue, busy, done, faults>>

\* The end n of the contiguous run of completed offsets that starts at t.next.
PrefixEnd(t, completed, n) ==
    /\ n \notin completed
    /\ \A o \in t.next..(n - 1) : o \in completed

\* Variant: a completion releases its own offset instead of the prefix.
MutCompleteHighest(p, job) ==
    LET t == trk[p]
    IN  IF job.gen # gen[p] \/ t.phase = "closed" \/ job.off < t.next
        THEN {t}
        ELSE {[t EXCEPT !.next = job.off + 1, !.dirty = TRUE]}

\* Variant: so does a late one, from below the prefix.
MutCompleteLatest(p, job) ==
    LET t == trk[p]
    IN  IF job.gen # gen[p] \/ t.phase = "closed"
        THEN {t}
        ELSE {[t EXCEPT !.next = job.off + 1, !.dirty = TRUE]}

\* genTracker.complete on the tracker of the message's own generation: dropped
\* when that generation has ended, nothing to do below the prefix.
Complete(p, job) ==
    LET t == trk[p]
        completed == t.completed \cup {job.off}
    IN  IF job.gen # gen[p] \/ t.phase = "closed" \/ job.off < t.next
        THEN {t}
        ELSE {[t EXCEPT !.next = n,
                        !.completed = {o \in completed : o >= n},
                        !.dirty = t.dirty \/ n > t.next] :
                n \in {m \in t.next..(MaxOffset + 1) : PrefixEnd(t, completed, m)}}

ReportDone(p, job) ==
    /\ \E t \in Complete(p, job) : trk' = [trk EXCEPT ![p] = t]
    /\ done' = done \cup {job.off}

\* commitLoop: flush takes the prefix under the lock, on the ticker or, last,
\* because the generation has ended.
FlushTake(p) ==
    /\ trk[p].phase \in {"open", "ending"}
    /\ trk[p].phase = "open" => trk[p].dirty
    /\ batch[p] = 0
    /\ batch' = [batch EXCEPT ![p] = IF trk[p].dirty THEN trk[p].next ELSE 0]
    /\ trk' = [trk EXCEPT ![p].dirty = FALSE,
                          ![p].phase = IF @ = "ending" THEN "flushed" ELSE @]
    /\ UNCHANGED <<end, committed, group, session, gen, pos, msgs, queue, busy, done, faults>>

\* CommitOffsets, outside the lock.
FlushSend(p) ==
    /\ batch[p] # 0
    /\ committed' = IF Accepted(p) THEN batch[p] ELSE committed
    /\ batch' = [batch EXCEPT ![p] = 0]
    /\ UNCHANGED <<end, group, session, gen, trk, pos, msgs, queue, busy, done, faults>>

\* CommitOffsets fails and its error is ignored.
FlushLost(p) ==
    /\ batch[p] # 0
    /\ Fault
    /\ batch' = [batch EXCEPT ![p] = 0]
    /\ UNCHANGED <<end, committed, group, session, gen, trk, pos, msgs, queue, busy, done>>

\* The generation's context ends: its partition was given to another pod, or
\* the subscription is being closed.
EndGeneration(p) ==
    /\ trk[p].phase = "open"
    /\ ~Accepted(p) \/ session[p] = "leaving"
    /\ trk' = [trk EXCEPT ![p].phase = "ending"]
    /\ pos' = [pos EXCEPT ![p] = 0]
    /\ UNCHANGED <<end, committed, group, session, gen, batch, msgs, queue, busy, done, faults>>

\* SetOffset or ReadMessage fails: readPartition returns, and with it the
\* generation ends although nobody revoked it.
ReaderFails(p) ==
    /\ trk[p].phase = "open"
    /\ pos[p] # 0
    /\ Fault
    /\ trk' = [trk EXCEPT ![p].phase = "ending"]
    /\ pos' = [pos EXCEPT ![p] = 0]
    /\ UNCHANGED <<end, committed, group, session, gen, batch, msgs, queue, busy, done>>

\* genTracker.close, after the final flush.
CloseTracker(p) ==
    /\ trk[p].phase = "flushed"
    /\ batch[p] = 0
    /\ trk' = [trk EXCEPT ![p].phase = "closed"]
    /\ UNCHANGED <<end, committed, group, session, gen, pos, batch, msgs, queue, busy, done, faults>>

-----------------------------------------------------------------------------
(* The session: SyncEngine.run and consume.                                *)

Session(p, s) ==
    /\ session' = [session EXCEPT ![p] = s]
    /\ UNCHANGED <<end, committed, group, gen, trk, pos, batch, queue, busy, done>>

Subscribe(p) ==
    /\ session[p] = "down"
    /\ Session(p, "open")
    /\ UNCHANGED <<msgs, faults>>

\* Variants: the reader does not wait for room; any worker will do.
MutDispatchOverflows(p) ==
    /\ session[p] = "open"
    /\ msgs[p] # <<>>
    /\ LET job == Head(msgs[p])
           w == BucketOf[KeyOf[job.off]]
       IN  /\ job.off \notin Incomplete
           /\ queue' = [queue EXCEPT ![p][w] = Append(@, job)]
    /\ msgs' = [msgs EXCEPT ![p] = Tail(@)]
    /\ UNCHANGED <<end, committed, group, session, gen, trk, pos, batch, busy, done, faults>>

MutDispatchAnywhere(p) ==
    /\ session[p] = "open"
    /\ msgs[p] # <<>>
    /\ \E w \in Workers :
          LET job == Head(msgs[p])
          IN  /\ job.off \notin Incomplete
              /\ Len(queue[p][w]) < QueueDepth
              /\ queue' = [queue EXCEPT ![p][w] = Append(@, job)]
    /\ msgs' = [msgs EXCEPT ![p] = Tail(@)]
    /\ UNCHANGED <<end, committed, group, session, gen, trk, pos, batch, busy, done, faults>>

\* Read and dispatch; a full worker channel holds the reader back.
Dispatch(p) ==
    /\ session[p] = "open"
    /\ msgs[p] # <<>>
    /\ LET job == Head(msgs[p])
           w == BucketOf[KeyOf[job.off]]
       IN  /\ job.off \notin Incomplete
           /\ Len(queue[p][w]) < QueueDepth
           /\ queue' = [queue EXCEPT ![p][w] = Append(@, job)]
    /\ msgs' = [msgs EXCEPT ![p] = Tail(@)]
    /\ UNCHANGED <<end, committed, group, session, gen, trk, pos, batch, busy, done, faults>>

\* A message without metadata is Done at once: no retry can complete it.
SkipIncomplete(p) ==
    /\ session[p] = "open"
    /\ msgs[p] # <<>>
    /\ Head(msgs[p]).off \in Incomplete
    /\ ReportDone(p, Head(msgs[p]))
    /\ msgs' = [msgs EXCEPT ![p] = Tail(@)]
    /\ UNCHANGED <<end, committed, group, session, gen, pos, batch, queue, busy, faults>>

\* Variant: the message is handed back and the session goes on.
MutFenceContinues(p) ==
    /\ session[p] = "open"
    /\ msgs[p] # <<>>
    /\ Fault
    /\ msgs' = [msgs EXCEPT ![p] = Tail(@)]
    /\ Session(p, "open")

\* EnsureFresh fails: the message just read is handed back and the session
\* ends, to be reopened by the supervisor.
FenceFails(p) ==
    /\ session[p] = "open"
    /\ msgs[p] # <<>>
    /\ Fault
    /\ msgs' = [msgs EXCEPT ![p] = Tail(@)]
    /\ Session(p, "draining")

\* The engine's context is cancelled; the next boot opens a new session.
Stop(p) ==
    /\ session[p] \in {"open", "draining"}
    /\ Fault
    /\ Session(p, "stopping")
    /\ UNCHANGED msgs

\* The deferred chain of consume: the queues are closed and drained, and only
\* then is the subscription closed.
CloseSubscription(p) ==
    /\ session[p] \in {"draining", "stopping"}
    /\ Drained(p)
    /\ Session(p, "leaving")
    /\ UNCHANGED <<msgs, faults>>

\* group.Close returns once the generation has closed; the pod leaves, and the
\* messages nobody has read are dropped with the subscription.
Leave(p) ==
    /\ session[p] = "leaving"
    /\ trk[p].phase = "closed"
    /\ msgs' = [msgs EXCEPT ![p] = <<>>]
    /\ Session(p, "down")
    /\ UNCHANGED faults

\* The process dies.
Crash(p) ==
    /\ session[p] # "down"
    /\ Fault
    /\ session' = [session EXCEPT ![p] = "down"]
    /\ gen' = [gen EXCEPT ![p] = 0]
    /\ trk' = [trk EXCEPT ![p] = NoTracker]
    /\ pos' = [pos EXCEPT ![p] = 0]
    /\ batch' = [batch EXCEPT ![p] = 0]
    /\ msgs' = [msgs EXCEPT ![p] = <<>>]
    /\ queue' = [queue EXCEPT ![p] = NoQueues]
    /\ busy' = [busy EXCEPT ![p] = NoJobs]
    /\ UNCHANGED <<end, committed, group, done>>

-----------------------------------------------------------------------------
(* The workers: processToOutcome.                                          *)

Take(p, w) ==
    /\ session[p] \in {"open", "draining"}
    /\ busy[p][w] = NoJob
    /\ queue[p][w] # <<>>
    /\ busy' = [busy EXCEPT ![p][w] = Head(queue[p][w])]
    /\ queue' = [queue EXCEPT ![p][w] = Tail(@)]
    /\ UNCHANGED <<end, committed, group, session, gen, trk, pos, batch, msgs, done, faults>>

\* An attempt succeeds, or the budget is exhausted and the event is parked:
\* either way the outcome is Done.
Finish(p, w) ==
    /\ busy[p][w] # NoJob
    /\ ReportDone(p, busy[p][w])
    /\ busy' = [busy EXCEPT ![p][w] = NoJob]
    /\ UNCHANGED <<end, committed, group, session, gen, pos, batch, msgs, queue, faults>>

\* The context ended: the event in hand, and then every queued one, is handed
\* back.
HandBack(p, w) ==
    /\ session[p] = "stopping"
    /\ IF busy[p][w] # NoJob
       THEN busy' = [busy EXCEPT ![p][w] = NoJob] /\ UNCHANGED queue
       ELSE /\ queue[p][w] # <<>>
            /\ queue' = [queue EXCEPT ![p][w] = Tail(@)]
            /\ UNCHANGED busy
    /\ UNCHANGED <<end, committed, group, session, gen, trk, pos, batch, msgs, done, faults>>

-----------------------------------------------------------------------------

Init ==
    /\ end = 0
    /\ committed = 1
    /\ group = 0
    /\ session = [p \in Pods |-> "down"]
    /\ gen = [p \in Pods |-> 0]
    /\ trk = [p \in Pods |-> NoTracker]
    /\ pos = [p \in Pods |-> 0]
    /\ batch = [p \in Pods |-> 0]
    /\ msgs = [p \in Pods |-> <<>>]
    /\ queue = [p \in Pods |-> NoQueues]
    /\ busy = [p \in Pods |-> NoJobs]
    /\ done = {}
    /\ faults = 0

CommitLoop(p) == FlushTake(p) \/ FlushSend(p) \/ CloseTracker(p)

Adapter(p) == Fetch(p) \/ EndGeneration(p) \/ CommitLoop(p)

Supervisor(p) ==
    Subscribe(p) \/ Dispatch(p) \/ SkipIncomplete(p) \/ CloseSubscription(p) \/ Leave(p)

Worker(p, w) == Take(p, w) \/ Finish(p, w) \/ HandBack(p, w)

Failure(p) ==
    FlushLost(p) \/ ReaderFails(p) \/ FenceFails(p) \/ Stop(p) \/ Crash(p)

Next ==
    \/ Produce
    \/ \E p \in Pods :
         \/ Join(p) \/ Adapter(p) \/ Supervisor(p) \/ Failure(p)
         \/ \E w \in Workers : Worker(p, w)

Spec == Init /\ [][Next]_vars

\* Goroutines, tickers and the group coordinator keep going; failures,
\* rebalances and new events are never forced.
Fairness ==
    /\ WF_vars(\E p \in Pods : ~Owned /\ Join(p))
    /\ \A p \in Pods :
         /\ WF_vars(Fetch(p)) /\ WF_vars(EndGeneration(p)) /\ WF_vars(CommitLoop(p))
         /\ WF_vars(Supervisor(p))
         /\ \A w \in Workers : WF_vars(Worker(p, w))

FairSpec == Spec /\ Fairness

-----------------------------------------------------------------------------
(* Properties.                                                             *)

Offsets == 1..MaxOffset
JobType == [gen : Nat, off : Offsets]
TrackerType ==
    [phase : {"open", "ending", "flushed", "closed"}, next : 0..(MaxOffset + 1),
     started : BOOLEAN, completed : SUBSET Offsets, dirty : BOOLEAN]

\* Every variable has its type and the channels respect their capacities
\* (defaultWorkerQueueDepth, fetchBuffer).
TypeOK ==
    /\ end \in 0..MaxOffset
    /\ committed \in 1..(MaxOffset + 1)
    /\ group \in Nat
    /\ session \in [Pods -> {"down", "open", "draining", "stopping", "leaving"}]
    /\ gen \in [Pods -> Nat]
    /\ trk \in [Pods -> TrackerType]
    /\ pos \in [Pods -> 0..(MaxOffset + 1)]
    /\ batch \in [Pods -> 0..(MaxOffset + 1)]
    /\ msgs \in [Pods -> Seq(JobType)]
    /\ queue \in [Pods -> [Workers -> Seq(JobType)]]
    /\ \A p \in Pods : Len(msgs[p]) <= FetchBuffer
    /\ \A p \in Pods, w \in Workers : Len(queue[p][w]) <= QueueDepth
    /\ busy \in [Pods -> [Workers -> JobType \cup {NoJob}]]
    /\ done \subseteq Offsets
    /\ faults \in 0..MaxFaults

\* The committed offset never covers a message nobody has processed or parked,
\* although workers complete out of order, trackers outlive their generation
\* and pods crash (genTracker: the prefix confirms only what is finished).
NothingSkipped == \A o \in 1..(committed - 1) : o \in done

\* A worker starts on an event only when every earlier event of the same
\* aggregate has been processed or parked by somebody: the delivery order the
\* projection relies on (consume: same aggregate, same worker).
KeyOrder ==
    \A p \in Pods, w \in Workers :
        busy[p][w] # NoJob =>
            \A o \in 1..(busy[p][w].off - 1) :
                KeyOf[o] = KeyOf[busy[p][w].off] => o \in done \cup Incomplete

\* Two workers of one pod never process the same aggregate at the same time.
KeySerial ==
    \A p \in Pods, v, w \in Workers :
        v # w /\ busy[p][v] # NoJob /\ busy[p][w] # NoJob =>
            KeyOf[busy[p][v].off] # KeyOf[busy[p][w].off]

\* The group's committed offset never moves back: a commit of a revoked
\* generation is refused and a generation flushes growing prefixes (flush).
CommittedMonotone == [][committed' >= committed]_vars

\* The transport's promise, with the committed offset as the group's position.
Port == INSTANCE AtLeastOnce
          WITH published <- end, finished <- done, cursor <- committed

\* The sessions, the pool and the tracker together implement the port.
ImplementsPort == Port!Spec

\* Again and again everything published is processed or parked, whatever finite
\* number of crashes, stops, rebalances and failed fences happen: a message
\* that is handed back comes back (run: the supervisor opens a new session).
EveryEventFinishes == []<>(1..end \subseteq done)
=============================================================================
