------------------------- MODULE SyncConsumerProofs -------------------------
(***************************************************************************)
(* Proofs about SyncConsumer, for any number of pods, workers, aggregates, *)
(* offsets and faults.                                                     *)
(***************************************************************************)
EXTENDS SyncConsumer, SequenceTheorems, TLAPS

-----------------------------------------------------------------------------
(* The type invariant, relative to what has been published so far: nothing *)
(* in flight, tracked or committed lies beyond the end of the partition.   *)

Jobs(n) == [gen : Nat, off : 1..n]

Trackers(n) ==
    [phase : {"open", "ending", "flushed", "closed"}, next : 0..(n + 1),
     started : BOOLEAN, completed : SUBSET (1..n), dirty : BOOLEAN]

BrokerInv ==
    /\ end \in 0..MaxOffset
    /\ committed \in 1..(end + 1)
    /\ group \in Nat
    /\ done \subseteq 1..end
    /\ faults \in 0..MaxFaults

AdapterInv ==
    /\ gen \in [Pods -> Nat]
    /\ trk \in [Pods -> Trackers(end)]
    /\ pos \in [Pods -> 0..(end + 1)]
    /\ batch \in [Pods -> 0..(end + 1)]

ChannelInv ==
    /\ session \in [Pods -> {"down", "open", "draining", "stopping", "leaving"}]
    /\ msgs \in [Pods -> Seq(Jobs(end))]
    /\ queue \in [Pods -> [Workers -> Seq(Jobs(end))]]
    /\ \A p \in Pods : Len(msgs[p]) <= FetchBuffer
    /\ \A p \in Pods, w \in Workers : Len(queue[p][w]) <= QueueDepth
    /\ busy \in [Pods -> [Workers -> Jobs(end) \cup {NoJob}]]

LogInv == BrokerInv /\ AdapterInv /\ ChannelInv

\* A sequence of jobs stays one when the partition grows.
LEMMA SeqJobsMono ==
    ASSUME NEW m \in Nat, NEW n \in Nat, m <= n, NEW s \in Seq(Jobs(m))
    PROVE  s \in Seq(Jobs(n))
  <1>1. Jobs(m) \subseteq Jobs(n)
    BY DEF Jobs
  <1>2. QED
    BY <1>1, SeqMonotonic

\* Taking a job from a channel.
LEMMA PopJobs ==
    ASSUME NEW n, NEW s \in Seq(Jobs(n)), s # <<>>
    PROVE  /\ Head(s) \in Jobs(n)
           /\ Tail(s) \in Seq(Jobs(n))
           /\ Len(Tail(s)) <= Len(s)
  BY HeadTailProperties, LenProperties

\* Putting a job into a channel.
LEMMA PushJobs ==
    ASSUME NEW n, NEW s \in Seq(Jobs(n)), NEW job \in Jobs(n)
    PROVE  /\ Append(s, job) \in Seq(Jobs(n))
           /\ Len(Append(s, job)) = Len(s) + 1
           /\ Len(s) \in Nat
  BY LenProperties, AppendProperties

\* Trackers, field by field.
LEMMA TrackerFields ==
    ASSUME NEW n \in Nat, NEW t \in Trackers(n)
    PROVE  /\ t.next \in 0..(n + 1)
           /\ t.started \in BOOLEAN
           /\ t.completed \in SUBSET (1..n)
           /\ t.dirty \in BOOLEAN
  BY DEF Trackers

\* commitLoop and close move a tracker through its phases.
LEMMA TrackerPhase ==
    ASSUME NEW n \in Nat, NEW t \in Trackers(n),
           NEW ph \in {"open", "ending", "flushed", "closed"}
    PROVE  [t EXCEPT !.phase = ph] \in Trackers(n)
  BY DEF Trackers

\* A generation starts with a well-formed tracker.
LEMMA NewTrackerType ==
    ASSUME NEW n \in Nat
    PROVE  NewTracker \in Trackers(n) /\ NoTracker \in Trackers(n)
<1>1. NewTracker \in Trackers(n)
  BY DEF Trackers, NewTracker
<1>2. QED
  BY Zenon, <1>1, TrackerPhase DEF NoTracker

\* flush clears the dirty flag.
LEMMA TrackerFlushed ==
    ASSUME NEW n \in Nat, NEW t \in Trackers(n)
    PROVE  [t EXCEPT !.dirty = FALSE,
                     !.phase = IF @ = "ending" THEN "flushed" ELSE @] \in Trackers(n)
  BY Zenon DEF Trackers

\* complete moves the prefix.
LEMMA TrackerAdvanced ==
    ASSUME NEW n \in Nat, NEW t \in Trackers(n), NEW m \in 0..(n + 1),
           NEW c \in SUBSET (1..n), NEW d \in BOOLEAN
    PROVE  [t EXCEPT !.next = m, !.completed = c, !.dirty = d] \in Trackers(n)
  BY Zenon DEF Trackers

\* observe sets the floor.
LEMMA TrackerObserved ==
    ASSUME NEW n \in Nat, NEW t \in Trackers(n), NEW o \in 0..(n + 1)
    PROVE  Observe(t, o) \in Trackers(n)
  BY Zenon DEF Observe, Trackers

\* The partition model starts within its types.
LEMMA LogInvInit == Init => LogInv
<1> SUFFICES ASSUME Init
             PROVE  LogInv
  OBVIOUS
<1>1. BrokerInv
  BY OffsetAssumption DEF Init, BrokerInv
<1>2. NoTracker \in Trackers(end)
  BY <1>1, NewTrackerType DEF BrokerInv
<1>3. AdapterInv
  BY <1>2 DEF Init, AdapterInv
<1>4. ChannelInv
  <2>1. NoQueues \in [Workers -> Seq(Jobs(end))] /\ \A w \in Workers : Len(NoQueues[w]) = 0
    BY DEF NoQueues
  <2>2. NoJobs \in [Workers -> Jobs(end) \cup {NoJob}]
    BY DEF NoJobs
  <2>3. QED
    BY <2>1, <2>2, DepthAssumption DEF Init, ChannelInv
<1>5. QED
  BY <1>1, <1>3, <1>4 DEF LogInv

\* Completing a job leaves a tracker, which has not gone back.
LEMMA CompleteType ==
    ASSUME LogInv, NEW p \in Pods, NEW job \in Jobs(end), NEW t \in Complete(p, job)
    PROVE  t \in Trackers(end) /\ t.next >= trk[p].next
<1>1. trk[p] \in Trackers(end) /\ end \in Nat /\ job.off \in 1..end
  BY OffsetAssumption DEF LogInv, BrokerInv, AdapterInv, Jobs
<1>2. CASE t = trk[p]
  BY <1>1, <1>2, TrackerFields
<1>3. CASE t # trk[p]
  <2> DEFINE completed == trk[p].completed \cup {job.off}
  <2>1. PICK n \in trk[p].next..(MaxOffset + 1) :
          /\ PrefixEnd(trk[p], completed, n)
          /\ t = [trk[p] EXCEPT !.next = n,
                                !.completed = {o \in completed : o >= n},
                                !.dirty = trk[p].dirty \/ n > trk[p].next]
    BY Zenon, <1>3 DEF Complete
  <2>2. completed \in SUBSET (1..end) /\ trk[p].next \in 0..(end + 1) /\ n \in Nat
    BY <1>1, TrackerFields, OffsetAssumption
  <2>3. n <= end + 1
    <3>1. CASE n = trk[p].next
      BY <3>1, <2>2
    <3>2. CASE n > trk[p].next
      <4>1. n - 1 \in trk[p].next..(n - 1)
        BY <3>2, <2>2
      <4>2. n - 1 \in completed
        BY <4>1, <2>1 DEF PrefixEnd
      <4>3. QED
        BY <4>2, <1>1, <2>2
    <3>3. QED
      BY <3>1, <3>2, <2>2
  <2>4. QED
    <3>1. {o \in completed : o >= n} \in SUBSET (1..end) /\ n \in 0..(end + 1)
      BY <1>1, <2>2, <2>3
    <3>2. (trk[p].dirty \/ n > trk[p].next) \in BOOLEAN
      BY <1>1, TrackerFields
    <3>3. t \in Trackers(end)
      BY Zenon, <1>1, <2>1, <3>1, <3>2, TrackerAdvanced
    <3>4. t.next = n
      BY <1>1, <2>1 DEF Trackers
    <3>5. QED
      BY <2>1, <2>2, <3>3, <3>4
<1>4. QED
  BY <1>2, <1>3

\* Every step of the broker, of a pod or of a worker keeps the types.
LEMMA LogInvNext == LogInv /\ [Next]_vars => LogInv'
<1> SUFFICES ASSUME LogInv, [Next]_vars
             PROVE  LogInv'
  OBVIOUS
<1> USE OffsetAssumption, DepthAssumption
<1>a. end \in Nat /\ \A p \in Pods : trk[p] \in Trackers(end)
  BY DEF LogInv, BrokerInv, AdapterInv
<1>b. /\ \A p \in Pods : msgs[p] \in Seq(Jobs(end))
      /\ \A p \in Pods, w \in Workers : queue[p][w] \in Seq(Jobs(end))
  BY DEF LogInv, ChannelInv
<1>1. CASE Produce
  <2>1. \A s : s \in Seq(Jobs(end)) => s \in Seq(Jobs(end + 1))
    BY <1>a, SeqJobsMono
  <2>2. Jobs(end) \subseteq Jobs(end + 1) /\ Trackers(end) \subseteq Trackers(end + 1)
    BY <1>a DEF Jobs, Trackers
  <2>3. BrokerInv' /\ AdapterInv'
    BY <1>1, <2>2 DEF Produce, LogInv, BrokerInv, AdapterInv
  <2>4. ChannelInv'
    BY <1>1, <2>1, <2>2 DEF Produce, LogInv, BrokerInv, ChannelInv
  <2>5. QED
    BY <2>3, <2>4 DEF LogInv
<1>2. ASSUME NEW p \in Pods, Join(p) \/ Adapter(p)
      PROVE  LogInv'
  <2>1. CASE Join(p)
    <3>1. BrokerInv' /\ ChannelInv'
      BY <2>1 DEF LogInv, BrokerInv, ChannelInv, Join, Fault
    <3>2. AdapterInv'
      BY <2>1, <1>a, NewTrackerType DEF LogInv, BrokerInv, AdapterInv, Join
    <3>3. QED
      BY <3>1, <3>2 DEF LogInv
  <2>2. CASE Fetch(p)
    <3>1. pos[p] \in 1..end /\ gen[p] \in Nat
      BY <2>2 DEF Fetch, LogInv, BrokerInv, AdapterInv
    <3>2. Job(gen[p], pos[p]) \in Jobs(end)
      BY <3>1 DEF Job, Jobs
    <3>3. AdapterInv'
      <4>1. Observe(trk[p], pos[p]) \in Trackers(end)
        BY <3>1, <1>a, TrackerObserved
      <4>2. QED
        BY <2>2, <3>1, <4>1, <1>a DEF LogInv, AdapterInv, Fetch
    <3>4. BrokerInv' /\ ChannelInv'
      <4>1. /\ Append(msgs[p], Job(gen[p], pos[p])) \in Seq(Jobs(end))
            /\ Len(Append(msgs[p], Job(gen[p], pos[p]))) = Len(msgs[p]) + 1
        BY <3>2, <1>b, PushJobs
      <4>2. QED
        BY <2>2, <4>1, <1>b DEF LogInv, BrokerInv, ChannelInv, Fetch
    <3>5. QED
      BY <3>3, <3>4 DEF LogInv
  <2>3. CASE FlushTake(p)
    <3>1. trk[p].next \in 0..(end + 1)
      BY <1>a, TrackerFields
    <3>2. AdapterInv'
      BY Zenon, <2>3, <3>1, <1>a, TrackerFlushed DEF LogInv, AdapterInv, FlushTake
    <3>3. QED
      BY <2>3, <3>2 DEF LogInv, BrokerInv, ChannelInv, FlushTake
  <2>4. CASE FlushSend(p)
    BY <2>4 DEF LogInv, BrokerInv, AdapterInv, ChannelInv, FlushSend
  <2>5. CASE EndGeneration(p)
    <3>1. [trk[p] EXCEPT !.phase = "ending"] \in Trackers(end)
      BY Zenon, <1>a, TrackerPhase
    <3>2. AdapterInv'
      BY <2>5, <3>1, <1>a DEF LogInv, AdapterInv, EndGeneration
    <3>3. QED
      BY <2>5, <3>2 DEF LogInv, BrokerInv, ChannelInv, EndGeneration
  <2>6. CASE CloseTracker(p)
    <3>1. AdapterInv'
      BY Zenon, <2>6, <1>a, TrackerPhase DEF LogInv, AdapterInv, CloseTracker
    <3>2. QED
      BY <2>6, <3>1 DEF LogInv, BrokerInv, ChannelInv, CloseTracker
  <2>7. QED
    BY <1>2, <2>1, <2>2, <2>3, <2>4, <2>5, <2>6 DEF Adapter, CommitLoop
<1>3. ASSUME NEW p \in Pods, Supervisor(p) \/ Failure(p)
      PROVE  LogInv'
  <2>1. CASE Subscribe(p) \/ CloseSubscription(p)
    BY Zenon, <2>1 DEF LogInv, BrokerInv, AdapterInv, ChannelInv, Subscribe, CloseSubscription, Session
  <2>2. CASE Stop(p)
    BY <2>2 DEF LogInv, BrokerInv, AdapterInv, ChannelInv, Stop, Session, Fault
  <2>3. CASE Leave(p)
    BY <2>3 DEF LogInv, BrokerInv, AdapterInv, ChannelInv, Leave, Session
  <2>4. CASE FlushLost(p)
    BY <2>4 DEF LogInv, BrokerInv, AdapterInv, ChannelInv, FlushLost, Fault
  <2>5. CASE FenceFails(p)
    <3>1. Tail(msgs[p]) \in Seq(Jobs(end)) /\ Len(Tail(msgs[p])) <= Len(msgs[p])
      BY <2>5, <1>b, PopJobs DEF FenceFails
    <3>2. QED
      BY <2>5, <3>1, <1>b DEF LogInv, BrokerInv, AdapterInv, ChannelInv, FenceFails, Session, Fault
  <2>6. CASE Crash(p)
    <3>1. BrokerInv' /\ AdapterInv'
      BY <2>6, <1>a, NewTrackerType DEF LogInv, BrokerInv, AdapterInv, Crash, Fault
    <3>2. NoQueues \in [Workers -> Seq(Jobs(end))] /\ \A w \in Workers : Len(NoQueues[w]) = 0
      BY DEF NoQueues
    <3>3. NoJobs \in [Workers -> Jobs(end) \cup {NoJob}]
      BY DEF NoJobs
    <3>4. ChannelInv'
      BY <2>6, <3>2, <3>3 DEF LogInv, ChannelInv, Crash
    <3>5. QED
      BY <3>1, <3>4 DEF LogInv
  <2>7. CASE Dispatch(p)
    <3>1. /\ Head(msgs[p]) \in Jobs(end)
          /\ Tail(msgs[p]) \in Seq(Jobs(end)) /\ Len(Tail(msgs[p])) <= Len(msgs[p])
      BY Zenon, <2>7, <1>b, PopJobs DEF Dispatch
    <3> DEFINE job == Head(msgs[p])
               w == BucketOf[KeyOf[job.off]]
    <3>2. w \in Workers
      BY <3>1, RoutingAssumption DEF Jobs, LogInv, BrokerInv
    <3>3. /\ Append(queue[p][w], job) \in Seq(Jobs(end))
          /\ Len(Append(queue[p][w], job)) = Len(queue[p][w]) + 1
      BY <3>1, <3>2, <1>b, PushJobs
    <3>4. /\ queue' = [queue EXCEPT ![p][w] = Append(@, job)]
          /\ msgs' = [msgs EXCEPT ![p] = Tail(@)]
          /\ Len(queue[p][w]) < QueueDepth
          /\ UNCHANGED <<session, busy, end>>
      BY Zenon, <2>7 DEF Dispatch
    <3>5. ChannelInv'
      <4> HIDE DEF job, w
      <4>1. QED
        BY <3>1, <3>2, <3>3, <3>4, <1>b, LenProperties DEF LogInv, ChannelInv
    <3>6. QED
      BY Zenon, <2>7, <3>5 DEF LogInv, BrokerInv, AdapterInv, Dispatch
  <2>8. CASE SkipIncomplete(p)
    <3>1. /\ Head(msgs[p]) \in Jobs(end)
          /\ Tail(msgs[p]) \in Seq(Jobs(end)) /\ Len(Tail(msgs[p])) <= Len(msgs[p])
      BY <2>8, <1>b, PopJobs DEF SkipIncomplete
    <3>2. BrokerInv' /\ AdapterInv'
      BY Zenon, <2>8, <3>1, CompleteType
      DEF LogInv, BrokerInv, AdapterInv, SkipIncomplete, ReportDone, Jobs
    <3>3. ChannelInv'
      BY <2>8, <3>1, <1>b DEF LogInv, ChannelInv, SkipIncomplete
    <3>4. QED
      BY <3>2, <3>3 DEF LogInv
  <2>9. CASE ReaderFails(p)
    <3>1. [trk[p] EXCEPT !.phase = "ending"] \in Trackers(end)
      BY Zenon, <1>a, TrackerPhase
    <3>2. AdapterInv'
      BY <2>9, <3>1, <1>a DEF LogInv, AdapterInv, ReaderFails
    <3>3. QED
      BY <2>9, <3>2 DEF LogInv, BrokerInv, ChannelInv, ReaderFails, Fault
  <2>10. QED
    BY <1>3, <2>1, <2>2, <2>3, <2>4, <2>5, <2>6, <2>7, <2>8, <2>9 DEF Supervisor, Failure
<1>4. ASSUME NEW p \in Pods, NEW w \in Workers, Worker(p, w)
      PROVE  LogInv'
  <2>1. CASE Take(p, w)
    <3>1. /\ Head(queue[p][w]) \in Jobs(end)
          /\ Tail(queue[p][w]) \in Seq(Jobs(end))
          /\ Len(Tail(queue[p][w])) <= Len(queue[p][w])
      BY <2>1, <1>b, PopJobs DEF Take
    <3>2. ChannelInv'
      BY <2>1, <3>1, <1>b, LenProperties DEF LogInv, ChannelInv, Take
    <3>3. QED
      BY <2>1, <3>2 DEF LogInv, BrokerInv, AdapterInv, Take
  <2>2. CASE Finish(p, w)
    <3>1. busy[p][w] \in Jobs(end)
      BY <2>2 DEF Finish, LogInv, ChannelInv
    <3>2. BrokerInv' /\ AdapterInv'
      BY <2>2, <3>1, CompleteType
      DEF LogInv, BrokerInv, AdapterInv, Finish, ReportDone, Jobs
    <3>3. ChannelInv'
      BY <2>2 DEF LogInv, ChannelInv, Finish
    <3>4. QED
      BY <3>2, <3>3 DEF LogInv
  <2>3. CASE HandBack(p, w)
    <3>1. queue[p][w] # <<>> => /\ Tail(queue[p][w]) \in Seq(Jobs(end))
                                /\ Len(Tail(queue[p][w])) <= Len(queue[p][w])
      BY <1>b, PopJobs
    <3>2. ChannelInv'
      <4>1. CASE busy[p][w] # NoJob
        <5>1. busy' = [busy EXCEPT ![p][w] = NoJob] /\ UNCHANGED <<queue, session, msgs, end>>
          BY <2>3, <4>1 DEF HandBack
        <5>2. QED
          BY <5>1 DEF LogInv, ChannelInv
      <4>2. CASE busy[p][w] = NoJob
        <5>1. /\ queue[p][w] # <<>> /\ queue' = [queue EXCEPT ![p][w] = Tail(@)]
              /\ UNCHANGED <<busy, session, msgs, end>>
          BY <2>3, <4>2 DEF HandBack
        <5>2. QED
          BY <3>1, <5>1, <1>b, LenProperties DEF LogInv, ChannelInv
      <4>3. QED
        BY <4>1, <4>2
    <3>3. QED
      BY <2>3, <3>2 DEF LogInv, BrokerInv, AdapterInv, HandBack
  <2>4. QED
    BY <1>4, <2>1, <2>2, <2>3 DEF Worker
<1>5. CASE UNCHANGED vars
  BY <1>5 DEF vars, LogInv, BrokerInv, AdapterInv, ChannelInv
<1>6. QED
  BY <1>1, <1>2, <1>3, <1>4, <1>5 DEF Next
\* TypeOK: every variable has its type and no channel exceeds its capacity.
THEOREM TypeCorrect == Spec => []TypeOK
<1>1. LogInv => TypeOK
  <2> SUFFICES ASSUME LogInv
               PROVE  TypeOK
    OBVIOUS
  <2>1. end \in Nat /\ end <= MaxOffset
    BY OffsetAssumption DEF LogInv, BrokerInv
  <2>2. \A s : s \in Seq(Jobs(end)) => s \in Seq(JobType)
    <3>1. Jobs(end) \subseteq JobType
      BY <2>1, OffsetAssumption DEF Jobs, JobType, Offsets
    <3>2. QED
      BY <3>1, SeqMonotonic
  <2>3. Jobs(end) \subseteq JobType /\ Trackers(end) \subseteq TrackerType
    BY <2>1, OffsetAssumption DEF Jobs, JobType, Trackers, TrackerType, Offsets
  <2>4. QED
    BY <2>1, <2>2, <2>3, OffsetAssumption
    DEF LogInv, BrokerInv, AdapterInv, ChannelInv, TypeOK, Offsets
<1>2. QED
  BY <1>1, LogInvInit, LogInvNext, PTL DEF Spec

-----------------------------------------------------------------------------
(* Nothing is skipped.  The committed offset comes from a batch, the batch *)
(* from a tracker's prefix, and the prefix from the offset the generation  *)
(* started at, which is the committed offset again: each of them has only  *)
(* finished offsets below it.                                              *)

DoneBelow(n) == \A o \in 1..(n - 1) : o \in done

PrefixInv ==
    /\ DoneBelow(committed)
    /\ \A p \in Pods :
         /\ DoneBelow(batch[p])
         /\ DoneBelow(trk[p].next)
         /\ trk[p].completed \subseteq done
         /\ ~trk[p].started => DoneBelow(pos[p])

\* At the start nothing is tracked.
LEMMA PrefixInvInit == Init => PrefixInv
  BY DEF Init, PrefixInv, DoneBelow, NoTracker, NewTracker

\* Reporting an offset extends a tracker's prefix by finished offsets only.
LEMMA CompletePrefix ==
    ASSUME LogInv, PrefixInv, NEW p \in Pods, NEW job \in Jobs(end),
           NEW t \in Complete(p, job)
    PROVE  /\ \A o \in 1..(t.next - 1) : o \in done \cup {job.off}
           /\ t.completed \subseteq done \cup {job.off}
           /\ ~t.started => ~trk[p].started
<1>1. trk[p] \in Trackers(end) /\ end \in Nat
  BY OffsetAssumption DEF LogInv, BrokerInv, AdapterInv
<1>2. trk[p].completed \subseteq done /\ DoneBelow(trk[p].next)
  BY DEF PrefixInv
<1>3. CASE t = trk[p]
  BY <1>2, <1>3 DEF DoneBelow
<1>4. CASE t # trk[p]
  <2> DEFINE completed == trk[p].completed \cup {job.off}
  <2>1. PICK n \in trk[p].next..(MaxOffset + 1) :
          /\ PrefixEnd(trk[p], completed, n)
          /\ t = [trk[p] EXCEPT !.next = n,
                                !.completed = {o \in completed : o >= n},
                                !.dirty = trk[p].dirty \/ n > trk[p].next]
    BY Zenon, <1>4 DEF Complete
  <2>2. /\ t.next = n
        /\ t.completed \subseteq completed
        /\ t.started = trk[p].started
    BY <1>1, <2>1 DEF Trackers
  <2>3. n \in Int /\ trk[p].next \in Nat
    BY <1>1, <2>1, TrackerFields, OffsetAssumption
  <2>4. ASSUME NEW o \in 1..(n - 1)
        PROVE  o \in done \cup {job.off}
    <3>1. CASE o < trk[p].next
      BY <3>1, <1>2, <2>3 DEF DoneBelow
    <3>2. CASE o >= trk[p].next
      BY <3>2, <1>2, <2>1, <2>3 DEF PrefixEnd
    <3>3. QED
      BY <3>1, <3>2, <2>3
  <2>5. QED
    BY <1>2, <2>2, <2>4
<1>5. QED
  BY <1>3, <1>4

\* Every step keeps only finished offsets below every cursor.
LEMMA PrefixInvNext == LogInv /\ PrefixInv /\ [Next]_vars => PrefixInv'
<1> SUFFICES ASSUME LogInv, PrefixInv, [Next]_vars
             PROVE  PrefixInv'
  OBVIOUS
<1>a. \A p \in Pods : trk[p] \in Trackers(end)
  BY DEF LogInv, AdapterInv
<1>b. gen \in [Pods -> Nat] /\ trk \in [Pods -> Trackers(end)]
      /\ pos \in [Pods -> 0..(end + 1)] /\ batch \in [Pods -> 0..(end + 1)]
  BY DEF LogInv, AdapterInv
<1>1. CASE UNCHANGED <<committed, batch, trk, pos, done>>
  BY <1>1 DEF PrefixInv, DoneBelow
<1>2. ASSUME NEW p \in Pods, Join(p) \/ Adapter(p) \/ FlushLost(p) \/ ReaderFails(p) \/ Crash(p)
      PROVE  PrefixInv'
  <2>1. CASE Join(p)
    BY <2>1, <1>b DEF Join, PrefixInv, DoneBelow, NewTracker
  <2>2. CASE Fetch(p)
    <3>1. CASE trk[p].started
      BY <2>2, <3>1, <1>b DEF Fetch, Observe, PrefixInv, DoneBelow
    <3>2. CASE ~trk[p].started
      <4>1. /\ trk' = [trk EXCEPT ![p] = [trk[p] EXCEPT !.next = pos[p], !.started = TRUE]]
            /\ pos' = [pos EXCEPT ![p] = pos[p] + 1]
            /\ UNCHANGED <<committed, batch, done>>
        BY <2>2, <3>2 DEF Fetch, Observe
      <4>2. /\ trk'[p].next = pos[p] /\ trk'[p].started = TRUE
            /\ trk'[p].completed = trk[p].completed
            /\ \A q \in Pods \ {p} : trk'[q] = trk[q] /\ pos'[q] = pos[q]
        BY <4>1, <1>a, <1>b DEF Trackers
      <4>3. QED
        BY <3>2, <4>1, <4>2 DEF PrefixInv, DoneBelow
    <3>3. QED
      BY <3>1, <3>2
  <2>3. CASE FlushTake(p)
    <3>1. /\ \A q \in Pods : /\ trk'[q].next = trk[q].next
                             /\ trk'[q].completed = trk[q].completed
                             /\ trk'[q].started = trk[q].started
          /\ batch'[p] \in {0, trk[p].next} /\ \A q \in Pods \ {p} : batch'[q] = batch[q]
          /\ UNCHANGED <<committed, pos, done>>
      BY <2>3, <1>a, <1>b DEF FlushTake, Trackers
    <3>2. QED
      BY <3>1 DEF PrefixInv, DoneBelow
  <2>4. CASE FlushSend(p) \/ FlushLost(p)
    BY <2>4, <1>b DEF FlushSend, FlushLost, PrefixInv, DoneBelow
  <2>5. CASE EndGeneration(p) \/ ReaderFails(p) \/ CloseTracker(p)
    <3>1. /\ \A q \in Pods : /\ trk'[q].next = trk[q].next
                             /\ trk'[q].completed = trk[q].completed
                             /\ trk'[q].started = trk[q].started
                             /\ pos'[q] \in {0, pos[q]}
          /\ UNCHANGED <<committed, batch, done>>
      BY <2>5, <1>a, <1>b DEF EndGeneration, ReaderFails, CloseTracker, Trackers
    <3>2. QED
      BY <3>1 DEF PrefixInv, DoneBelow
  <2>6. CASE Crash(p)
    BY <2>6, <1>b DEF Crash, PrefixInv, DoneBelow, NoTracker, NewTracker
  <2>7. QED
    BY <1>2, <2>1, <2>2, <2>3, <2>4, <2>5, <2>6 DEF Adapter, CommitLoop
<1>3. ASSUME NEW p \in Pods, NEW job \in Jobs(end), ReportDone(p, job),
             UNCHANGED <<committed, pos, batch>>
      PROVE  PrefixInv'
  <2>1. PICK t \in Complete(p, job) : trk' = [trk EXCEPT ![p] = t]
    BY Zenon, <1>3 DEF ReportDone
  <2>2. done' = done \cup {job.off}
    BY <1>3 DEF ReportDone
  <2>3. /\ \A o \in 1..(t.next - 1) : o \in done'
        /\ t.completed \subseteq done'
        /\ ~t.started => ~trk[p].started
    BY <2>2, CompletePrefix
  <2>4. trk'[p] = t /\ \A q \in Pods \ {p} : trk'[q] = trk[q]
    BY <2>1, <1>b
  <2>5. QED
    BY <1>3, <2>2, <2>3, <2>4 DEF PrefixInv, DoneBelow
<1>4. ASSUME NEW p \in Pods, SkipIncomplete(p)
      PROVE  PrefixInv'
  <2>1. Head(msgs[p]) \in Jobs(end)
    BY <1>4, PopJobs DEF SkipIncomplete, LogInv, ChannelInv
  <2>2. QED
    BY <1>4, <2>1, <1>3 DEF SkipIncomplete
<1>5. ASSUME NEW p \in Pods, NEW w \in Workers, Finish(p, w)
      PROVE  PrefixInv'
  <2>1. busy[p][w] \in Jobs(end)
    BY <1>5 DEF Finish, LogInv, ChannelInv
  <2>2. QED
    BY <1>5, <2>1, <1>3 DEF Finish
<1>6. QED
  BY Zenon, <1>1, <1>2, <1>4, <1>5
  DEF Next, vars, Produce, Supervisor, Failure, Worker, Subscribe, Dispatch, CloseSubscription,
      Leave, FenceFails, Stop, Session, Take, HandBack

\* NothingSkipped: the group's committed offset covers processed or parked
\* messages only (genTracker).
THEOREM CommitsOnlyFinished == Spec => []NothingSkipped
<1>1. PrefixInv => NothingSkipped
  BY DEF PrefixInv, DoneBelow, NothingSkipped
<1>2. QED
  BY <1>1, LogInvInit, LogInvNext, PrefixInvInit, PrefixInvNext, PTL DEF Spec

-----------------------------------------------------------------------------
(* The committed offset never moves back.  A generation belongs to one pod *)
(* and, as long as it is the coordinator's, its cursors are not below the  *)
(* committed offset: it started there and nobody else can have moved it.   *)

Ahead(p) ==
    /\ batch[p] # 0 => batch[p] >= committed
    /\ trk[p].started => trk[p].next >= committed
    /\ pos[p] # 0 /\ ~trk[p].started => pos[p] >= committed

GenInv ==
    /\ \A p, q \in Pods : gen[p] = gen[q] /\ gen[p] # 0 => p = q
    /\ \A p \in Pods :
         /\ gen[p] <= group
         /\ gen[p] = 0 => batch[p] = 0 /\ pos[p] = 0 /\ ~trk[p].started
         /\ ~trk[p].started => trk[p].next = 0
         /\ batch[p] <= trk[p].next
         /\ trk[p].phase = "closed" => batch[p] = 0
         /\ gen[p] = group => Ahead(p)

\* At the start no pod has a generation.
LEMMA GenInvInit == Init => GenInv
  BY DEF Init, GenInv, Ahead, NoTracker, NewTracker

\* Reporting an offset neither starts a tracker nor moves it back.
LEMMA CompleteGen ==
    ASSUME LogInv, NEW p \in Pods, NEW job \in Jobs(end), NEW t \in Complete(p, job)
    PROVE  /\ t.started = trk[p].started /\ t.phase = trk[p].phase
           /\ trk[p].next = 0 => t.next = 0
<1>1. trk[p] \in Trackers(end) /\ end \in Nat /\ job.off \in 1..end
  BY OffsetAssumption DEF LogInv, BrokerInv, AdapterInv, Jobs
<1>2. CASE t = trk[p]
  BY <1>2
<1>3. CASE t # trk[p]
  <2> DEFINE completed == trk[p].completed \cup {job.off}
  <2>1. PICK n \in trk[p].next..(MaxOffset + 1) :
          /\ PrefixEnd(trk[p], completed, n)
          /\ t = [trk[p] EXCEPT !.next = n,
                                !.completed = {o \in completed : o >= n},
                                !.dirty = trk[p].dirty \/ n > trk[p].next]
    BY Zenon, <1>3 DEF Complete
  <2>2. t.next = n /\ t.started = trk[p].started /\ t.phase = trk[p].phase
    BY <1>1, <2>1 DEF Trackers
  <2>3. 0 \notin completed
    BY <1>1, TrackerFields
  <2>4. trk[p].next = 0 => n = 0
    <3>1. ASSUME trk[p].next = 0, n # 0
          PROVE  FALSE
      <4>1. 0 \in trk[p].next..(n - 1)
        BY <3>1, <2>1, OffsetAssumption
      <4>2. QED
        BY <4>1, <2>1, <2>3 DEF PrefixEnd
    <3>2. QED
      BY <3>1
  <2>5. QED
    BY <2>2, <2>4
<1>4. QED
  BY <1>2, <1>3

\* Every step keeps the current generation's cursors ahead of the commit.
LEMMA GenInvNext == LogInv /\ GenInv /\ [Next]_vars => GenInv'
<1> SUFFICES ASSUME LogInv, GenInv, [Next]_vars
             PROVE  GenInv'
  OBVIOUS
<1> USE DEF Ahead
<1>a. /\ end \in Nat /\ committed \in 1..(end + 1) /\ group \in Nat
      /\ gen \in [Pods -> Nat] /\ trk \in [Pods -> Trackers(end)]
      /\ pos \in [Pods -> 0..(end + 1)] /\ batch \in [Pods -> 0..(end + 1)]
  BY OffsetAssumption DEF LogInv, BrokerInv, AdapterInv
<1>b. \A p \in Pods : trk[p] \in Trackers(end) /\ trk[p].next \in Nat /\ gen[p] \in Nat
                      /\ pos[p] \in Nat /\ batch[p] \in Nat
  BY <1>a, TrackerFields
<1>1. CASE UNCHANGED <<committed, group, gen, batch, trk, pos>>
  BY <1>1 DEF GenInv
<1>2. ASSUME NEW p \in Pods, Join(p) \/ Adapter(p) \/ FlushLost(p) \/ ReaderFails(p) \/ Crash(p)
      PROVE  GenInv'
  <2>1. CASE Join(p)
    <3>1. /\ trk'[p] = NewTracker /\ gen'[p] = group + 1 /\ pos'[p] = committed
          /\ batch[p] = 0
          /\ \A q \in Pods \ {p} : trk'[q] = trk[q] /\ gen'[q] = gen[q] /\ pos'[q] = pos[q]
          /\ group' = group + 1 /\ UNCHANGED <<committed, batch>>
      BY <2>1, <1>a DEF Join, GenInv
    <3>2. \A q \in Pods \ {p} : gen'[q] # group'
      BY <3>1, <1>a, <1>b DEF GenInv
    <3>3. QED
      BY <3>1, <3>2, <1>a, <1>b DEF GenInv, NewTracker
  <2>2. CASE Fetch(p)
    <3>1. /\ \A q \in Pods \ {p} : trk'[q] = trk[q] /\ pos'[q] = pos[q]
          /\ pos'[p] = pos[p] + 1 /\ pos[p] # 0
          /\ trk'[p].phase = trk[p].phase
          /\ trk'[p].started = TRUE
          /\ trk'[p].next = IF trk[p].started THEN trk[p].next ELSE pos[p]
          /\ UNCHANGED <<committed, group, gen, batch>>
      BY <2>2, <1>a, <1>b DEF Fetch, Observe, Trackers
    <3>2. QED
      BY <3>1, <1>a, <1>b DEF GenInv
  <2>3. CASE FlushTake(p)
    <3>1. /\ \A q \in Pods : trk'[q].next = trk[q].next /\ trk'[q].started = trk[q].started
          /\ \A q \in Pods \ {p} : trk'[q].phase = trk[q].phase
          /\ trk'[p].phase # "closed"
          /\ batch'[p] \in {0, trk[p].next} /\ \A q \in Pods \ {p} : batch'[q] = batch[q]
          /\ UNCHANGED <<committed, group, gen, pos>>
      BY <2>3, <1>a, <1>b DEF FlushTake, Trackers
    <3>2. QED
      BY <3>1, <1>a, <1>b DEF GenInv
  <2>4. CASE FlushSend(p)
    <3>1. /\ batch[p] # 0
          /\ committed' = IF gen[p] = group THEN batch[p] ELSE committed
          /\ batch'[p] = 0 /\ \A q \in Pods \ {p} : batch'[q] = batch[q]
          /\ UNCHANGED <<group, gen, trk, pos>>
      BY <2>4, <1>a DEF FlushSend, Accepted
    <3>2. gen[p] = group => \A q \in Pods \ {p} : gen[q] # group
      BY <3>1 DEF GenInv
    <3>3. QED
      BY <3>1, <3>2, <1>a, <1>b DEF GenInv
  <2>5. CASE FlushLost(p)
    BY <2>5, <1>a, <1>b DEF FlushLost, GenInv
  <2>6. CASE EndGeneration(p) \/ ReaderFails(p) \/ CloseTracker(p)
    <3>1. /\ \A q \in Pods : /\ trk'[q].next = trk[q].next
                             /\ trk'[q].started = trk[q].started
                             /\ pos'[q] \in {0, pos[q]}
          /\ \A q \in Pods \ {p} : trk'[q].phase = trk[q].phase
          /\ trk'[p].phase = "closed" => batch[p] = 0
          /\ UNCHANGED <<committed, group, gen, batch>>
      BY <2>6, <1>a, <1>b DEF EndGeneration, ReaderFails, CloseTracker, Trackers
    <3>2. QED
      BY <3>1, <1>a, <1>b DEF GenInv
  <2>7. CASE Crash(p)
    <3>1. /\ trk'[p] = NoTracker /\ gen'[p] = 0 /\ pos'[p] = 0 /\ batch'[p] = 0
          /\ \A q \in Pods \ {p} : /\ trk'[q] = trk[q] /\ gen'[q] = gen[q]
                                    /\ pos'[q] = pos[q] /\ batch'[q] = batch[q]
          /\ UNCHANGED <<committed, group>>
      BY <2>7, <1>a DEF Crash
    <3>2. NoTracker.started = FALSE /\ NoTracker.next = 0
      BY DEF NoTracker, NewTracker
    <3>3. QED
      BY <3>1, <3>2, <1>a, <1>b DEF GenInv
  <2>8. QED
    BY <1>2, <2>1, <2>2, <2>3, <2>4, <2>5, <2>6, <2>7 DEF Adapter, CommitLoop
<1>3. ASSUME NEW p \in Pods, NEW job \in Jobs(end), ReportDone(p, job),
             UNCHANGED <<committed, group, gen, pos, batch>>
      PROVE  GenInv'
  <2>1. PICK t \in Complete(p, job) : trk' = [trk EXCEPT ![p] = t]
    BY Zenon, <1>3 DEF ReportDone
  <2>2. /\ t.next \in Nat /\ t.next >= trk[p].next
        /\ t.started = trk[p].started /\ t.phase = trk[p].phase
        /\ trk[p].next = 0 => t.next = 0
    BY CompleteType, CompleteGen, TrackerFields, <1>a
  <2>3. trk'[p] = t /\ \A q \in Pods \ {p} : trk'[q] = trk[q]
    BY <2>1, <1>a
  <2>4. QED
    BY <1>3, <2>2, <2>3, <1>a, <1>b DEF GenInv
<1>4. ASSUME NEW p \in Pods, SkipIncomplete(p)
      PROVE  GenInv'
  <2>1. Head(msgs[p]) \in Jobs(end)
    BY <1>4, PopJobs DEF SkipIncomplete, LogInv, ChannelInv
  <2>2. QED
    BY <1>4, <2>1, <1>3 DEF SkipIncomplete
<1>5. ASSUME NEW p \in Pods, NEW w \in Workers, Finish(p, w)
      PROVE  GenInv'
  <2>1. busy[p][w] \in Jobs(end)
    BY <1>5 DEF Finish, LogInv, ChannelInv
  <2>2. QED
    BY <1>5, <2>1, <1>3 DEF Finish
<1>6. QED
  BY Zenon, <1>1, <1>2, <1>4, <1>5
  DEF Next, vars, Produce, Supervisor, Failure, Worker, Subscribe, Dispatch, CloseSubscription,
      Leave, FenceFails, Stop, Session, Take, HandBack

\* The steps that touch the partition, the commit or the outcomes.
LEMMA VisibleStep ==
    ASSUME [Next]_vars
    PROVE  \/ UNCHANGED <<end, committed, done>>
           \/ Produce
           \/ \E p \in Pods : FlushSend(p) \/ SkipIncomplete(p)
           \/ \E p \in Pods, w \in Workers : Finish(p, w)
<1>1. CASE UNCHANGED vars
  BY <1>1 DEF vars
<1>2. ASSUME NEW p \in Pods, Join(p) \/ Adapter(p) \/ Failure(p)
      PROVE  UNCHANGED <<end, committed, done>> \/ FlushSend(p)
  BY <1>2 DEF Join, Adapter, CommitLoop, Fetch, FlushTake, EndGeneration, CloseTracker,
              Failure, FlushLost, ReaderFails, FenceFails, Stop, Crash, Session
<1>3. ASSUME NEW p \in Pods, Supervisor(p)
      PROVE  UNCHANGED <<end, committed, done>> \/ SkipIncomplete(p)
  BY Zenon, <1>3 DEF Supervisor, Subscribe, Dispatch, CloseSubscription, Leave, Session
<1>4. ASSUME NEW p \in Pods, NEW w \in Workers, Worker(p, w)
      PROVE  UNCHANGED <<end, committed, done>> \/ Finish(p, w)
  BY <1>4 DEF Worker, Take, HandBack
<1>5. QED
  BY <1>1, <1>2, <1>3, <1>4 DEF Next

\* A step that changes the committed offset is an accepted flush, and the
\* batch it sends lies ahead.
LEMMA CommitStep ==
    ASSUME LogInv, GenInv, [Next]_vars, committed' # committed
    PROVE  \E p \in Pods : /\ batch[p] # 0 /\ committed' = batch[p]
                           /\ batch[p] > committed
                           /\ UNCHANGED <<end, done>>
<1>1. PICK p \in Pods : FlushSend(p)
  BY VisibleStep DEF Produce, SkipIncomplete, Finish
<1>2. batch[p] # 0 /\ committed' = batch[p] /\ gen[p] = group /\ UNCHANGED <<end, done>>
  BY <1>1 DEF FlushSend, Accepted
<1>3. batch[p] >= committed /\ batch[p] \in Nat /\ committed \in Nat
  BY <1>2, OffsetAssumption DEF GenInv, Ahead, LogInv, BrokerInv, AdapterInv
<1>4. QED
  BY <1>2, <1>3

\* CommittedMonotone: a commit of a revoked generation is refused, and a
\* generation that is current never commits less than is committed (flush).
THEOREM CommitNeverMovesBack == Spec => CommittedMonotone
<1>1. LogInv /\ GenInv /\ [Next]_vars => [committed' >= committed]_vars
  <2> SUFFICES ASSUME LogInv, GenInv, [Next]_vars
               PROVE  committed' >= committed
    OBVIOUS
  <2>1. committed \in Nat /\ \A p \in Pods : batch[p] \in Nat
    BY OffsetAssumption DEF LogInv, BrokerInv, AdapterInv
  <2>2. QED
    BY <2>1, CommitStep
<1>2. QED
  BY <1>1, LogInvInit, LogInvNext, GenInvInit, GenInvNext, PTL DEF Spec, CommittedMonotone

-----------------------------------------------------------------------------
(* The port.                                                               *)

\* A step that reports an outcome reports it of one published offset.
LEMMA DoneStep ==
    ASSUME LogInv, [Next]_vars, done' # done
    PROVE  \E o \in 1..end : done' = done \cup {o} /\ UNCHANGED <<end, committed>>
<1>1. CASE \E p \in Pods : SkipIncomplete(p)
  <2>1. PICK p \in Pods : SkipIncomplete(p)
    BY <1>1
  <2>2. Head(msgs[p]) \in Jobs(end)
    BY <2>1, PopJobs DEF SkipIncomplete, LogInv, ChannelInv
  <2>3. QED
    BY <2>1, <2>2 DEF SkipIncomplete, ReportDone, Jobs
<1>2. CASE \E p \in Pods, w \in Workers : Finish(p, w)
  <2>1. PICK p \in Pods, w \in Workers : Finish(p, w)
    BY <1>2
  <2>2. busy[p][w] \in Jobs(end)
    BY <2>1 DEF Finish, LogInv, ChannelInv
  <2>3. QED
    BY <2>1, <2>2 DEF Finish, ReportDone, Jobs
<1>3. QED
  BY <1>1, <1>2, VisibleStep DEF Produce, FlushSend

\* A step that publishes does nothing else to the partition.
LEMMA PublishStep ==
    ASSUME [Next]_vars, end' # end
    PROVE  end < MaxOffset /\ end' = end + 1 /\ UNCHANGED <<done, committed>>
  BY VisibleStep DEF Produce, FlushSend, SkipIncomplete, Finish

\* ImplementsPort: sessions, worker pool and tracker together keep the promise
\* of transport.Completion, step by step.
THEOREM Implementation == Spec => ImplementsPort
<1>1. Init => Port!Init
  BY DEF Init, Port!Init
<1>2. LogInv /\ LogInv' /\ PrefixInv /\ GenInv /\ [Next]_vars => [Port!Next]_(Port!vars)
  <2> SUFFICES ASSUME LogInv, LogInv', PrefixInv, GenInv, [Next]_vars
               PROVE  [Port!Next]_(Port!vars)
    OBVIOUS
  <2>1. end \in Nat /\ committed \in 1..(end + 1) /\ done \subseteq 1..end
    BY OffsetAssumption DEF LogInv, BrokerInv
  <2>2. CASE end' # end
    BY <2>2, PublishStep DEF Port!Next, Port!Publish
  <2>3. CASE done' # done
    <3>1. PICK o \in 1..end : done' = done \cup {o} /\ UNCHANGED <<end, committed>>
      BY <2>3, DoneStep
    <3>2. o \in committed..end \/ o \in done
      BY <2>1 DEF PrefixInv, DoneBelow
    <3>3. QED
      BY <3>1, <3>2 DEF Port!Next, Port!Finish
  <2>4. CASE committed' # committed
    <3>1. PICK p \in Pods : /\ batch[p] # 0 /\ committed' = batch[p]
                            /\ batch[p] > committed
                            /\ UNCHANGED <<end, done>>
      BY <2>4, CommitStep
    <3>2. batch[p] \in committed..(end + 1) /\ committed..(batch[p] - 1) \subseteq done
      BY <2>1, <3>1 DEF LogInv, AdapterInv, PrefixInv, DoneBelow
    <3>3. QED
      BY <3>1, <3>2 DEF Port!Next, Port!Advance
  <2>5. CASE UNCHANGED <<end, done, committed>>
    BY <2>5 DEF Port!vars
  <2>6. QED
    BY <2>2, <2>3, <2>4, <2>5
<1>3. QED
  BY <1>1, <1>2, LogInvInit, LogInvNext, PrefixInvInit, PrefixInvNext, GenInvInit, GenInvNext,
     PTL
  DEF Spec, ImplementsPort, Port!Spec

=============================================================================
