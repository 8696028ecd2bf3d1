----------------------------- MODULE MCProjection -----------------------------
(***************************************************************************)
(* Instances of Projection for TLC.                                        *)
(***************************************************************************)
EXTENDS Projection

CONSTANTS w1, w2

\* A service without the sweep, and a small one whose sweep has lost events to
\* repair.
Streaming(doa, workers, events) ==
    [deleteOnArchive |-> doa, childArchivable |-> TRUE, reconcile |-> FALSE,
     workers |-> workers, events |-> events, parks |-> 0]
Sweeping(archivable, workers, events, lost) ==
    [deleteOnArchive |-> FALSE, childArchivable |-> archivable, reconcile |-> TRUE,
     workers |-> workers, events |-> events, parks |-> lost]

StreamingOrSweeping ==
    {Streaming(doa, {w1, w2}, 4) : doa \in BOOLEAN} \cup {Sweeping(FALSE, {w1}, 3, 1)}
KeepsArchived == {Streaming(FALSE, {w1, w2}, 4)}
OneWorker == {Streaming(FALSE, {w1}, 4)}
SweepsOnly == {Sweeping(TRUE, {w1, w2}, 4, 0)}
=============================================================================
