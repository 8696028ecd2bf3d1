--------------------------- MODULE MCSyncConsumer ---------------------------
(***************************************************************************)
(* Instances of SyncConsumer for TLC.  Two aggregates alternate in the     *)
(* partition and have a worker each.                                       *)
(***************************************************************************)
EXTENDS SyncConsumer, TLC

CONSTANTS k1, k2, w1, w2

MCKeyOf == [o \in 1..MaxOffset |-> IF o % 2 = 1 THEN k1 ELSE k2]
MCBucketOf == k1 :> w1 @@ k2 :> w2
=============================================================================
