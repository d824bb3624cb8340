----------------------------- MODULE MCAlikeJobs -----------------------------
(***************************************************************************)
(* Instances of SnapshotJobs in which workers and clients are model values *)
(* that may be exchanged: for runs without a liveness property.            *)
(***************************************************************************)
EXTENDS MCSnapshotJobs, TLC

CONSTANTS v1, v2, d1, d2

AlikeWorkers == {v1, v2}
AlikeClients == {d1, d2}
Alike == Permutations(AlikeWorkers) \cup Permutations(AlikeClients)
=============================================================================
