--------------------------- MODULE MCSnapshotJobs ---------------------------
(***************************************************************************)
(* Instances of SnapshotJobs for TLC.                                      *)
(***************************************************************************)
EXTENDS SnapshotJobs

OneWorker == {"w1"}
TwoWorkers == {"w1", "w2"}
OneClient == {"c1"}
OneSignature == {"s1"}
TwoSignatures == {"s1", "s2"}
=============================================================================
