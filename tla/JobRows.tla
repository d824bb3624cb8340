------------------------------- MODULE JobRows -------------------------------
(***************************************************************************)
(* One row of a job table (structure_snapshot_jobs, and                    *)
(* ai_structure_context_jobs, whose columns and statements are the same)   *)
(* and what the statements of czsc_snapshot_service.py do to it.  A row is *)
(* kept for ever under its idempotency key; asking for the job again gives *)
(* the row a new job_id.                                                   *)
(*                                                                         *)
(* Left out: priority, reason and requester (they only order the claims,   *)
(* and a claim takes any row that is due), next_run_at (always the moment  *)
(* of writing, so every PENDING or FAILED_RETRYABLE row is due), and the   *)
(* status CANCELLED, which the code handles and never sets.                *)
(***************************************************************************)
EXTENDS Naturals

CONSTANTS
    Workers,        \* the worker ids
    NoWorker,       \* locked_by = ''
    MaxRetries      \* max_retries

ASSUME NoWorkerAssumption == NoWorker \notin Workers
ASSUME MaxRetriesAssumption == MaxRetries \in Nat \ {0}

Active == {"PENDING", "RUNNING", "FAILED_RETRYABLE"}
Ended == {"SUCCESS", "SKIPPED", "FAILED_FINAL"}

(* Mutant: a running job may be claimed as well.                           *)
DueOrRunning == Active

Due == {"PENDING", "FAILED_RETRYABLE"}
Statuses == Active \cup Ended \cup {"NONE"}
Holders == Workers \cup {NoWorker}

ErrorCodes ==
    { "", "TIMEOUT", "NO_DATA", "CZSC_UNAVAILABLE", "ENGINE_ERROR", "STALE_INPUT",
      "CONTEXT_ERROR" }

(* id is the job_id, new at every reset: 0 is no row.  expired stands for  *)
(* locked_at < cutoff.                                                     *)
Rows ==
    [ id : Nat, status : Statuses, retries : Nat, holder : Holders,
      expired : BOOLEAN, error : ErrorCodes ]

NoRow ==
    [ id |-> 0, status |-> "NONE", retries |-> 0, holder |-> NoWorker,
      expired |-> FALSE, error |-> "" ]

(* Mutant: the reset keeps the job id.                                     *)
RequeuedSameId(row) ==
    [NoRow EXCEPT !.id = IF row = NoRow THEN 1 ELSE row.id, !.status = "PENDING"]

(* The INSERT, and the UPDATE that makes an ended row PENDING again.       *)
Requeued(row) == [NoRow EXCEPT !.id = row.id + 1, !.status = "PENDING"]

Claimed(row, w) ==
    [row EXCEPT !.status = "RUNNING", !.holder = w, !.expired = FALSE, !.error = ""]

(* Mutant: a lost lock is not counted as an attempt.                       *)
SweptUncounted(row) ==
    [row EXCEPT !.status = "FAILED_RETRYABLE", !.holder = NoWorker, !.expired = FALSE,
                !.error = "TIMEOUT"]

(* Mutant: the first attempt is never taken back.                          *)
StaleAfterFirst(row) == row.status = "RUNNING" /\ row.expired /\ row.retries > 0

Stale(row) == row.status = "RUNNING" /\ row.expired

(* sweep_stale_snapshot_jobs, on a stale row.                              *)
Swept(row) ==
    [row EXCEPT
        !.status = IF row.retries + 1 >= MaxRetries THEN "FAILED_FINAL" ELSE "FAILED_RETRYABLE",
        !.retries = row.retries + 1,
        !.holder = NoWorker, !.expired = FALSE, !.error = "TIMEOUT"]

Completed(row) == [row EXCEPT !.status = "SUCCESS"]

(* Mutant: the verdict in words in place of its code.                      *)
SkippedInWords(row) == [row EXCEPT !.status = "SKIPPED", !.error = "stale"]

Skipped(row) == [row EXCEPT !.status = "SKIPPED", !.error = "STALE_INPUT"]

(* _fail_job, with the retry count that its SELECT has read.               *)
Failed(row, read, code, retryable) ==
    [row EXCEPT
        !.status = IF retryable /\ read + 1 < MaxRetries
                   THEN "FAILED_RETRYABLE" ELSE "FAILED_FINAL",
        !.retries = read + 1,
        !.error = code]

Recoverable(row) == row.status = "FAILED_FINAL" /\ row.error = "CZSC_UNAVAILABLE"
=============================================================================
