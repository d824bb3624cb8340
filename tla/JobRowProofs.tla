---------------------------- MODULE JobRowProofs ----------------------------
(***************************************************************************)
(* What the statements of JobRows make of a row: the lemmas that the       *)
(* proofs about snapshot jobs and about context jobs share.                *)
(***************************************************************************)
EXTENDS JobRows, TLAPS

(* The words of a row.                                                     *)
LEMMA Words ==
  /\ Active \subseteq Statuses /\ Ended \subseteq Statuses /\ "NONE" \in Statuses
  /\ {"PENDING", "RUNNING", "FAILED_RETRYABLE", "FAILED_FINAL", "SUCCESS", "SKIPPED"}
        \subseteq Statuses
  /\ {"", "TIMEOUT", "STALE_INPUT", "NO_DATA", "CZSC_UNAVAILABLE", "ENGINE_ERROR"}
        \subseteq ErrorCodes
  /\ NoWorker \in Holders /\ Workers \subseteq Holders
  BY DEF Statuses, Active, Ended, ErrorCodes, Holders

LEMMA NoRowIsRow == NoRow \in Rows /\ NoRow.status = "NONE"
  BY Words DEF NoRow, Rows

(* Of the statements on a row only the completion makes it a success.      *)
LEMMA RequeuedRow ==
  ASSUME NEW row \in Rows
  PROVE  Requeued(row) \in Rows /\ Requeued(row).status # "SUCCESS"
<1> DEFINE next == row.id + 1
<1>1. next \in Nat
  BY DEF Rows
<1> HIDE DEF next
<1> QED
  BY <1>1, NoRowIsRow, Words DEF Requeued, Rows, next

LEMMA ClaimedRow ==
  ASSUME NEW row \in Rows, NEW w \in Workers
  PROVE  Claimed(row, w) \in Rows /\ Claimed(row, w).status # "SUCCESS"
  BY Words DEF Claimed, Rows

LEMMA SweptRow ==
  ASSUME NEW row \in Rows
  PROVE  Swept(row) \in Rows /\ Swept(row).status # "SUCCESS"
<1> DEFINE next == row.retries + 1
           status == IF row.retries + 1 >= MaxRetries THEN "FAILED_FINAL" ELSE "FAILED_RETRYABLE"
<1>1. next \in Nat
  BY DEF Rows
<1>2. status \in Statuses /\ status # "SUCCESS"
  BY Words
<1>3. Swept(row) = [row EXCEPT !.status = status, !.retries = next,
                        !.holder = NoWorker, !.expired = FALSE, !.error = "TIMEOUT"]
  BY DEF Swept
<1> HIDE DEF next, status
<1> QED
  BY <1>1, <1>2, <1>3, Words DEF Rows

LEMMA CompletedRow ==
  ASSUME NEW row \in Rows
  PROVE  Completed(row) \in Rows
  BY Words DEF Completed, Rows

LEMMA SkippedRow ==
  ASSUME NEW row \in Rows
  PROVE  Skipped(row) \in Rows /\ Skipped(row).status # "SUCCESS"
  BY Words DEF Skipped, Rows

LEMMA FailedRow ==
  ASSUME NEW row \in Rows, NEW read \in Nat, NEW code \in ErrorCodes, NEW retryable \in BOOLEAN
  PROVE  /\ Failed(row, read, code, retryable) \in Rows
         /\ Failed(row, read, code, retryable).status # "SUCCESS"
<1> DEFINE next == read + 1
           status == IF retryable /\ read + 1 < MaxRetries
                     THEN "FAILED_RETRYABLE" ELSE "FAILED_FINAL"
<1>1. next \in Nat
  OBVIOUS
<1>2. status \in Statuses /\ status # "SUCCESS"
  BY Words
<1>3. Failed(row, read, code, retryable) =
        [row EXCEPT !.status = status, !.retries = next, !.error = code]
  BY DEF Failed
<1> HIDE DEF next, status
<1> QED
  BY <1>1, <1>2, <1>3 DEF Rows

LEMMA ExpiredRow ==
  ASSUME NEW row \in Rows
  PROVE  [row EXCEPT !.expired = TRUE] \in Rows
         /\ [row EXCEPT !.expired = TRUE].status = row.status
  BY DEF Rows
=============================================================================
