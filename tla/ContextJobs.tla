----------------------------- MODULE ContextJobs -----------------------------
(***************************************************************************)
(* From CZSC snapshots to AI contexts, for one user and one symbol:        *)
(*   - the bars of each level, whose signature changes, and the snapshots  *)
(*     that the jobs of SnapshotJobs leave for them;                       *)
(*   - the pages that ensure and regenerate, and the context job that      *)
(*     every new set of snapshots asks for;                                *)
(*   - the workers of ai_structure_context_worker.py, which build the      *)
(*     context with two calls of a language model between their            *)
(*     transactions, in processes that may stop.                           *)
(* A snapshot is named by the signature of its bars.  A context job is     *)
(* named by the set of snapshots that it reads, one for each level at      *)
(* most.  The request of a page is one step (the rows it reads could only  *)
(* change before it writes them as in SnapshotJobs).                       *)
(***************************************************************************)
EXTENDS JobRows, ReasoningRuns, FiniteSets, Sequences, SequencesExt, Subsequences

CONSTANTS
    Versions,       \* level -> the signatures that its bars may have
    NoBars,         \* no bars are stored
    AutoEnqueue,    \* AI_STRUCTURE_CONTEXT_AUTO_ENQUEUE_ENABLED
    Overruns,       \* a context may take longer than the lock, or the clocks of
                    \* the lock and of its cutoff are in different zones
    Recent,         \* how many contexts get_latest_ai_structure_context looks at
    MaxEvents       \* bound: how often, together, the bars change, a page
                    \* regenerates, a process stops or a statement raises

ASSUME ContextBounds == {MaxEvents, Recent} \subseteq Nat

Levels == DOMAIN Versions
Signatures == UNION {Versions[l] : l \in Levels}
Snapshots == {x \in Levels \X Signatures : x[2] \in Versions[x[1]]}

(* The names of the context jobs.                                          *)
Sets ==
    {s \in SUBSET Snapshots : s # {} /\ \A x, y \in s : x[1] = y[1] => x = y}

VARIABLES
    bars,           \* level -> the signature of its bars
    snaps,          \* level -> its snapshots, the last one saved last
    computing,      \* level -> the signatures with an active snapshot job
    failed,         \* level -> the signatures whose snapshot job has failed
    jobs,           \* ai_structure_context_jobs: set of snapshots -> row
    runs,           \* ai_structure_reasoning_runs: set of snapshots -> row
    contexts,       \* ai_structure_contexts in the order of updated_at
    branched,       \* the contexts that have their scenario branches
    worker,         \* what each worker is doing
    texts,          \* how many texts the language model has written
    events          \* history: moves, rebuilds, stops and raising statements

ctxVars == <<bars, snaps, computing, failed, jobs, runs, contexts, branched, worker, texts,
             events>>
pipelineVars == <<bars, snaps, computing, failed>>

(* A context: its snapshots, and who has reasoned on them.  A fingerprint  *)
(* holds the whole reasoning, so that the texts of two answers make two    *)
(* contexts and two fallbacks on the same facts make one.                  *)
Kinds == {"llm", "failed", "local"}
Contexts == [ source : Sets, kind : Kinds, text : Nat ]

CtxSteps ==
    { "down", "idle", "claim", "check", "think", "summarise", "save", "attach", "branch",
      "report", "count", "fail" }
CtxWorkers ==
    [ at : CtxSteps, source : Sets \cup {{}}, id : Nat, verdict : {"", "success", "stale"},
      kind : Kinds \cup {""}, text : Nat, read : Nat ]
CtxDown ==
    [ at |-> "down", source |-> {}, id |-> 0, verdict |-> "", kind |-> "", text |-> 0,
      read |-> 0 ]
CtxIdle == [CtxDown EXCEPT !.at = "idle"]

ContextTypeOK ==
    /\ \A l \in Levels :
          /\ bars[l] \in Versions[l] \cup {NoBars}
          /\ Range(snaps[l]) \subseteq Versions[l] /\ IsInjective(snaps[l])
          /\ computing[l] \subseteq Versions[l] /\ failed[l] \subseteq Versions[l]
    /\ jobs \in [Sets -> Rows]
    /\ runs \in [Sets -> Runs]
    /\ Range(contexts) \subseteq Contexts /\ IsInjective(contexts)
    /\ branched \subseteq Range(contexts)
    /\ worker \in [Workers -> CtxWorkers]
    /\ texts \in Nat
    /\ events \in 0..MaxEvents

ContextInit ==
    /\ bars \in {b \in [Levels -> Signatures \cup {NoBars}] :
                    \A l \in Levels : b[l] \in Versions[l] \cup {NoBars}}
    /\ snaps = [l \in Levels |-> <<>>]
    /\ computing = [l \in Levels |-> {}]
    /\ failed = [l \in Levels |-> {}]
    /\ jobs = [s \in Sets |-> NoRow]
    /\ runs = [s \in Sets |-> NoRun]
    /\ contexts = <<>>
    /\ branched = {}
    /\ worker = [w \in Workers |-> CtxDown]
    /\ texts = 0
    /\ events = 0

-----------------------------------------------------------------------------
(* What a page is told.                                                    *)

HasBars(l) == bars[l] # NoBars
HasFresh(l) == bars[l] \in Range(snaps[l])

(* get_snapshot_status                                                     *)
LevelStatus(l) ==
    CASE ~HasBars(l) -> "no_data"
      [] HasBars(l) /\ HasFresh(l) -> "fresh"
      [] HasBars(l) /\ ~HasFresh(l) /\ bars[l] \in failed[l] -> "failed"
      [] OTHER -> IF snaps[l] = <<>> THEN "pending" ELSE "stale"

(* The snapshot that a status carries: the fresh one, else the latest.     *)
Chosen(l) ==
    CASE ~HasBars(l) \/ snaps[l] = <<>> -> {}
      [] HasBars(l) /\ HasFresh(l) -> {<<l, bars[l]>>}
      [] OTHER -> {<<l, Last(snaps[l])>>}

LatestSet(levels) == UNION {Chosen(l) : l \in levels}
LevelsOf(set) == {x[1] : x \in set}

(* The snapshots that are fresh, for the levels that have one.             *)
FreshSet == {<<l, bars[l]>> : l \in {k \in Levels : HasBars(k) /\ HasFresh(k)}}

(* reasoning_availability                                                  *)
Ready(context) == context.kind = "llm"

(* get_latest_ai_structure_context: the newest ready one of the last       *)
(* twelve, else the newest.                                                *)
Shown ==
    LET n == Len(contexts)
        recent == {i \in 1..n : i > n - Recent}
        ready == {i \in recent : Ready(contexts[i])}
    IN  IF n = 0 THEN <<>>
        ELSE IF ready = {} THEN <<contexts[n]>>
        ELSE <<contexts[CHOOSE i \in ready : \A j \in ready : j <= i]>>

(* _snapshot_gate_status                                                   *)
Gated == \E l \in Levels : LevelStatus(l) = "failed"
Waiting == \E l \in Levels : LevelStatus(l) \in {"pending", "stale"} /\ bars[l] \in computing[l]

(* get_ai_structure_context_status                                         *)
PageStatus ==
    LET set == LatestSet(Levels)
        behind == \E l \in Levels : LevelStatus(l) \in {"stale", "pending", "failed"}
    IN  CASE Shown # <<>> ->
               IF set # Shown[1].source \/ behind THEN "stale" ELSE "fresh"
          [] Shown = <<>> /\ set # {} /\ jobs[set].status \in Active -> "pending"
          [] Shown = <<>> /\ (set = {} \/ jobs[set].status \notin Active) /\ Gated -> "failed"
          [] OTHER -> IF set = {} /\ ~Waiting THEN "no_snapshot" ELSE "pending"

Happens == events < MaxEvents /\ events' = events + 1

-----------------------------------------------------------------------------
(* Pages and snapshots.                                                    *)

(* Mutant: a level that has a snapshot wants no other.                     *)
WantedOnce(l) == HasBars(l) /\ snaps[l] = <<>>

(* prewarm_structure_snapshots: a job for every level whose bars have no   *)
(* snapshot; a failed one is started again.                                *)
Wanted(l) == HasBars(l) /\ ~HasFresh(l)

Prewarmed == [l \in Levels |-> computing[l] \cup (IF Wanted(l) THEN {bars[l]} ELSE {})]
Retried == [l \in Levels |-> IF Wanted(l) THEN failed[l] \ {bars[l]} ELSE failed[l]]

(* enqueue_context_job: what makes the row a new PENDING job.              *)
AsksFor(row, force) ==
    IF force THEN row.status # "RUNNING" ELSE row.status \in {"NONE", "FAILED_FINAL"}

Enqueued(set, force) ==
    IF set # {} /\ AsksFor(jobs[set], force)
    THEN [jobs EXCEPT ![set] = Requeued(jobs[set])] ELSE jobs

(* ensure_ai_structure_pipeline                                            *)
Ensure ==
    /\ computing' = Prewarmed
    /\ failed' = Retried
    /\ jobs' = Enqueued(LatestSet(Levels), FALSE)
    /\ UNCHANGED <<bars, snaps, runs, contexts, branched, worker, texts, events>>

(* _regenerate_context_chain: the snapshots first, and the context only    *)
(* when none of them is behind its bars.                                   *)
Regenerate ==
    /\ Happens
    /\ computing' = Prewarmed
    /\ failed' = Retried
    /\ jobs' = IF \E l \in Levels : LevelStatus(l) \in {"pending", "stale", "failed"}
               THEN jobs ELSE Enqueued(LatestSet(Levels), TRUE)
    /\ UNCHANGED <<bars, snaps, runs, contexts, branched, worker, texts>>

(* A snapshot job ends (SnapshotJobs); with AutoEnqueue its worker asks    *)
(* for the context of the snapshots that are fresh by then, of fewer       *)
(* levels than a page asks for while others are behind.  A job for bars    *)
(* that have changed is skipped.                                           *)
SnapshotDone(l) ==
    /\ \E v \in computing[l] :
          /\ computing' = [computing EXCEPT ![l] = @ \ {v}]
          /\ IF bars[l] # v THEN UNCHANGED <<snaps, jobs>>
             ELSE /\ snaps' = [snaps EXCEPT ![l] = Append(@, v)]
                  /\ jobs' = IF AutoEnqueue THEN Enqueued(FreshSet \cup {<<l, v>>}, FALSE)
                             ELSE jobs
    /\ UNCHANGED <<bars, failed, runs, contexts, branched, worker, texts, events>>

SnapshotFails(l) ==
    /\ \E v \in computing[l] :
          /\ computing' = [computing EXCEPT ![l] = @ \ {v}]
          /\ failed' = [failed EXCEPT ![l] = @ \cup {v}]
    /\ Happens
    /\ UNCHANGED <<bars, snaps, jobs, runs, contexts, branched, worker, texts>>

(* The bars move on.  They do not come back here: what a returning         *)
(* signature does to a job that was skipped is in SnapshotJobs.            *)
BarsMove(l) ==
    /\ \E v \in Versions[l] \ (Range(snaps[l]) \cup computing[l] \cup failed[l] \cup {bars[l]}) :
          bars' = [bars EXCEPT ![l] = v]
    /\ Happens
    /\ UNCHANGED <<snaps, computing, failed, jobs, runs, contexts, branched, worker, texts>>

-----------------------------------------------------------------------------
(* The workers: claim_next_context_job and run_context_job.                *)

CtxAt(w, step) == worker[w].at = step
CtxDoes(w, state) == worker' = [worker EXCEPT ![w] = state]
CtxGoes(w, step) == CtxDoes(w, [worker[w] EXCEPT !.at = step])
OwnsRow(w) == jobs[worker[w].source].id = worker[w].id

StartContextWorker(w) ==
    /\ CtxAt(w, "down")
    /\ CtxDoes(w, CtxIdle)
    /\ UNCHANGED <<pipelineVars, jobs, runs, contexts, branched, texts, events>>

SweepStale(w) ==
    /\ CtxAt(w, "idle")
    /\ jobs' = [s \in Sets |-> IF Stale(jobs[s]) THEN Swept(jobs[s]) ELSE jobs[s]]
    /\ CtxGoes(w, "claim")
    /\ UNCHANGED <<pipelineVars, runs, contexts, branched, texts, events>>

(* The transaction of the claim.  The row is RUNNING when it is read       *)
(* again, and a RUNNING row is never given a new id.                       *)
ClaimContext(w) ==
    /\ CtxAt(w, "claim")
    /\ \E s \in Sets :
          /\ jobs[s].status \in Due
          /\ jobs' = [jobs EXCEPT ![s] = Claimed(jobs[s], w)]
          /\ CtxDoes(w, [CtxIdle EXCEPT !.at = "check", !.source = s, !.id = jobs[s].id])
    /\ UNCHANGED <<pipelineVars, runs, contexts, branched, texts, events>>

NoContextDue(w) ==
    /\ CtxAt(w, "claim")
    /\ \A s \in Sets : jobs[s].status \notin Due
    /\ CtxGoes(w, "idle")
    /\ UNCHANGED <<pipelineVars, jobs, runs, contexts, branched, texts, events>>

(* The snapshots of the job against the latest ones of the same levels.    *)
(* Snapshots are never deleted, so they are always found.  Then the facts, *)
(* and, without a key for the language model, the local fallback.          *)
CheckSource(w) ==
    /\ CtxAt(w, "check")
    /\ IF LatestSet(LevelsOf(worker[w].source)) # worker[w].source
       THEN CtxDoes(w, [worker[w] EXCEPT !.at = "report", !.verdict = "stale"])
       ELSE \/ CtxGoes(w, "think")
            \/ CtxDoes(w, [worker[w] EXCEPT !.at = "save", !.kind = "local"])
    /\ UNCHANGED <<pipelineVars, jobs, runs, contexts, branched, texts, events>>

SavesRun(w, status, text, summary) ==
    runs' = [runs EXCEPT ![worker[w].source] = Saved(@, status, text, summary)]

(* A call of the language model raises, or its answer is empty or cannot   *)
(* be read: the failure is saved and the context becomes a fallback.       *)
CallFails(w) ==
    /\ SavesRun(w, "FAILED", 0, 0)
    /\ CtxDoes(w, [worker[w] EXCEPT !.at = "save", !.kind = "failed", !.text = 0])
    /\ UNCHANGED texts

Think(w) ==
    /\ CtxAt(w, "think")
    /\ \/ /\ texts' = texts + 1
          /\ SavesRun(w, "THINK_SUCCESS", texts + 1, 0)
          /\ CtxDoes(w, [worker[w] EXCEPT !.at = "summarise", !.text = texts + 1])
       \/ CallFails(w)
    /\ UNCHANGED <<pipelineVars, jobs, contexts, branched, events>>

Summarise(w) ==
    /\ CtxAt(w, "summarise")
    /\ \/ /\ SavesRun(w, "SUCCESS", worker[w].text, worker[w].text)
          /\ CtxDoes(w, [worker[w] EXCEPT !.at = "save", !.kind = "llm"])
          /\ UNCHANGED texts
       \/ CallFails(w)
    /\ UNCHANGED <<pipelineVars, jobs, contexts, branched, events>>

Built(w) ==
    [ source |-> worker[w].source, kind |-> worker[w].kind, text |-> worker[w].text ]

(* Mutant: an INSERT without the conflict clause.                          *)
SaveContextAgain(w) ==
    /\ CtxAt(w, "save")
    /\ contexts' = Append(contexts, Built(w))
    /\ CtxGoes(w, "branch")
    /\ UNCHANGED <<pipelineVars, jobs, runs, branched, texts, events>>

(* save_ai_structure_context: an upsert by the fingerprint.  That the run  *)
(* then notes the id of its context (attach_reasoning_run_to_context) is   *)
(* left out: nothing here is read by it.                                   *)
SaveContext(w) ==
    /\ CtxAt(w, "save")
    /\ contexts' = Append(Dropping(contexts, Built(w)), Built(w))
    /\ CtxGoes(w, "branch")
    /\ UNCHANGED <<pipelineVars, jobs, runs, branched, texts, events>>

(* upsert_scenario_branches_for_context                                    *)
SaveBranches(w) ==
    /\ CtxAt(w, "branch")
    /\ branched' = branched \cup {Built(w)}
    /\ CtxDoes(w, [worker[w] EXCEPT !.at = "report", !.verdict = "success"])
    /\ UNCHANGED <<pipelineVars, jobs, runs, contexts, texts, events>>

(* _complete_job and _skip_job                                             *)
ReportContext(w) ==
    /\ CtxAt(w, "report")
    /\ LET row == jobs[worker[w].source] IN
       jobs' = IF ~OwnsRow(w) THEN jobs
               ELSE [jobs EXCEPT ![worker[w].source] =
                        IF worker[w].verdict = "success" THEN Completed(row) ELSE Skipped(row)]
    /\ CtxDoes(w, CtxIdle)
    /\ UNCHANGED <<pipelineVars, runs, contexts, branched, texts, events>>

(* _fail_job: the SELECT, then the UPDATE.                                 *)
CountAttempts(w) ==
    /\ CtxAt(w, "count")
    /\ CtxDoes(w, [worker[w] EXCEPT !.at = "fail",
                      !.read = IF OwnsRow(w) THEN jobs[worker[w].source].retries ELSE 0])
    /\ UNCHANGED <<pipelineVars, jobs, runs, contexts, branched, texts, events>>

FailContext(w) ==
    /\ CtxAt(w, "fail")
    /\ jobs' = IF ~OwnsRow(w) THEN jobs
               ELSE [jobs EXCEPT ![worker[w].source] =
                        Failed(@, worker[w].read, "CONTEXT_ERROR", TRUE)]
    /\ CtxDoes(w, CtxIdle)
    /\ UNCHANGED <<pipelineVars, runs, contexts, branched, texts, events>>

ContextStep(w) ==
    \/ SweepStale(w) \/ ClaimContext(w) \/ NoContextDue(w) \/ CheckSource(w) \/ Think(w)
    \/ Summarise(w) \/ SaveContext(w) \/ SaveBranches(w) \/ ReportContext(w)
    \/ CountAttempts(w) \/ FailContext(w)

(* Mutant: an error of the branches does not fail the job.                 *)
ContextRaisesSwallowed(w) ==
    /\ worker[w].at \in {"check", "save", "branch", "report"}
    /\ Happens
    /\ CtxDoes(w, [worker[w] EXCEPT !.at = "report", !.verdict = "success"])
    /\ UNCHANGED <<pipelineVars, jobs, runs, contexts, branched, texts>>

(* A statement raises: a failure of the job, which may be tried again.     *)
ContextRaises(w) ==
    /\ worker[w].at \in {"check", "save", "branch", "report"}
    /\ Happens
    /\ CtxDoes(w, [worker[w] EXCEPT !.at = "count", !.verdict = ""])
    /\ UNCHANGED <<pipelineVars, jobs, runs, contexts, branched, texts>>

StopContextWorker(w) ==
    /\ ~CtxAt(w, "down")
    /\ Happens
    /\ CtxDoes(w, CtxDown)
    /\ UNCHANGED <<pipelineVars, jobs, runs, contexts, branched, texts>>

InHand(w, s) == worker[w].source = s /\ worker[w].at \notin {"down", "idle", "claim"}

(* locked_at < cutoff, compared as texts: the lock is written in Shanghai  *)
(* time and the cutoff in the zone of the host.  Where both are the same,  *)
(* this is ten minutes.                                                    *)
ContextLockExpires(s) ==
    /\ jobs[s].status = "RUNNING" /\ ~jobs[s].expired
    /\ Overruns \/ ~InHand(jobs[s].holder, s)
    /\ jobs' = [jobs EXCEPT ![s].expired = TRUE]
    /\ UNCHANGED <<pipelineVars, runs, contexts, branched, worker, texts, events>>

ContextNext ==
    \/ Ensure \/ Regenerate
    \/ \E l \in Levels : SnapshotDone(l) \/ SnapshotFails(l) \/ BarsMove(l)
    \/ \E w \in Workers :
          StartContextWorker(w) \/ ContextStep(w) \/ ContextRaises(w) \/ StopContextWorker(w)
    \/ \E s \in Sets : ContextLockExpires(s)

ContextSpec == ContextInit /\ [][ContextNext]_ctxVars

(* A page asks again and again, workers run on and are started again, and  *)
(* snapshot jobs end (EveryJobEnds of SnapshotJobs).                       *)
FairContextSpec ==
    /\ ContextSpec
    /\ WF_ctxVars(Ensure)
    /\ \A l \in Levels : WF_ctxVars(SnapshotDone(l))
    /\ \A w \in Workers : WF_ctxVars(StartContextWorker(w)) /\ WF_ctxVars(ContextStep(w))
    /\ \A s \in Sets : WF_ctxVars(ContextLockExpires(s))

-----------------------------------------------------------------------------
(* Properties.                                                             *)

(* A context job reported as a success has left a context of exactly its   *)
(* snapshots, with its branches, also when earlier attempts died between   *)
(* the transactions.                                                       *)
SuccessHasContext ==
    \A s \in Sets :
        jobs[s].status = "SUCCESS" => \E c \in branched : c.source = s

(* While the bars stand still, a page that asks for a context does not     *)
(* wait for ever: it is shown one, of whatever kind, or told of a failure. *)
PendingEnds == PageStatus = "pending" ~> PageStatus # "pending"

(* ... and once they stand still it is shown what it sees: the context of  *)
(* the snapshots of its bars, whatever died on the way, unless one of them *)
(* is missing or fails again and again.                                    *)
CatchesUp ==
    []<>(\/ \E l \in Levels : ~HasBars(l) \/ LevelStatus(l) = "failed"
         \/ \E c \in branched : c.source = {<<l, bars[l]>> : l \in Levels})
=============================================================================
