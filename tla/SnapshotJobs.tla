----------------------------- MODULE SnapshotJobs -----------------------------
(***************************************************************************)
(* The queue of CZSC snapshot jobs of one symbol and level:                *)
(*   - clients (previews, prewarms, the post-market script) that enqueue a *)
(*     job for the signature of the stored bars;                           *)
(*   - workers (server/workers/ai_structure_snapshot_worker.py), each in   *)
(*     a process that may stop at any point and is started again;          *)
(*   - the bars, whose signature changes under both.                       *)
(* A signature stands for the bars it is computed from.  Every statement   *)
(* or transaction on the database is a step.                               *)
(***************************************************************************)
EXTENDS JobRows

CONSTANTS
    Signatures,     \* data signatures of the stored bars
    NoBars,         \* the signature when no bars are stored
    Clients,        \* threads and processes that enqueue
    Asked,          \* bound: the signatures that they happen to see
    Overruns,       \* a computation may outlast STRUCTURE_JOB_TIMEOUT_SECONDS
    Outages,        \* the czsc package may be missing in a process
    StaleResets,    \* a row may change between a client's SELECT and its UPDATE
    MaxIds,         \* bound: job ids per row
    MaxFaults       \* bound: how often a process stops or a statement raises

ASSUME NoBarsAssumption == NoBars \notin Signatures
ASSUME AskedAssumption == Asked \subseteq Signatures
ASSUME SwitchesAssumption == {Overruns, Outages, StaleResets} \subseteq BOOLEAN
ASSUME BoundsAssumption == MaxIds \in Nat /\ MaxFaults \in Nat

VARIABLES
    bars,           \* the signature of the bars now stored
    jobs,           \* structure_snapshot_jobs: signature -> row
    snapshots,      \* structure_snapshots: signature -> the bars it was computed from
    worker,         \* what each worker is doing
    client,         \* what each client is doing
    faults,         \* history: how often a process has stopped or a statement has raised
    claims          \* history: claims of the row's present job id

jobVars == <<bars, jobs, snapshots, worker, client, faults, claims>>

(* at: where the worker is; sig and id: the job it has claimed; source:    *)
(* the bars it has read; verdict, read: what it is about to report; czsc:  *)
(* its process has the package.                                            *)
Steps == {"down", "idle", "claim", "fetch", "check", "compute", "save", "report", "count", "fail"}
Verdicts == {"", "success", "stale", "NO_DATA", "CZSC_UNAVAILABLE", "ENGINE_ERROR"}
WorkerStates ==
    [ at : Steps, sig : Signatures \cup {NoBars}, id : Nat,
      source : Signatures \cup {NoBars}, verdict : Verdicts, read : Nat, czsc : BOOLEAN ]

Down ==
    [ at |-> "down", sig |-> NoBars, id |-> 0, source |-> NoBars, verdict |-> "",
      read |-> 0, czsc |-> TRUE ]
Idle(czsc) == [Down EXCEPT !.at = "idle", !.czsc = czsc]

(* A client between its SELECT and its write holds the row it has read.    *)
ClientStates == [ sig : Signatures \cup {NoBars}, seen : Rows, force : BOOLEAN ]
AtRest == [ sig |-> NoBars, seen |-> NoRow, force |-> FALSE ]

JobTypeOK ==
    /\ bars \in Signatures \cup {NoBars}
    /\ jobs \in [Signatures -> Rows]
    /\ snapshots \in [Signatures -> Signatures \cup {NoBars}]
    /\ worker \in [Workers -> WorkerStates]
    /\ client \in [Clients -> ClientStates]
    /\ faults \in 0..MaxFaults
    /\ claims \in [Signatures -> Nat]

JobInit ==
    /\ bars \in Signatures \cup {NoBars}
    /\ jobs = [s \in Signatures |-> NoRow]
    /\ snapshots = [s \in Signatures |-> NoBars]
    /\ worker = [w \in Workers |-> Down]
    /\ client = [c \in Clients |-> AtRest]
    /\ faults = 0
    /\ claims = [s \in Signatures |-> 0]

-----------------------------------------------------------------------------
(* Clients: prewarm_structure_snapshots, get_structure_preview and         *)
(* enqueue_snapshot_job.                                                   *)

(* The signature of the bars, and the SELECT by its idempotency key.  A    *)
(* preview asks without force, and a prewarm may ask with it.              *)
Ask(c) ==
    /\ client[c] = AtRest /\ bars \in Asked
    /\ \E force \in BOOLEAN :
          client' = [client EXCEPT ![c] = [sig |-> bars, seen |-> jobs[bars], force |-> force]]
    /\ UNCHANGED <<bars, jobs, snapshots, worker, faults, claims>>

(* What the row read calls for: a new row, or a reset of an ended one.     *)
Resets(seen, force) ==
    \/ seen.status \in {"NONE", "FAILED_FINAL"}
    \/ force /\ seen.status \in {"SUCCESS", "SKIPPED"}

Changed(c) == jobs[client[c].sig] # client[c].seen

(* The write.  The UPDATE is by row and overwrites whatever the row has    *)
(* become; the INSERT fails when another client was first.                 *)
Enqueue(c) ==
    LET s == client[c].sig IN
    /\ client[c] # AtRest
    /\ Resets(client[c].seen, client[c].force)
    /\ Changed(c) => StaleResets /\ client[c].seen # NoRow
    /\ jobs[s].id < MaxIds
    /\ jobs' = [jobs EXCEPT ![s] = Requeued(jobs[s])]
    /\ claims' = [claims EXCEPT ![s] = 0]
    /\ client' = [client EXCEPT ![c] = AtRest]
    /\ UNCHANGED <<bars, snapshots, worker, faults>>

(* Nothing to enqueue: an active row only gets another priority, a         *)
(* finished one is returned as it is, a second INSERT is refused.          *)
Leave(c) ==
    /\ client[c] # AtRest
    /\ \/ ~Resets(client[c].seen, client[c].force)
       \/ Changed(c) /\ (client[c].seen = NoRow \/ ~StaleResets)
       \/ jobs[client[c].sig].id = MaxIds
    /\ client' = [client EXCEPT ![c] = AtRest]
    /\ UNCHANGED <<bars, jobs, snapshots, worker, faults, claims>>

-----------------------------------------------------------------------------
(* The worker: start(), then tick() for ever: claim_next_snapshot_job and  *)
(* run_snapshot_job.                                                       *)

At(w, step) == worker[w].at = step
Does(w, state) == worker' = [worker EXCEPT ![w] = state]
Goes(w, step) == Does(w, [worker[w] EXCEPT !.at = step])
Reports(w, verdict) == Does(w, [worker[w] EXCEPT !.at = "report", !.verdict = verdict])
Fails(w, code) == Does(w, [worker[w] EXCEPT !.at = "count", !.verdict = code])
HasJob(w) == jobs[worker[w].sig].id = worker[w].id

(* start() runs recover_failed_snapshot_jobs, one transaction, which does  *)
(* nothing without the package.                                            *)
Start(w) ==
    /\ At(w, "down")
    /\ \E czsc \in IF Outages THEN BOOLEAN ELSE {TRUE} :
          LET recovered ==
                {s \in Signatures : czsc /\ Recoverable(jobs[s]) /\ jobs[s].id < MaxIds}
          IN  /\ Does(w, Idle(czsc))
              /\ jobs' = [s \in Signatures |->
                            IF s \in recovered THEN Requeued(jobs[s]) ELSE jobs[s]]
              /\ claims' = [s \in Signatures |-> IF s \in recovered THEN 0 ELSE claims[s]]
    /\ UNCHANGED <<bars, snapshots, client, faults>>

(* sweep_stale_snapshot_jobs, the first statement of a claim.              *)
Sweep(w) ==
    /\ At(w, "idle")
    /\ jobs' = [s \in Signatures |-> IF Stale(jobs[s]) THEN Swept(jobs[s]) ELSE jobs[s]]
    /\ Goes(w, "claim")
    /\ UNCHANGED <<bars, snapshots, client, faults, claims>>

(* The transaction of the claim; without a due row the worker sleeps.      *)
Claim(w) ==
    /\ At(w, "claim")
    /\ \E s \in Signatures :
          /\ jobs[s].status \in Due
          /\ jobs' = [jobs EXCEPT ![s] = Claimed(jobs[s], w)]
          /\ claims' = [claims EXCEPT ![s] = claims[s] + 1]
          /\ Does(w, [worker[w] EXCEPT !.at = "fetch", !.sig = s])
    /\ UNCHANGED <<bars, snapshots, client, faults>>

NothingDue(w) ==
    /\ At(w, "claim")
    /\ \A s \in Signatures : jobs[s].status \notin Due
    /\ Goes(w, "idle")
    /\ UNCHANGED <<bars, jobs, snapshots, client, faults, claims>>

(* The row is read again after the commit: the job id is of that moment.   *)
Fetch(w) ==
    /\ At(w, "fetch")
    /\ Does(w, [worker[w] EXCEPT !.at = "check", !.id = jobs[worker[w].sig].id])
    /\ UNCHANGED <<bars, jobs, snapshots, client, faults, claims>>

(* compute_and_persist_structure up to the computation: the signature of   *)
(* the bars, and the snapshot there may be for it.  A snapshot is never    *)
(* deleted, so its SELECT may be taken together with the signature.        *)
CheckInput(w) ==
    /\ At(w, "check")
    /\ CASE bars = NoBars -> Fails(w, "NO_DATA")
         [] bars # NoBars /\ bars # worker[w].sig -> Reports(w, "stale")
         [] bars = worker[w].sig /\ snapshots[bars] # NoBars -> Reports(w, "success")
         [] OTHER -> Goes(w, "compute")
    /\ UNCHANGED <<bars, jobs, snapshots, client, faults, claims>>

(* analyze_czsc_structure_sync reads the bars again, whatever they are by  *)
(* now; the computation itself may fail.                                   *)
Compute(w) ==
    /\ At(w, "compute")
    /\ IF ~worker[w].czsc THEN Fails(w, "CZSC_UNAVAILABLE")
       ELSE IF bars = NoBars THEN Fails(w, "NO_DATA")
       ELSE \/ Does(w, [worker[w] EXCEPT !.at = "save", !.source = bars])
            \/ Fails(w, "ENGINE_ERROR")
    /\ UNCHANGED <<bars, jobs, snapshots, client, faults, claims>>

(* save_canonical_snapshot, under the signature of the check.              *)
SaveSnapshot(w) ==
    /\ At(w, "save")
    /\ snapshots' = [snapshots EXCEPT ![worker[w].sig] = worker[w].source]
    /\ Reports(w, "success")
    /\ UNCHANGED <<bars, jobs, client, faults, claims>>

(* _complete_job and _skip_job, WHERE job_id = ?: no other condition.      *)
Report(w) ==
    /\ At(w, "report")
    /\ LET row == jobs[worker[w].sig] IN
       jobs' = IF ~HasJob(w) THEN jobs
               ELSE [jobs EXCEPT ![worker[w].sig] =
                        IF worker[w].verdict = "success" THEN Completed(row) ELSE Skipped(row)]
    /\ Does(w, Idle(worker[w].czsc))
    /\ UNCHANGED <<bars, snapshots, client, faults, claims>>

(* _fail_job: the SELECT of the retry count, then the UPDATE.              *)
ReadRetries(w) ==
    /\ At(w, "count")
    /\ Does(w, [worker[w] EXCEPT !.at = "fail",
                   !.read = IF HasJob(w) THEN jobs[worker[w].sig].retries ELSE 0])
    /\ UNCHANGED <<bars, jobs, snapshots, client, faults, claims>>

WriteFailure(w) ==
    /\ At(w, "fail")
    /\ LET row == jobs[worker[w].sig]
           retryable == worker[w].verdict = "ENGINE_ERROR"
       IN  jobs' = IF ~HasJob(w) THEN jobs
                   ELSE [jobs EXCEPT ![worker[w].sig] =
                            Failed(row, worker[w].read, worker[w].verdict, retryable)]
    /\ Does(w, Idle(worker[w].czsc))
    /\ UNCHANGED <<bars, snapshots, client, faults, claims>>

WorkerStep(w) ==
    \/ Sweep(w) \/ Claim(w) \/ NothingDue(w) \/ Fetch(w) \/ CheckInput(w) \/ Compute(w)
    \/ SaveSnapshot(w) \/ Report(w) \/ ReadRetries(w) \/ WriteFailure(w)

(* Mutant: an error of the save is swallowed and the job reported done.    *)
RaiseSwallowed(w) ==
    /\ At(w, "save") /\ faults < MaxFaults
    /\ faults' = faults + 1
    /\ Reports(w, "success")
    /\ UNCHANGED <<bars, jobs, snapshots, client, claims>>

(* A statement raises (a locked database, a full disk).  Up to the report  *)
(* of a success this is a failure like any other; a report or a failure    *)
(* that cannot be written leaves the row RUNNING, and the worker goes on.  *)
Raise(w) ==
    /\ worker[w].at \notin {"down", "idle"} /\ faults < MaxFaults
    /\ faults' = faults + 1
    /\ IF \/ worker[w].at \in {"check", "compute", "save"}
          \/ At(w, "report") /\ worker[w].verdict = "success"
       THEN Fails(w, "ENGINE_ERROR")
       ELSE Does(w, Idle(worker[w].czsc))
    /\ UNCHANGED <<bars, jobs, snapshots, client, claims>>

-----------------------------------------------------------------------------
(* The world.                                                              *)

(* The process stops: what it had claimed stays RUNNING under its name.    *)
Stop(w) ==
    /\ ~At(w, "down") /\ faults < MaxFaults
    /\ faults' = faults + 1
    /\ Does(w, Down)
    /\ UNCHANGED <<bars, jobs, snapshots, client, claims>>

WorksOn(w, s) == worker[w].sig = s /\ worker[w].at \notin {"down", "idle", "claim"}

(* Ten minutes pass for a lock.  Unless computations may overrun, whoever  *)
(* took it has answered by then or has stopped.                            *)
LockExpires(s) ==
    /\ jobs[s].status = "RUNNING" /\ ~jobs[s].expired
    /\ Overruns \/ ~WorksOn(jobs[s].holder, s)
    /\ jobs' = [jobs EXCEPT ![s].expired = TRUE]
    /\ UNCHANGED <<bars, snapshots, worker, client, faults, claims>>

(* A synchronisation writes bars, or the source policy takes another       *)
(* source: any signature may follow any other and come back.               *)
BarsChange ==
    /\ \E s \in Signatures \cup {NoBars} : s # bars /\ bars' = s
    /\ UNCHANGED <<jobs, snapshots, worker, client, faults, claims>>

JobNext ==
    \/ \E c \in Clients : Ask(c) \/ Enqueue(c) \/ Leave(c)
    \/ \E w \in Workers : Start(w) \/ WorkerStep(w) \/ Raise(w) \/ Stop(w)
    \/ \E s \in Signatures : LockExpires(s)
    \/ BarsChange

JobSpec == JobInit /\ [][JobNext]_jobVars

(* The event loop runs every worker on, a stopped process is started again *)
(* ("restart: unless-stopped"), time passes, and a page goes on asking for *)
(* what it misses.                                                         *)
FairJobSpec ==
    /\ JobSpec
    /\ \A w \in Workers : WF_jobVars(Start(w)) /\ WF_jobVars(WorkerStep(w))
    /\ \A s \in Signatures : WF_jobVars(LockExpires(s))
    /\ \A c \in Clients : WF_jobVars(Ask(c)) /\ WF_jobVars(Enqueue(c) \/ Leave(c))

-----------------------------------------------------------------------------
(* Properties.                                                             *)

(* A retry ends: "every job has a retry limit".  One job id is claimed at  *)
(* most max_retries times, however its attempts end, as long as they keep  *)
(* to the time of their lock.                                              *)
AttemptsBounded == \A s \in Signatures : claims[s] <= MaxRetries

(* One job, one worker: no two workers have the same job in hand, as long  *)
(* as computations keep to the time of their lock and no row is reset from *)
(* a stale read.                                                           *)
Busy == {"check", "compute", "save", "report", "count", "fail"}
OneWorkerPerJob ==
    \A v, w \in Workers :
        /\ worker[v].at \in Busy /\ worker[w].at \in Busy
        /\ worker[v].sig = worker[w].sig /\ worker[v].id = worker[w].id
        => v = w

(* An ended job has its verdict for good: only a new job id reopens it.    *)
VerdictsStand ==
    [][\A s \in Signatures :
          jobs[s].status \in Ended /\ jobs'[s].id = jobs[s].id
              => jobs'[s].status = jobs[s].status]_jobVars

(* A job reported as a success has its snapshot.                           *)
SuccessHasSnapshot ==
    \A s \in Signatures : jobs[s].status = "SUCCESS" => snapshots[s] # NoBars

(* Every enqueued job ends, also when its worker has stopped over it.      *)
EveryJobEnds ==
    \A s \in Signatures : jobs[s].status \in Active ~> jobs[s].status \in Ended
=============================================================================
