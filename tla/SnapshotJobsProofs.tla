------------------------- MODULE SnapshotJobsProofs -------------------------
(***************************************************************************)
(* What holds of the snapshot queue for any number of workers, clients and *)
(* signatures, any retry limit, with computations that overrun their lock, *)
(* missing packages, stale writes of clients, and stops and errors at any  *)
(* point; and, in the second half, what the lock of a job gives as long as *)
(* a computation ends within its lock and no row is reset from a stale     *)
(* read (Punctual).                                                        *)
(***************************************************************************)
EXTENDS SnapshotJobs, JobRowProofs, TLAPS

(* A worker with a job in hand works on a signature; what it is about to   *)
(* save was computed from bars, what it is about to fail with is a code.   *)
InHand == Busy \cup {"fetch"}
Sound(state) ==
    /\ state.at \in InHand => state.sig \in Signatures
    /\ state.at = "save" => state.source \in Signatures
    /\ state.at \in {"count", "fail"} => state.verdict \in ErrorCodes

(* A worker about to report a success has the snapshot behind it.          *)
Backed(state) ==
    state.at = "report" /\ state.verdict = "success" => snapshots[state.sig] # NoBars

ClientsSound == \A c \in Clients : client[c] = AtRest \/ client[c].sig \in Signatures

Inv ==
    /\ JobTypeOK
    /\ \A w \in Workers : Sound(worker[w]) /\ Backed(worker[w])
    /\ ClientsSound
    /\ SuccessHasSnapshot

-----------------------------------------------------------------------------
(* Workers and clients.                                                    *)

LEMMA DoesState ==
  ASSUME worker \in [Workers -> WorkerStates], NEW w \in Workers, NEW state \in WorkerStates,
         Does(w, state)
  PROVE  /\ worker' \in [Workers -> WorkerStates]
         /\ worker'[w] = state
         /\ \A v \in Workers \ {w} : worker'[v] = worker[v]
  BY DEF Does

LEMMA IdleState ==
  ASSUME NEW czsc \in BOOLEAN
  PROVE  /\ Idle(czsc) \in WorkerStates /\ Idle(czsc).at = "idle"
         /\ Down \in WorkerStates /\ Down.at = "down"
  BY DEF Idle, Down, WorkerStates, Steps, Verdicts

LEMMA GoesState ==
  ASSUME NEW state \in WorkerStates, NEW step \in Steps
  PROVE  LET next == [state EXCEPT !.at = step] IN
         /\ next \in WorkerStates
         /\ next.at = step /\ next.sig = state.sig /\ next.source = state.source
  BY DEF WorkerStates

LEMMA AtRestIsClient == AtRest \in ClientStates
  BY NoRowIsRow DEF AtRest, ClientStates

(* A step of one worker that leaves the snapshots alone disturbs the       *)
(* invariant only in that worker.                                          *)
LEMMA WorkerMoves ==
  ASSUME Inv, NEW w \in Workers, NEW state \in WorkerStates, Does(w, state),
         snapshots' = snapshots, Sound(state), Backed(state)
  PROVE  /\ worker' \in [Workers -> WorkerStates]
         /\ \A v \in Workers : (Sound(worker[v]) /\ Backed(worker[v]))'
<1>1. /\ worker' \in [Workers -> WorkerStates]
      /\ worker'[w] = state
      /\ \A v \in Workers \ {w} : worker'[v] = worker[v]
  BY DoesState DEF Inv, JobTypeOK
<1>2. ASSUME NEW v \in Workers PROVE Sound(worker'[v]) /\ (Backed(worker[v]))'
  <2>1. Sound(worker'[v]) /\ Backed(worker'[v])
    BY <1>1 DEF Inv
  <2> QED
    BY <2>1 DEF Backed
<1> QED
  BY <1>1, <1>2 DEF Sound

(* A row that is replaced by a row which is no success keeps both sides.   *)
LEMMA RowReplaced ==
  ASSUME Inv, NEW s \in Signatures, NEW row \in Rows, jobs' = [jobs EXCEPT ![s] = row],
         snapshots' = snapshots, row.status # "SUCCESS" \/ snapshots[s] # NoBars
  PROVE  jobs' \in [Signatures -> Rows] /\ SuccessHasSnapshot'
  BY DEF Inv, JobTypeOK, SuccessHasSnapshot

LEMMA InitInv == JobInit => Inv
<1> SUFFICES ASSUME JobInit PROVE Inv
  OBVIOUS
<1>1. JobTypeOK
  <2>1. jobs \in [Signatures -> Rows] /\ client \in [Clients -> ClientStates]
    BY NoRowIsRow, AtRestIsClient DEF JobInit
  <2>2. Down \in WorkerStates
    BY IdleState
  <2>3. worker \in [Workers -> WorkerStates]
    BY <2>2 DEF JobInit
  <2>4. faults \in 0..MaxFaults
    BY BoundsAssumption DEF JobInit
  <2>5. snapshots \in [Signatures -> Signatures \cup {NoBars}]
        /\ claims \in [Signatures -> Nat] /\ bars \in Signatures \cup {NoBars}
    BY DEF JobInit
  <2> QED
    BY <2>1, <2>3, <2>4, <2>5 DEF JobTypeOK
<1>2. \A w \in Workers : Sound(worker[w]) /\ Backed(worker[w])
  BY DEF JobInit, Sound, Backed, InHand, Busy, Down
<1>3. ClientsSound
  BY DEF JobInit, ClientsSound
<1>4. SuccessHasSnapshot
  BY NoRowIsRow DEF JobInit, SuccessHasSnapshot
<1> QED
  BY <1>1, <1>2, <1>3, <1>4 DEF Inv

-----------------------------------------------------------------------------
(* The clients' steps.                                                     *)

LEMMA AskStep ==
  ASSUME Inv, NEW c \in Clients, Ask(c)
  PROVE  Inv'
<1>1. PICK force \in BOOLEAN :
        client' = [client EXCEPT ![c] = [sig |-> bars, seen |-> jobs[bars], force |-> force]]
  BY DEF Ask
<1>2. bars \in Signatures /\ bars # NoBars /\ jobs[bars] \in Rows
  BY AskedAssumption, NoBarsAssumption DEF Ask, Inv, JobTypeOK
<1>3. client' \in [Clients -> ClientStates]
  BY <1>1, <1>2 DEF Inv, JobTypeOK, ClientStates
<1>4. ClientsSound'
  BY <1>1, <1>2 DEF Inv, JobTypeOK, ClientsSound
<1>5. JobTypeOK'
  BY <1>3 DEF Ask, Inv, JobTypeOK
<1> QED
  BY <1>4, <1>5 DEF Ask, Inv, Sound, Backed, SuccessHasSnapshot

LEMMA ClientRests ==
  ASSUME Inv, NEW c \in Clients, client' = [client EXCEPT ![c] = AtRest]
  PROVE  client' \in [Clients -> ClientStates] /\ ClientsSound'
  BY AtRestIsClient DEF Inv, JobTypeOK, ClientsSound

LEMMA EnqueueStep ==
  ASSUME Inv, NEW c \in Clients, Enqueue(c)
  PROVE  Inv'
<1> DEFINE s == client[c].sig
           row == Requeued(jobs[s])
<1>1. s \in Signatures /\ jobs[s] \in Rows
  BY DEF Enqueue, Inv, JobTypeOK, ClientsSound
<1>2. row \in Rows /\ row.status # "SUCCESS"
  BY <1>1, RequeuedRow
<1>3. jobs' = [jobs EXCEPT ![s] = row] /\ snapshots' = snapshots
  BY DEF Enqueue
<1>4. jobs' \in [Signatures -> Rows] /\ SuccessHasSnapshot'
  <2> HIDE DEF row, s
  <2> QED
    BY <1>1, <1>2, <1>3, RowReplaced
<1>5. client' \in [Clients -> ClientStates] /\ ClientsSound'
  BY ClientRests DEF Enqueue
<1>6. claims' \in [Signatures -> Nat]
  BY DEF Enqueue, Inv, JobTypeOK
<1>7. JobTypeOK'
  BY <1>4, <1>5, <1>6 DEF Enqueue, Inv, JobTypeOK
<1> QED
  BY <1>4, <1>5, <1>7 DEF Enqueue, Inv, Sound, Backed

LEMMA LeaveStep ==
  ASSUME Inv, NEW c \in Clients, Leave(c)
  PROVE  Inv'
<1>1. client' \in [Clients -> ClientStates] /\ ClientsSound'
  BY ClientRests DEF Leave
<1>2. JobTypeOK'
  BY <1>1 DEF Leave, Inv, JobTypeOK
<1> QED
  BY <1>1, <1>2 DEF Leave, Inv, Sound, Backed, SuccessHasSnapshot
-----------------------------------------------------------------------------
(* The workers' steps that only change the worker.                         *)

(* Such a step keeps the invariant if the new state is sound and backed.   *)
LEMMA OnlyWorkerMoves ==
  ASSUME Inv, NEW w \in Workers, NEW state \in WorkerStates, Does(w, state),
         Sound(state), Backed(state),
         UNCHANGED <<bars, jobs, snapshots, client, claims>>, faults' \in 0..MaxFaults
  PROVE  Inv'
<1>1. /\ worker' \in [Workers -> WorkerStates]
      /\ \A v \in Workers : (Sound(worker[v]) /\ Backed(worker[v]))'
  BY WorkerMoves
<1>2. JobTypeOK'
  BY <1>1 DEF Inv, JobTypeOK
<1> QED
  BY <1>1, <1>2 DEF Inv, ClientsSound, SuccessHasSnapshot

(* A state that is not about to save or report holds nothing to back.      *)
LEMMA Waiting ==
  ASSUME NEW state \in WorkerStates, state.at \notin {"save", "report"},
         state.at \in InHand => state.sig \in Signatures,
         state.at \in {"count", "fail"} => state.verdict \in ErrorCodes
  PROVE  Sound(state) /\ Backed(state)
  BY DEF Sound, Backed

LEMMA NothingDueStep ==
  ASSUME Inv, NEW w \in Workers, NothingDue(w)
  PROVE  Inv'
<1> DEFINE old == worker[w]
           state == [old EXCEPT !.at = "idle"]
<1>1. old \in WorkerStates /\ "idle" \in Steps
  BY DEF Inv, JobTypeOK, Steps
<1>2. Does(w, state)
  BY DEF NothingDue, Goes
<1> HIDE DEF old
<1>3. state \in WorkerStates /\ state.at = "idle"
  BY <1>1 DEF WorkerStates
<1> HIDE DEF state
<1>4. Sound(state) /\ Backed(state)
  BY <1>3, Waiting DEF InHand, Busy
<1> QED
  BY <1>2, <1>3, <1>4, OnlyWorkerMoves DEF NothingDue, Inv, JobTypeOK

LEMMA FetchStep ==
  ASSUME Inv, NEW w \in Workers, Fetch(w)
  PROVE  Inv'
<1> DEFINE old == worker[w]
           id == jobs[old.sig].id
           state == [old EXCEPT !.at = "check", !.id = id]
<1>1. old \in WorkerStates /\ old.sig \in Signatures
  BY DEF Fetch, At, Inv, JobTypeOK, Sound, InHand
<1>2. id \in Nat
  BY <1>1 DEF Inv, JobTypeOK, Rows
<1>3. Does(w, state)
  BY DEF Fetch
<1> HIDE DEF old, id
<1>4. state \in WorkerStates /\ state.at = "check" /\ state.sig = old.sig
  BY <1>1, <1>2 DEF WorkerStates, Steps
<1> HIDE DEF state
<1>5. Sound(state) /\ Backed(state)
  BY <1>1, <1>4, Waiting
<1> QED
  BY <1>3, <1>4, <1>5, OnlyWorkerMoves DEF Fetch, Inv, JobTypeOK

(* The three ways on from the check and from the computation.              *)
LEMMA FailsStep ==
  ASSUME Inv, NEW w \in Workers, NEW code \in Verdicts \cap ErrorCodes,
         worker[w].at \in InHand, Fails(w, code),
         UNCHANGED <<bars, jobs, snapshots, client, claims>>, faults' \in 0..MaxFaults
  PROVE  Inv'
<1> DEFINE old == worker[w]
           state == [old EXCEPT !.at = "count", !.verdict = code]
<1>1. old \in WorkerStates /\ old.sig \in Signatures
  BY DEF Inv, JobTypeOK, Sound
<1>2. Does(w, state)
  BY DEF Fails
<1> HIDE DEF old
<1>3. /\ state \in WorkerStates /\ state.at = "count" /\ state.sig = old.sig
      /\ state.verdict \in ErrorCodes
  BY <1>1 DEF WorkerStates, Steps
<1> HIDE DEF state
<1>4. Sound(state) /\ Backed(state)
  BY <1>1, <1>3, Waiting
<1> QED
  BY <1>2, <1>3, <1>4, OnlyWorkerMoves

LEMMA ReportsStep ==
  ASSUME Inv, NEW w \in Workers, NEW verdict \in Verdicts, worker[w].at \in InHand,
         Reports(w, verdict), verdict = "success" => snapshots[worker[w].sig] # NoBars,
         UNCHANGED <<bars, jobs, snapshots, client, faults, claims>>
  PROVE  Inv'
<1> DEFINE old == worker[w]
           state == [old EXCEPT !.at = "report", !.verdict = verdict]
<1>1. old \in WorkerStates /\ old.sig \in Signatures
  BY DEF Inv, JobTypeOK, Sound
<1>2. Does(w, state) /\ (verdict = "success" => snapshots[old.sig] # NoBars)
  BY DEF Reports
<1> HIDE DEF old
<1>3. /\ state \in WorkerStates /\ state.at = "report" /\ state.sig = old.sig
      /\ state.verdict = verdict
  BY <1>1 DEF WorkerStates, Steps
<1> HIDE DEF state
<1>4. Sound(state) /\ Backed(state)
  BY <1>1, <1>2, <1>3 DEF Sound, Backed
<1> QED
  BY <1>2, <1>3, <1>4, OnlyWorkerMoves DEF Inv, JobTypeOK

LEMMA CheckInputStep ==
  ASSUME Inv, NEW w \in Workers, CheckInput(w)
  PROVE  Inv'
<1> USE DEF CheckInput, At
<1>1. worker[w].at \in InHand /\ worker[w] \in WorkerStates /\ worker[w].sig \in Signatures
  BY DEF InHand, Busy, Inv, JobTypeOK, Sound
<1>2. CASE Fails(w, "NO_DATA")
  BY <1>1, <1>2, FailsStep DEF Verdicts, ErrorCodes, Inv, JobTypeOK
<1>3. CASE Reports(w, "stale")
  BY <1>1, <1>3, ReportsStep DEF Verdicts
<1>4. CASE Reports(w, "success") /\ snapshots[worker[w].sig] # NoBars
  BY <1>1, <1>4, ReportsStep DEF Verdicts
<1>5. CASE Goes(w, "compute")
  <2> DEFINE old == worker[w]
             state == [old EXCEPT !.at = "compute"]
  <2>1. Does(w, state) /\ old \in WorkerStates /\ old.sig \in Signatures
    BY <1>1, <1>5 DEF Goes
  <2> HIDE DEF old
  <2>2. state \in WorkerStates /\ state.at = "compute" /\ state.sig = old.sig
    BY <2>1, GoesState DEF Steps
  <2> HIDE DEF state
  <2>3. Sound(state) /\ Backed(state)
    BY <2>1, <2>2, Waiting
  <2> QED
    BY <2>1, <2>2, <2>3, OnlyWorkerMoves DEF Inv, JobTypeOK
<1> QED
  BY <1>2, <1>3, <1>4, <1>5

LEMMA ComputeStep ==
  ASSUME Inv, NEW w \in Workers, Compute(w)
  PROVE  Inv'
<1> USE DEF Compute, At
<1>1. worker[w].at \in InHand /\ worker[w] \in WorkerStates /\ worker[w].sig \in Signatures
  BY DEF InHand, Busy, Inv, JobTypeOK, Sound
<1>2. CASE \E code \in {"NO_DATA", "CZSC_UNAVAILABLE", "ENGINE_ERROR"} : Fails(w, code)
  BY <1>1, <1>2, FailsStep DEF Verdicts, ErrorCodes, Inv, JobTypeOK
<1>3. CASE /\ Does(w, [worker[w] EXCEPT !.at = "save", !.source = bars])
           /\ bars # NoBars
  <2> DEFINE old == worker[w]
             state == [old EXCEPT !.at = "save", !.source = bars]
  <2>1. /\ Does(w, state) /\ old \in WorkerStates /\ old.sig \in Signatures
        /\ bars \in Signatures
    BY <1>1, <1>3 DEF Inv, JobTypeOK
  <2> HIDE DEF old
  <2>2. /\ state \in WorkerStates /\ state.at = "save" /\ state.sig = old.sig
        /\ state.source = bars
    BY <2>1 DEF WorkerStates, Steps
  <2> HIDE DEF state
  <2>3. Sound(state) /\ Backed(state)
    BY <2>1, <2>2 DEF Sound, Backed
  <2> QED
    BY <2>1, <2>2, <2>3, OnlyWorkerMoves DEF Inv, JobTypeOK
<1> QED
  BY <1>2, <1>3
LEMMA ReadRetriesStep ==
  ASSUME Inv, NEW w \in Workers, ReadRetries(w)
  PROVE  Inv'
<1> DEFINE old == worker[w]
           read == IF HasJob(w) THEN jobs[worker[w].sig].retries ELSE 0
           state == [old EXCEPT !.at = "fail", !.read = read]
<1>1. old \in WorkerStates /\ old.sig \in Signatures /\ old.verdict \in ErrorCodes
  BY DEF ReadRetries, At, Inv, JobTypeOK, Sound, InHand, Busy
<1>2. read \in Nat
  BY <1>1 DEF Inv, JobTypeOK, Rows
<1>3. Does(w, state)
  BY DEF ReadRetries
<1> HIDE DEF old, read
<1>4. /\ state \in WorkerStates /\ state.at = "fail" /\ state.sig = old.sig
      /\ state.verdict = old.verdict
  BY <1>1, <1>2 DEF WorkerStates, Steps
<1> HIDE DEF state
<1>5. Sound(state) /\ Backed(state)
  BY <1>1, <1>4, Waiting
<1> QED
  BY <1>3, <1>4, <1>5, OnlyWorkerMoves DEF ReadRetries, Inv, JobTypeOK

LEMMA IdleRests ==
  ASSUME NEW czsc \in BOOLEAN
  PROVE  Idle(czsc) \in WorkerStates /\ Sound(Idle(czsc)) /\ Backed(Idle(czsc))
<1>1. Idle(czsc) \in WorkerStates /\ Idle(czsc).at = "idle"
  BY IdleState
<1> QED
  BY <1>1, Waiting DEF InHand, Busy

LEMMA RaiseStep ==
  ASSUME Inv, NEW w \in Workers, Raise(w)
  PROVE  Inv'
<1>1. faults' \in 0..MaxFaults
  BY BoundsAssumption DEF Raise, Inv, JobTypeOK
<1>2. CASE Fails(w, "ENGINE_ERROR") /\ worker[w].at \in InHand
  BY <1>1, <1>2, FailsStep DEF Raise, Verdicts, ErrorCodes
<1>3. CASE Does(w, Idle(worker[w].czsc))
  <2>1. worker[w].czsc \in BOOLEAN
    BY DEF Inv, JobTypeOK, WorkerStates
  <2> QED
    BY <1>1, <1>3, <2>1, IdleRests, OnlyWorkerMoves DEF Raise
<1> QED
  BY <1>2, <1>3 DEF Raise, At, InHand, Busy

LEMMA StopStep ==
  ASSUME Inv, NEW w \in Workers, Stop(w)
  PROVE  Inv'
<1>1. Down \in WorkerStates /\ Down.at = "down"
  BY IdleState
<1>2. Sound(Down) /\ Backed(Down)
  BY <1>1, Waiting DEF InHand, Busy
<1>3. /\ worker' \in [Workers -> WorkerStates]
      /\ \A v \in Workers : (Sound(worker[v]) /\ Backed(worker[v]))'
  BY <1>1, <1>2, WorkerMoves DEF Stop
<1>4. faults' \in 0..MaxFaults
  BY BoundsAssumption DEF Stop, Inv, JobTypeOK
<1>5. JobTypeOK'
  BY <1>3, <1>4 DEF Stop, Inv, JobTypeOK
<1> QED
  BY <1>3, <1>5 DEF Stop, Inv, ClientsSound, SuccessHasSnapshot

-----------------------------------------------------------------------------
(* The workers' steps that change rows or snapshots.                       *)

(* A worker moves and rows change, none of them into a success without a   *)
(* snapshot.                                                               *)
LEMMA RowsAndWorkerMove ==
  ASSUME Inv, NEW w \in Workers, NEW state \in WorkerStates, Does(w, state),
         Sound(state), Backed(state),
         jobs' \in [Signatures -> Rows], claims' \in [Signatures -> Nat], SuccessHasSnapshot',
         UNCHANGED <<bars, snapshots, client, faults>>
  PROVE  Inv'
<1>1. /\ worker' \in [Workers -> WorkerStates]
      /\ \A v \in Workers : (Sound(worker[v]) /\ Backed(worker[v]))'
  BY WorkerMoves
<1>2. JobTypeOK'
  BY <1>1 DEF Inv, JobTypeOK
<1> QED
  BY <1>1, <1>2 DEF Inv, ClientsSound

LEMMA StartStep ==
  ASSUME Inv, NEW w \in Workers, Start(w)
  PROVE  Inv'
<1>1. PICK czsc \in BOOLEAN :
        LET recovered ==
              {s \in Signatures : czsc /\ Recoverable(jobs[s]) /\ jobs[s].id < MaxIds}
        IN  /\ Does(w, Idle(czsc))
            /\ jobs' = [s \in Signatures |->
                          IF s \in recovered THEN Requeued(jobs[s]) ELSE jobs[s]]
            /\ claims' = [s \in Signatures |-> IF s \in recovered THEN 0 ELSE claims[s]]
  BY DEF Start
<1>2. ASSUME NEW s \in Signatures
      PROVE  /\ jobs'[s] \in Rows
             /\ jobs'[s] = jobs[s] \/ jobs'[s].status # "SUCCESS"
  <2>1. jobs[s] \in Rows /\ Requeued(jobs[s]) \in Rows /\ Requeued(jobs[s]).status # "SUCCESS"
    BY RequeuedRow DEF Inv, JobTypeOK
  <2>2. jobs'[s] = jobs[s] \/ jobs'[s] = Requeued(jobs[s])
    BY <1>1
  <2> QED
    BY <2>1, <2>2
<1>3. jobs' \in [Signatures -> Rows]
  BY <1>1, <1>2
<1>4. claims' \in [Signatures -> Nat]
  BY <1>1 DEF Inv, JobTypeOK
<1>5. SuccessHasSnapshot'
  BY <1>2 DEF Start, Inv, SuccessHasSnapshot
<1>6. /\ Idle(czsc) \in WorkerStates /\ Sound(Idle(czsc)) /\ Backed(Idle(czsc))
      /\ Does(w, Idle(czsc))
  BY <1>1, IdleRests
<1> QED
  BY <1>3, <1>4, <1>5, <1>6, RowsAndWorkerMove DEF Start

LEMMA SweepStep ==
  ASSUME Inv, NEW w \in Workers, Sweep(w)
  PROVE  Inv'
<1> DEFINE old == worker[w]
           state == [old EXCEPT !.at = "claim"]
<1>1. old \in WorkerStates /\ Does(w, state)
  BY DEF Sweep, Goes, Inv, JobTypeOK
<1> HIDE DEF old
<1>2. state \in WorkerStates /\ state.at = "claim"
  BY <1>1 DEF WorkerStates, Steps
<1> HIDE DEF state
<1>3. Sound(state) /\ Backed(state)
  BY <1>2, Waiting DEF InHand, Busy
<1>4. ASSUME NEW s \in Signatures
      PROVE  /\ jobs'[s] \in Rows
             /\ jobs'[s] = jobs[s] \/ jobs'[s].status # "SUCCESS"
  <2>1. jobs[s] \in Rows /\ Swept(jobs[s]) \in Rows /\ Swept(jobs[s]).status # "SUCCESS"
    BY SweptRow DEF Inv, JobTypeOK
  <2>2. jobs'[s] = jobs[s] \/ jobs'[s] = Swept(jobs[s])
    BY DEF Sweep
  <2> QED
    BY <2>1, <2>2
<1>5. jobs' \in [Signatures -> Rows]
  BY <1>4 DEF Sweep
<1>6. SuccessHasSnapshot' /\ claims' \in [Signatures -> Nat]
  BY <1>4 DEF Sweep, Inv, JobTypeOK, SuccessHasSnapshot
<1> QED
  BY <1>1, <1>2, <1>3, <1>5, <1>6, RowsAndWorkerMove DEF Sweep
LEMMA ClaimStep ==
  ASSUME Inv, NEW w \in Workers, Claim(w)
  PROVE  Inv'
<1>1. PICK s \in Signatures :
        /\ jobs' = [jobs EXCEPT ![s] = Claimed(jobs[s], w)]
        /\ claims' = [claims EXCEPT ![s] = claims[s] + 1]
        /\ Does(w, [worker[w] EXCEPT !.at = "fetch", !.sig = s])
  BY DEF Claim
<1> DEFINE old == worker[w]
           state == [old EXCEPT !.at = "fetch", !.sig = s]
           row == Claimed(jobs[s], w)
<1>2. old \in WorkerStates /\ Does(w, state)
  BY <1>1 DEF Inv, JobTypeOK
<1>3. row \in Rows /\ row.status # "SUCCESS"
  BY ClaimedRow DEF Inv, JobTypeOK
<1>4. jobs' = [jobs EXCEPT ![s] = row] /\ snapshots' = snapshots
  BY <1>1 DEF Claim
<1> HIDE DEF old, row
<1>5. state \in WorkerStates /\ state.at = "fetch" /\ state.sig = s
  BY <1>2 DEF WorkerStates, Steps
<1> HIDE DEF state
<1>6. Sound(state) /\ Backed(state)
  BY <1>5, Waiting
<1>7. jobs' \in [Signatures -> Rows] /\ SuccessHasSnapshot'
  BY <1>3, <1>4, RowReplaced
<1>8. claims' \in [Signatures -> Nat]
  BY <1>1 DEF Inv, JobTypeOK
<1> QED
  BY <1>2, <1>5, <1>6, <1>7, <1>8, RowsAndWorkerMove DEF Claim

(* The snapshot is written first and the success is reported after it.     *)
LEMMA SaveSnapshotStep ==
  ASSUME Inv, NEW w \in Workers, SaveSnapshot(w)
  PROVE  Inv'
<1> DEFINE old == worker[w]
           state == [old EXCEPT !.at = "report", !.verdict = "success"]
<1>1. /\ old \in WorkerStates /\ old.sig \in Signatures /\ old.source \in Signatures
      /\ old.source # NoBars
      /\ snapshots' = [snapshots EXCEPT ![old.sig] = old.source]
      /\ Does(w, state)
  BY NoBarsAssumption DEF SaveSnapshot, At, Reports, Inv, JobTypeOK, Sound, InHand, Busy
<1> HIDE DEF old
<1>2. state \in WorkerStates /\ state.at = "report" /\ state.sig = old.sig
  BY <1>1 DEF WorkerStates, Steps, Verdicts
<1> HIDE DEF state
<1>3. /\ snapshots' \in [Signatures -> Signatures \cup {NoBars}]
      /\ snapshots'[old.sig] # NoBars
      /\ \A s \in Signatures : snapshots[s] # NoBars => snapshots'[s] # NoBars
  BY <1>1 DEF Inv, JobTypeOK
<1>4. /\ worker' \in [Workers -> WorkerStates]
      /\ worker'[w] = state
      /\ \A v \in Workers \ {w} : worker'[v] = worker[v]
  BY <1>1, <1>2, DoesState DEF Inv, JobTypeOK
<1>5. ASSUME NEW v \in Workers PROVE (Sound(worker[v]) /\ Backed(worker[v]))'
  <2>1. CASE v = w
    BY <1>1, <1>2, <1>3, <1>4, <2>1 DEF Sound, Backed
  <2>2. CASE v # w
    <3>1. worker'[v] = worker[v] /\ Sound(worker[v]) /\ Backed(worker[v])
      BY <1>4, <2>2 DEF Inv
    <3>2. worker[v].at = "report" => worker[v].sig \in Signatures
      BY <3>1 DEF Sound, InHand, Busy
    <3> QED
      BY <1>3, <3>1, <3>2 DEF Sound, Backed
  <2> QED
    BY <2>1, <2>2
<1>6. JobTypeOK'
  BY <1>3, <1>4 DEF SaveSnapshot, Inv, JobTypeOK
<1>7. SuccessHasSnapshot' /\ ClientsSound'
  BY <1>3 DEF SaveSnapshot, Inv, SuccessHasSnapshot, ClientsSound
<1> QED
  BY <1>5, <1>6, <1>7 DEF Inv

(* A verdict of a worker on a row: idle afterwards, and the row untouched  *)
(* or replaced.                                                            *)
LEMMA VerdictStep ==
  ASSUME Inv, NEW w \in Workers, NEW s \in Signatures, NEW row \in Rows,
         Does(w, Idle(worker[w].czsc)), row.status # "SUCCESS" \/ snapshots[s] # NoBars,
         jobs' = jobs \/ jobs' = [jobs EXCEPT ![s] = row],
         UNCHANGED <<bars, snapshots, client, faults, claims>>
  PROVE  Inv'
<1>1. worker[w].czsc \in BOOLEAN
  BY DEF Inv, JobTypeOK, WorkerStates
<1>2. jobs' \in [Signatures -> Rows] /\ SuccessHasSnapshot'
  <2>1. CASE jobs' = jobs
    BY <2>1 DEF Inv, JobTypeOK, SuccessHasSnapshot
  <2>2. CASE jobs' = [jobs EXCEPT ![s] = row]
    BY <2>2, RowReplaced
  <2> QED
    BY <2>1, <2>2
<1>3. claims' \in [Signatures -> Nat]
  BY DEF Inv, JobTypeOK
<1> QED
  BY <1>1, <1>2, <1>3, IdleRests, RowsAndWorkerMove

LEMMA ReportStep ==
  ASSUME Inv, NEW w \in Workers, Report(w)
  PROVE  Inv'
<1> DEFINE s == worker[w].sig
           row == IF worker[w].verdict = "success" THEN Completed(jobs[s]) ELSE Skipped(jobs[s])
<1>1. s \in Signatures /\ jobs[s] \in Rows
  BY DEF Report, At, Inv, JobTypeOK, Sound, InHand, Busy
<1>2. row \in Rows
  BY <1>1, CompletedRow, SkippedRow
<1>3. row.status # "SUCCESS" \/ snapshots[s] # NoBars
  BY <1>1, SkippedRow DEF Report, At, Inv, Backed
<1>4. jobs' = jobs \/ jobs' = [jobs EXCEPT ![s] = row]
  BY DEF Report
<1>5. Does(w, Idle(worker[w].czsc)) /\ UNCHANGED <<bars, snapshots, client, faults, claims>>
  BY DEF Report
<1> HIDE DEF s, row
<1> QED
  BY <1>1, <1>2, <1>3, <1>4, <1>5, VerdictStep

LEMMA WriteFailureStep ==
  ASSUME Inv, NEW w \in Workers, WriteFailure(w)
  PROVE  Inv'
<1> DEFINE s == worker[w].sig
           retryable == worker[w].verdict = "ENGINE_ERROR"
           row == Failed(jobs[s], worker[w].read, worker[w].verdict, retryable)
<1>1. /\ s \in Signatures /\ jobs[s] \in Rows
      /\ worker[w].read \in Nat /\ worker[w].verdict \in ErrorCodes
  BY DEF WriteFailure, At, Inv, JobTypeOK, WorkerStates, Sound, InHand, Busy
<1>2. jobs' = jobs \/ jobs' = [jobs EXCEPT ![s] = row]
  BY DEF WriteFailure
<1>3. Does(w, Idle(worker[w].czsc)) /\ UNCHANGED <<bars, snapshots, client, faults, claims>>
  BY DEF WriteFailure
<1>4. row \in Rows /\ row.status # "SUCCESS"
  BY <1>1, FailedRow
<1> HIDE DEF s, row
<1> QED
  BY <1>1, <1>2, <1>3, <1>4, VerdictStep

-----------------------------------------------------------------------------
(* The world, and the theorems.                                            *)

LEMMA LockExpiresStep ==
  ASSUME Inv, NEW s \in Signatures, LockExpires(s)
  PROVE  Inv'
<1> DEFINE old == jobs[s]
           row == [old EXCEPT !.expired = TRUE]
<1>1. old \in Rows /\ old.status # "SUCCESS"
  BY DEF LockExpires, Inv, JobTypeOK
<1>2. jobs' = [jobs EXCEPT ![s] = row] /\ snapshots' = snapshots
  BY DEF LockExpires
<1> HIDE DEF old
<1>3. row \in Rows /\ row.status # "SUCCESS"
  BY <1>1, ExpiredRow
<1> HIDE DEF row
<1>4. jobs' \in [Signatures -> Rows] /\ SuccessHasSnapshot'
  BY <1>2, <1>3, RowReplaced
<1>5. JobTypeOK'
  BY <1>4 DEF LockExpires, Inv, JobTypeOK
<1> QED
  BY <1>4, <1>5 DEF LockExpires, Inv, Sound, Backed, ClientsSound

LEMMA BarsChangeStep ==
  ASSUME Inv, BarsChange
  PROVE  Inv'
<1>1. JobTypeOK'
  BY DEF BarsChange, Inv, JobTypeOK
<1> QED
  BY <1>1 DEF BarsChange, Inv, Sound, Backed, ClientsSound, SuccessHasSnapshot
LEMMA StutterStep ==
  ASSUME Inv, UNCHANGED jobVars
  PROVE  Inv'
  BY DEF jobVars, Inv, JobTypeOK, Sound, Backed, ClientsSound, SuccessHasSnapshot

LEMMA NextInv ==
  ASSUME Inv, [JobNext]_jobVars
  PROVE  Inv'
<1>1. CASE \E c \in Clients : Ask(c) \/ Enqueue(c) \/ Leave(c)
  BY <1>1, AskStep, EnqueueStep, LeaveStep
<1>2. CASE \E w \in Workers : Start(w) \/ Raise(w) \/ Stop(w)
  BY <1>2, StartStep, RaiseStep, StopStep
<1>3. CASE \E w \in Workers : WorkerStep(w)
  <2>1. PICK w \in Workers : WorkerStep(w)
    BY <1>3
  <2>2. CASE Sweep(w) \/ Claim(w) \/ NothingDue(w) \/ Fetch(w)
    BY <2>2, SweepStep, ClaimStep, NothingDueStep, FetchStep
  <2>3. CASE CheckInput(w) \/ Compute(w) \/ SaveSnapshot(w)
    BY <2>3, CheckInputStep, ComputeStep, SaveSnapshotStep
  <2>4. CASE Report(w) \/ ReadRetries(w) \/ WriteFailure(w)
    BY <2>4, ReportStep, ReadRetriesStep, WriteFailureStep
  <2> QED
    BY <2>1, <2>2, <2>3, <2>4 DEF WorkerStep
<1>4. CASE \E s \in Signatures : LockExpires(s)
  BY <1>4, LockExpiresStep
<1>5. CASE BarsChange
  BY <1>5, BarsChangeStep
<1>6. CASE UNCHANGED jobVars
  BY <1>6, StutterStep
<1> QED
  BY <1>1, <1>2, <1>3, <1>4, <1>5, <1>6 DEF JobNext

(* Rows, snapshots, workers and clients stay what the code takes them for. *)
THEOREM TypeCorrectJobs == JobSpec => []JobTypeOK
<1>1. Inv => JobTypeOK
  BY DEF Inv
<1> QED
  BY <1>1, InitInv, NextInv, PTL DEF JobSpec

(* A job that is reported as a success has its snapshot, whatever the      *)
(* other workers, the clients and the bars do in between.                  *)
THEOREM SuccessesHaveSnapshots == JobSpec => []SuccessHasSnapshot
<1>1. Inv => SuccessHasSnapshot
  BY DEF Inv
<1> QED
  BY <1>1, InitInv, NextInv, PTL DEF JobSpec

-----------------------------------------------------------------------------
(* The lock.                                                               *)

(* A worker with a job in hand is the holder of a row that is              *)
(* RUNNING and not yet stale, knows its job id once it has read the row    *)
(* again, and has counted no other attempts than the row.                  *)
Fits(w, state, row) ==
    state.at \in InHand =>
        /\ row.status = "RUNNING" /\ row.holder = w /\ ~row.expired
        /\ state.at # "fetch" => state.id = row.id
        /\ state.at = "fail" => state.read = row.retries

Locks == \A w \in Workers : Fits(w, worker[w], jobs[worker[w].sig])

(* Every claim but the running one has been counted as a retry.            *)
Counted(row, n) ==
    /\ row.status \in {"NONE", "PENDING"} => n = 0 /\ row.retries = 0
    /\ row.status = "RUNNING" => n = row.retries + 1 /\ row.retries < MaxRetries
    /\ row.status = "FAILED_RETRYABLE" => n = row.retries /\ row.retries < MaxRetries
    /\ n <= MaxRetries

Attempts == \A s \in Signatures : Counted(jobs[s], claims[s])

LockInv == Inv /\ Locks /\ Attempts

Punctual == ~Overruns /\ ~StaleResets

-----------------------------------------------------------------------------
(* Rows and their counts.                                                  *)

LEMMA RequeuedCounts ==
  ASSUME NEW row
  PROVE  Counted(Requeued(row), 0)
  BY MaxRetriesAssumption DEF Counted, Requeued, NoRow

LEMMA ClaimedCounts ==
  ASSUME NEW row \in Rows, NEW n \in Nat, NEW w \in Workers, Counted(row, n), row.status \in Due
  PROVE  /\ Counted(Claimed(row, w), n + 1)
         /\ Claimed(row, w).status = "RUNNING" /\ Claimed(row, w).holder = w
         /\ ~Claimed(row, w).expired
<1> DEFINE new == Claimed(row, w)
<1>1. /\ new.status = "RUNNING" /\ new.holder = w /\ ~new.expired
      /\ new.retries = row.retries
  BY DEF Claimed, Rows
<1>2. n = row.retries /\ row.retries < MaxRetries /\ row.retries \in Nat
  BY MaxRetriesAssumption DEF Counted, Due, Rows
<1> HIDE DEF new
<1>3. Counted(new, n + 1)
  BY <1>1, <1>2, MaxRetriesAssumption DEF Counted
<1> QED
  BY <1>1, <1>3 DEF new

LEMMA SweptCounts ==
  ASSUME NEW row \in Rows, NEW n \in Nat, Counted(row, n), Stale(row)
  PROVE  Counted(Swept(row), n) /\ Swept(row).status \notin {"SUCCESS", "SKIPPED"}
<1> DEFINE new == Swept(row)
           final == row.retries + 1 >= MaxRetries
<1>1. /\ new.status = IF final THEN "FAILED_FINAL" ELSE "FAILED_RETRYABLE"
      /\ new.retries = row.retries + 1
  BY DEF Swept, Rows
<1>2. n = row.retries + 1 /\ row.retries < MaxRetries /\ row.retries \in Nat
  BY DEF Counted, Stale, Rows
<1> HIDE DEF new
<1>3. Counted(new, n)
  BY <1>1, <1>2, MaxRetriesAssumption DEF Counted
<1> QED
  BY <1>1, <1>3 DEF new

LEMMA EndedCounts ==
  ASSUME NEW row \in Rows, NEW n \in Nat, Counted(row, n)
  PROVE  Counted(Completed(row), n) /\ Counted(Skipped(row), n)
  BY DEF Counted, Completed, Skipped, Rows

LEMMA FailedCounts ==
  ASSUME NEW row \in Rows, NEW n \in Nat, NEW code, NEW retryable \in BOOLEAN,
         Counted(row, n), row.status = "RUNNING"
  PROVE  Counted(Failed(row, row.retries, code, retryable), n)
<1> DEFINE new == Failed(row, row.retries, code, retryable)
           again == retryable /\ row.retries + 1 < MaxRetries
<1>1. /\ new.status = IF again THEN "FAILED_RETRYABLE" ELSE "FAILED_FINAL"
      /\ new.retries = row.retries + 1
  BY DEF Failed, Rows
<1>2. n = row.retries + 1 /\ row.retries < MaxRetries /\ row.retries \in Nat
  BY DEF Counted, Rows
<1> HIDE DEF new
<1> QED
  BY <1>1, <1>2, MaxRetriesAssumption DEF Counted, new

LEMMA ExpiredCounts ==
  ASSUME NEW row \in Rows, NEW n \in Nat, Counted(row, n)
  PROVE  Counted([row EXCEPT !.expired = TRUE], n)
  BY DEF Counted, Rows

-----------------------------------------------------------------------------
(* What a step needs to show.                                              *)

(* The rows of all jobs in hand stay as they are.                          *)
LEMMA LocksKept ==
  ASSUME Locks,
         \A v \in Workers : worker'[v].at \in InHand =>
            worker'[v] = worker[v] /\ jobs'[worker[v].sig] = jobs[worker[v].sig]
  PROVE  Locks'
<1> SUFFICES ASSUME NEW v \in Workers, worker'[v].at \in InHand
             PROVE  Fits(v, worker'[v], jobs'[worker'[v].sig])
  BY DEF Locks, Fits
<1>1. worker'[v] = worker[v] /\ jobs'[worker[v].sig] = jobs[worker[v].sig]
  OBVIOUS
<1>2. Fits(v, worker[v], jobs[worker[v].sig])
  BY DEF Locks
<1> QED
  BY <1>1, <1>2

(* Only a worker moves, and it still fits its row.                         *)
LEMMA OnlyWorkerFits ==
  ASSUME LockInv, NEW w \in Workers, NEW state \in WorkerStates, Does(w, state),
         Fits(w, state, jobs[state.sig]), UNCHANGED <<jobs, claims>>
  PROVE  Locks' /\ Attempts'
<1>1. /\ worker'[w] = state
      /\ \A v \in Workers \ {w} : worker'[v] = worker[v]
  BY DoesState DEF LockInv, Inv, JobTypeOK
<1>2. ASSUME NEW v \in Workers PROVE Fits(v, worker'[v], jobs[worker'[v].sig])
  BY <1>1 DEF LockInv, Locks
<1>3. Attempts'
  BY DEF LockInv, Attempts
<1> QED
  BY <1>2, <1>3 DEF Locks

(* A worker puts its work down, and rows that no other worker has in hand  *)
(* change.                                                                 *)
LEMMA WorkerPutsDown ==
  ASSUME LockInv, NEW w \in Workers, NEW state \in WorkerStates, Does(w, state),
         state.at \notin InHand,
         \A v \in Workers \ {w} :
            worker[v].at \in InHand => jobs'[worker[v].sig] = jobs[worker[v].sig]
  PROVE  Locks'
<1>1. /\ worker'[w] = state
      /\ \A v \in Workers \ {w} : worker'[v] = worker[v]
  BY DoesState DEF LockInv, Inv, JobTypeOK
<1>2. \A v \in Workers : worker'[v].at \in InHand =>
        worker'[v] = worker[v] /\ jobs'[worker[v].sig] = jobs[worker[v].sig]
  BY <1>1
<1> QED
  BY <1>2, LocksKept DEF LockInv

(* Who has a job in hand, and what its row says.                           *)
LEMMA RowInHand ==
  ASSUME LockInv, NEW v \in Workers, worker[v].at \in InHand
  PROVE  /\ worker[v].sig \in Signatures /\ jobs[worker[v].sig] \in Rows
         /\ jobs[worker[v].sig].status = "RUNNING" /\ jobs[worker[v].sig].holder = v
         /\ ~jobs[worker[v].sig].expired
         /\ worker[v].at # "fetch" => HasJob(v)
         /\ worker[v].at = "fail" => worker[v].read = jobs[worker[v].sig].retries
  BY DEF LockInv, Inv, JobTypeOK, Sound, Locks, Fits, HasJob

LEMMA CountsOf ==
  ASSUME LockInv, NEW s \in Signatures
  PROVE  jobs[s] \in Rows /\ claims[s] \in Nat /\ Counted(jobs[s], claims[s])
  BY DEF LockInv, Inv, JobTypeOK, Attempts

(* One row changes, to one that is counted as well.                        *)
LEMMA AttemptsKept ==
  ASSUME LockInv, NEW s \in Signatures, NEW row, NEW n,
         jobs' = [jobs EXCEPT ![s] = row], claims' = [claims EXCEPT ![s] = n], Counted(row, n)
  PROVE  Attempts'
  BY DEF LockInv, Inv, JobTypeOK, Attempts

(* What VerdictsStand says of one step.                                    *)
Stands ==
    \A s \in Signatures :
        jobs[s].status \in Ended /\ jobs'[s].id = jobs[s].id => jobs'[s].status = jobs[s].status

Kept == Locks' /\ Attempts' /\ Stands

LEMMA RowsUnchanged ==
  ASSUME Locks', Attempts', jobs' = jobs
  PROVE  Kept
  BY DEF Kept, Stands

(* One row changes: it had not ended, or gets another job id.              *)
LEMMA OneRowStands ==
  ASSUME LockInv, NEW s \in Signatures, NEW row, jobs' = [jobs EXCEPT ![s] = row],
         jobs[s].status \notin Ended \/ row.id # jobs[s].id \/ row.status = jobs[s].status
  PROVE  Stands
  BY DEF LockInv, Inv, JobTypeOK, Stands

LEMMA InitLocks == JobInit => Locks /\ Attempts
<1> SUFFICES ASSUME JobInit PROVE Locks /\ Attempts
  OBVIOUS
<1>1. Locks
  BY DEF JobInit, Locks, Fits, InHand, Busy, Down
<1>2. ASSUME NEW s \in Signatures PROVE Counted(jobs[s], claims[s])
  <2>1. jobs[s] = NoRow /\ claims[s] = 0
    BY DEF JobInit
  <2>2. Counted(NoRow, 0)
    BY MaxRetriesAssumption DEF Counted, NoRow
  <2> QED
    BY <2>1, <2>2
<1> QED
  BY <1>1, <1>2 DEF Attempts

-----------------------------------------------------------------------------
(* The clients' steps: only a row that is no job, or has ended, is reset.  *)

LEMMA EnqueueKeeps ==
  ASSUME Punctual, LockInv, NEW c \in Clients, Enqueue(c)
  PROVE  Kept
<1> DEFINE s == client[c].sig
           row == Requeued(jobs[s])
<1>1. s \in Signatures /\ jobs[s] \in Rows
  BY DEF Enqueue, LockInv, Inv, JobTypeOK, ClientsSound
<1>2. jobs[s].status \in Ended \cup {"NONE"}
  BY DEF Enqueue, Changed, Resets, Punctual, Ended
<1>3. /\ jobs' = [jobs EXCEPT ![s] = row] /\ claims' = [claims EXCEPT ![s] = 0]
      /\ worker' = worker
  BY DEF Enqueue
<1>4. Counted(row, 0)
  BY RequeuedCounts
<1>5. row.id # jobs[s].id
  BY <1>1 DEF Requeued, NoRow, Rows
<1> HIDE DEF s, row
<1>6. Attempts'
  BY <1>1, <1>3, <1>4, AttemptsKept
<1>7. ASSUME NEW v \in Workers, worker[v].at \in InHand
      PROVE  jobs'[worker[v].sig] = jobs[worker[v].sig]
  <2>1. worker[v].sig # s /\ worker[v].sig \in Signatures
    BY <1>2, <1>7, RowInHand DEF Ended
  <2> QED
    BY <1>3, <2>1 DEF LockInv, Inv, JobTypeOK
<1>8. Locks'
  BY <1>3, <1>7, LocksKept DEF LockInv
<1>9. Stands
  BY <1>1, <1>3, <1>5, OneRowStands
<1> QED
  BY <1>6, <1>8, <1>9 DEF Kept

(* Steps that leave rows, counts and workers alone.                        *)
LEMMA AsideKeeps ==
  ASSUME LockInv, UNCHANGED <<jobs, claims, worker>>
  PROVE  Kept
  BY DEF LockInv, Kept, Locks, Attempts, Stands

-----------------------------------------------------------------------------
(* The workers' steps that leave the rows alone.                           *)

(* A worker that puts its job down.                                        *)
LEMMA PutDownKeeps ==
  ASSUME LockInv, NEW w \in Workers, NEW state \in WorkerStates, Does(w, state),
         state.at \notin InHand, UNCHANGED <<jobs, claims>>
  PROVE  Kept
<1>1. Fits(w, state, jobs[state.sig])
  BY DEF Fits
<1> QED
  BY <1>1, OnlyWorkerFits, RowsUnchanged

(* A worker that goes on with its job.                                     *)
LEMMA GoesOnKeeps ==
  ASSUME LockInv, NEW w \in Workers, NEW state \in WorkerStates, Does(w, state),
         worker[w].at \in InHand, state.sig = worker[w].sig,
         state.at # "fetch" => state.id = jobs[worker[w].sig].id,
         state.at = "fail" => state.read = jobs[worker[w].sig].retries,
         UNCHANGED <<jobs, claims>>
  PROVE  Kept
<1>1. Fits(w, state, jobs[state.sig])
  BY RowInHand DEF Fits
<1> QED
  BY <1>1, OnlyWorkerFits, RowsUnchanged

LEMMA NothingDueKeeps ==
  ASSUME LockInv, NEW w \in Workers, NothingDue(w)
  PROVE  Kept
<1> DEFINE old == worker[w]
           state == [old EXCEPT !.at = "idle"]
<1>1. old \in WorkerStates /\ Does(w, state) /\ UNCHANGED <<jobs, claims>>
  BY DEF NothingDue, Goes, LockInv, Inv, JobTypeOK
<1> HIDE DEF old
<1>2. state \in WorkerStates /\ state.at \notin InHand
  BY <1>1 DEF WorkerStates, Steps, InHand, Busy
<1> HIDE DEF state
<1> QED
  BY <1>1, <1>2, PutDownKeeps

(* The row has been RUNNING since the claim: its job id is still that of   *)
(* the job that was claimed.                                               *)
LEMMA FetchKeeps ==
  ASSUME LockInv, NEW w \in Workers, Fetch(w)
  PROVE  Kept
<1> DEFINE old == worker[w]
           id == jobs[old.sig].id
           state == [old EXCEPT !.at = "check", !.id = id]
<1>1. old \in WorkerStates /\ Does(w, state) /\ UNCHANGED <<jobs, claims>>
  BY DEF Fetch, LockInv, Inv, JobTypeOK
<1>2. old.at \in InHand /\ id \in Nat
  BY RowInHand DEF Fetch, At, InHand, Rows
<1> HIDE DEF old, id
<1>3. state \in WorkerStates /\ state.at = "check" /\ state.sig = old.sig /\ state.id = id
  BY <1>1, <1>2 DEF WorkerStates, Steps
<1> HIDE DEF state
<1> QED
  BY <1>1, <1>2, <1>3, GoesOnKeeps DEF old, id

LEMMA FailsKeeps ==
  ASSUME LockInv, NEW w \in Workers, NEW code \in Verdicts, worker[w].at \in InHand \ {"fetch"},
         Fails(w, code), UNCHANGED <<jobs, claims>>
  PROVE  Kept
<1> DEFINE old == worker[w]
           state == [old EXCEPT !.at = "count", !.verdict = code]
<1>1. /\ old \in WorkerStates /\ Does(w, state)
      /\ old.at \in InHand /\ old.id = jobs[old.sig].id
  BY RowInHand DEF Fails, HasJob, LockInv, Inv, JobTypeOK
<1> HIDE DEF old
<1>2. /\ state \in WorkerStates /\ state.at = "count" /\ state.sig = old.sig
      /\ state.id = old.id
  BY <1>1 DEF WorkerStates, Steps
<1> HIDE DEF state
<1> QED
  BY <1>1, <1>2, GoesOnKeeps DEF old

LEMMA ReportsKeeps ==
  ASSUME LockInv, NEW w \in Workers, NEW verdict \in Verdicts,
         worker[w].at \in InHand \ {"fetch"}, Reports(w, verdict), UNCHANGED <<jobs, claims>>
  PROVE  Kept
<1> DEFINE old == worker[w]
           state == [old EXCEPT !.at = "report", !.verdict = verdict]
<1>1. /\ old \in WorkerStates /\ Does(w, state)
      /\ old.at \in InHand /\ old.id = jobs[old.sig].id
  BY RowInHand DEF Reports, HasJob, LockInv, Inv, JobTypeOK
<1> HIDE DEF old
<1>2. /\ state \in WorkerStates /\ state.at = "report" /\ state.sig = old.sig
      /\ state.id = old.id
  BY <1>1 DEF WorkerStates, Steps
<1> HIDE DEF state
<1> QED
  BY <1>1, <1>2, GoesOnKeeps DEF old

LEMMA CheckInputKeeps ==
  ASSUME LockInv, NEW w \in Workers, CheckInput(w)
  PROVE  Kept
<1> USE DEF CheckInput, At
<1>1. worker[w].at \in InHand \ {"fetch"}
  BY DEF InHand, Busy
<1>2. CASE Fails(w, "NO_DATA")
  BY <1>1, <1>2, FailsKeeps DEF Verdicts
<1>3. CASE Reports(w, "stale") \/ Reports(w, "success")
  BY <1>1, <1>3, ReportsKeeps DEF Verdicts
<1>4. CASE Goes(w, "compute")
  <2> DEFINE old == worker[w]
             state == [old EXCEPT !.at = "compute"]
  <2>1. /\ old \in WorkerStates /\ Does(w, state)
        /\ old.at \in InHand /\ old.id = jobs[old.sig].id
    BY <1>1, <1>4, RowInHand DEF Goes, HasJob, LockInv, Inv, JobTypeOK
  <2> HIDE DEF old
  <2>2. /\ state \in WorkerStates /\ state.at = "compute" /\ state.sig = old.sig
        /\ state.id = old.id
    BY <2>1 DEF WorkerStates, Steps
  <2> HIDE DEF state
  <2> QED
    BY <2>1, <2>2, GoesOnKeeps DEF old
<1> QED
  BY <1>2, <1>3, <1>4

LEMMA ComputeKeeps ==
  ASSUME LockInv, NEW w \in Workers, Compute(w)
  PROVE  Kept
<1> USE DEF Compute, At
<1>1. worker[w].at \in InHand \ {"fetch"}
  BY DEF InHand, Busy
<1>2. CASE \E code \in {"NO_DATA", "CZSC_UNAVAILABLE", "ENGINE_ERROR"} : Fails(w, code)
  BY <1>1, <1>2, FailsKeeps DEF Verdicts
<1>3. CASE Does(w, [worker[w] EXCEPT !.at = "save", !.source = bars])
  <2> DEFINE old == worker[w]
             state == [old EXCEPT !.at = "save", !.source = bars]
  <2>1. /\ old \in WorkerStates /\ Does(w, state) /\ bars \in Signatures \cup {NoBars}
        /\ old.at \in InHand /\ old.id = jobs[old.sig].id
    BY <1>1, <1>3, RowInHand DEF HasJob, LockInv, Inv, JobTypeOK
  <2> HIDE DEF old
  <2>2. /\ state \in WorkerStates /\ state.at = "save" /\ state.sig = old.sig
        /\ state.id = old.id
    BY <2>1 DEF WorkerStates, Steps
  <2> HIDE DEF state
  <2> QED
    BY <2>1, <2>2, GoesOnKeeps DEF old
<1> QED
  BY <1>2, <1>3

LEMMA SaveSnapshotKeeps ==
  ASSUME LockInv, NEW w \in Workers, SaveSnapshot(w)
  PROVE  Kept
  BY ReportsKeeps DEF SaveSnapshot, At, InHand, Busy, Verdicts

(* No other worker has failed the job in the meantime: what is counted is  *)
(* what the row says.                                                      *)
LEMMA ReadRetriesKeeps ==
  ASSUME LockInv, NEW w \in Workers, ReadRetries(w)
  PROVE  Kept
<1> DEFINE old == worker[w]
           read == IF HasJob(w) THEN jobs[worker[w].sig].retries ELSE 0
           state == [old EXCEPT !.at = "fail", !.read = read]
<1>1. /\ old \in WorkerStates /\ Does(w, state) /\ UNCHANGED <<jobs, claims>>
      /\ old.at \in InHand /\ old.id = jobs[old.sig].id
      /\ read = jobs[old.sig].retries /\ read \in Nat
  BY RowInHand DEF ReadRetries, At, InHand, Busy, HasJob, LockInv, Inv, JobTypeOK, Rows
<1> HIDE DEF old, read
<1>2. /\ state \in WorkerStates /\ state.at = "fail" /\ state.sig = old.sig
      /\ state.id = old.id /\ state.read = read
  BY <1>1 DEF WorkerStates, Steps
<1> HIDE DEF state
<1> QED
  BY <1>1, <1>2, GoesOnKeeps DEF old

LEMMA IdleKeeps ==
  ASSUME LockInv, NEW w \in Workers, Does(w, Idle(worker[w].czsc)) \/ Does(w, Down),
         UNCHANGED <<jobs, claims>>
  PROVE  Kept
<1>1. worker[w].czsc \in BOOLEAN
  BY DEF LockInv, Inv, JobTypeOK, WorkerStates
<1>2. /\ Idle(worker[w].czsc) \in WorkerStates /\ Idle(worker[w].czsc).at \notin InHand
      /\ Down \in WorkerStates /\ Down.at \notin InHand
  BY <1>1, IdleState DEF InHand, Busy
<1> QED
  BY <1>2, PutDownKeeps

LEMMA RaiseKeeps ==
  ASSUME LockInv, NEW w \in Workers, Raise(w)
  PROVE  Kept
<1>1. CASE Fails(w, "ENGINE_ERROR") /\ worker[w].at \in {"check", "compute", "save", "report"}
  BY <1>1, FailsKeeps DEF Raise, InHand, Busy, Verdicts
<1>2. CASE Does(w, Idle(worker[w].czsc))
  BY <1>2, IdleKeeps DEF Raise
<1> QED
  BY <1>1, <1>2 DEF Raise, At

LEMMA StopKeeps ==
  ASSUME LockInv, NEW w \in Workers, Stop(w)
  PROVE  Kept
  BY IdleKeeps DEF Stop

-----------------------------------------------------------------------------
(* The workers' steps that change rows.                                    *)

(* A recovered row had failed for good: nobody has it in hand.             *)
LEMMA StartKeeps ==
  ASSUME LockInv, NEW w \in Workers, Start(w)
  PROVE  Kept
<1>1. PICK czsc \in BOOLEAN :
        LET recovered ==
              {s \in Signatures : czsc /\ Recoverable(jobs[s]) /\ jobs[s].id < MaxIds}
        IN  /\ Does(w, Idle(czsc))
            /\ jobs' = [s \in Signatures |->
                          IF s \in recovered THEN Requeued(jobs[s]) ELSE jobs[s]]
            /\ claims' = [s \in Signatures |-> IF s \in recovered THEN 0 ELSE claims[s]]
  BY DEF Start
<1>2. ASSUME NEW s \in Signatures
      PROVE  \/ jobs'[s] = jobs[s] /\ claims'[s] = claims[s]
             \/ /\ jobs[s].status = "FAILED_FINAL"
                /\ jobs'[s] = Requeued(jobs[s]) /\ claims'[s] = 0
  BY <1>1 DEF Recoverable
<1>3. ASSUME NEW s \in Signatures PROVE Counted(jobs'[s], claims'[s])
  BY <1>2, RequeuedCounts, CountsOf
<1>4. ASSUME NEW v \in Workers, worker[v].at \in InHand
      PROVE  jobs'[worker[v].sig] = jobs[worker[v].sig]
  BY <1>2, <1>4, RowInHand
<1>5. Idle(czsc) \in WorkerStates /\ Idle(czsc).at \notin InHand
  BY IdleState DEF InHand, Busy
<1>6. Locks'
  BY <1>1, <1>4, <1>5, WorkerPutsDown
<1>7. ASSUME NEW s \in Signatures, jobs'[s].id = jobs[s].id PROVE jobs'[s] = jobs[s]
  <2>1. Requeued(jobs[s]).id # jobs[s].id
    BY CountsOf DEF Requeued, NoRow, Rows
  <2> QED
    BY <1>2, <1>7, <2>1
<1> QED
  BY <1>3, <1>6, <1>7 DEF Kept, Attempts, Stands

(* A stale row has lost its worker: one that computes keeps to its time.   *)
LEMMA SweepKeeps ==
  ASSUME LockInv, NEW w \in Workers, Sweep(w)
  PROVE  Kept
<1> DEFINE old == worker[w]
           state == [old EXCEPT !.at = "claim"]
<1>1. old \in WorkerStates /\ Does(w, state)
  BY DEF Sweep, Goes, LockInv, Inv, JobTypeOK
<1> HIDE DEF old
<1>2. state \in WorkerStates /\ state.at \notin InHand
  BY <1>1 DEF WorkerStates, Steps, InHand, Busy
<1> HIDE DEF state
<1>3. ASSUME NEW s \in Signatures
      PROVE  \/ jobs'[s] = jobs[s]
             \/ Stale(jobs[s]) /\ jobs'[s] = Swept(jobs[s])
  BY DEF Sweep
<1>4. claims' = claims
  BY DEF Sweep
<1>5. ASSUME NEW s \in Signatures PROVE Counted(jobs'[s], claims'[s])
  BY <1>3, <1>4, SweptCounts, CountsOf
<1>6. ASSUME NEW v \in Workers, worker[v].at \in InHand
      PROVE  jobs'[worker[v].sig] = jobs[worker[v].sig]
  BY <1>3, <1>6, RowInHand DEF Stale
<1>7. Locks'
  BY <1>1, <1>2, <1>6, WorkerPutsDown
<1>8. Stands
  BY <1>3 DEF Stands, Stale, Ended
<1> QED
  BY <1>5, <1>7, <1>8 DEF Kept, Attempts

(* The claim gives the row one holder, and one claim more.                 *)
LEMMA ClaimKeeps ==
  ASSUME LockInv, NEW w \in Workers, Claim(w)
  PROVE  Kept
<1>1. PICK s \in Signatures :
        /\ jobs[s].status \in Due
        /\ jobs' = [jobs EXCEPT ![s] = Claimed(jobs[s], w)]
        /\ claims' = [claims EXCEPT ![s] = claims[s] + 1]
        /\ Does(w, [worker[w] EXCEPT !.at = "fetch", !.sig = s])
  BY DEF Claim
<1> DEFINE old == worker[w]
           state == [old EXCEPT !.at = "fetch", !.sig = s]
           row == Claimed(jobs[s], w)
           n == claims[s] + 1
<1>2. /\ old \in WorkerStates /\ Does(w, state)
      /\ jobs' = [jobs EXCEPT ![s] = row] /\ claims' = [claims EXCEPT ![s] = n]
  BY <1>1 DEF LockInv, Inv, JobTypeOK
<1>3. Counted(row, n) /\ row.status = "RUNNING" /\ row.holder = w /\ ~row.expired
  BY <1>1, CountsOf, ClaimedCounts
<1> HIDE DEF old, row, n
<1>4. state \in WorkerStates /\ state.at = "fetch" /\ state.sig = s
  BY <1>2 DEF WorkerStates, Steps
<1> HIDE DEF state
<1>5. Attempts'
  BY <1>2, <1>3, AttemptsKept
<1>6. /\ worker'[w] = state
      /\ \A v \in Workers \ {w} : worker'[v] = worker[v]
  BY <1>2, <1>4, DoesState DEF LockInv, Inv, JobTypeOK
<1>7. jobs'[s] = row /\ \A t \in Signatures \ {s} : jobs'[t] = jobs[t]
  BY <1>2 DEF LockInv, Inv, JobTypeOK
<1>8. ASSUME NEW v \in Workers PROVE Fits(v, worker'[v], jobs'[worker'[v].sig])
  <2>1. CASE v = w
    BY <1>3, <1>4, <1>6, <1>7, <2>1 DEF Fits
  <2>2. CASE v # w /\ worker[v].at \in InHand
    <3>1. worker[v].sig \in Signatures \ {s}
      BY <1>1, <2>2, RowInHand DEF Due
    <3> QED
      BY <1>6, <1>7, <2>2, <3>1 DEF LockInv, Locks
  <2>3. CASE v # w /\ worker[v].at \notin InHand
    BY <1>6, <2>3 DEF Fits
  <2> QED
    BY <2>1, <2>2, <2>3
<1>9. Stands
  BY <1>1, <1>2, OneRowStands DEF Due, Ended
<1> QED
  BY <1>5, <1>8, <1>9 DEF Kept, Locks

(* A verdict is written by the holder of a RUNNING row, and by nobody else.*)
LEMMA VerdictKeeps ==
  ASSUME LockInv, NEW w \in Workers, worker[w].at \in InHand, NEW row,
         Counted(row, claims[worker[w].sig]),
         jobs' = [jobs EXCEPT ![worker[w].sig] = row], claims' = claims,
         Does(w, Idle(worker[w].czsc))
  PROVE  Kept
<1> DEFINE s == worker[w].sig
<1>1. /\ s \in Signatures /\ jobs[s].status = "RUNNING" /\ jobs[s].holder = w
      /\ claims' = [claims EXCEPT ![s] = claims[s]]
  BY RowInHand DEF LockInv, Inv, JobTypeOK
<1>2. Attempts'
  BY <1>1, AttemptsKept
<1>3. worker[w].czsc \in BOOLEAN
  BY DEF LockInv, Inv, JobTypeOK, WorkerStates
<1>4. Idle(worker[w].czsc) \in WorkerStates /\ Idle(worker[w].czsc).at \notin InHand
  BY <1>3, IdleState DEF InHand, Busy
<1>5. ASSUME NEW v \in Workers \ {w}, worker[v].at \in InHand
      PROVE  jobs'[worker[v].sig] = jobs[worker[v].sig]
  <2>1. worker[v].sig \in Signatures \ {s}
    BY <1>1, <1>5, RowInHand
  <2> QED
    BY <2>1 DEF LockInv, Inv, JobTypeOK
<1>6. Locks'
  BY <1>4, <1>5, WorkerPutsDown
<1>7. Stands
  BY <1>1, OneRowStands DEF Ended
<1> QED
  BY <1>2, <1>6, <1>7 DEF Kept

LEMMA ReportKeeps ==
  ASSUME LockInv, NEW w \in Workers, Report(w)
  PROVE  Kept
<1> DEFINE s == worker[w].sig
           row == IF worker[w].verdict = "success" THEN Completed(jobs[s]) ELSE Skipped(jobs[s])
<1>1. worker[w].at \in InHand \ {"fetch"} /\ claims' = claims /\ Does(w, Idle(worker[w].czsc))
  BY DEF Report, At, InHand, Busy
<1>2. jobs' = [jobs EXCEPT ![s] = row]
  BY <1>1, RowInHand DEF Report
<1>3. Counted(row, claims[s])
  BY <1>1, RowInHand, CountsOf, EndedCounts
<1> HIDE DEF row
<1> QED
  BY <1>1, <1>2, <1>3, VerdictKeeps

LEMMA WriteFailureKeeps ==
  ASSUME LockInv, NEW w \in Workers, WriteFailure(w)
  PROVE  Kept
<1> DEFINE s == worker[w].sig
           retryable == worker[w].verdict = "ENGINE_ERROR"
           row == Failed(jobs[s], jobs[s].retries, worker[w].verdict, retryable)
<1>1. worker[w].at = "fail" /\ claims' = claims /\ Does(w, Idle(worker[w].czsc))
  BY DEF WriteFailure, At
<1>2. worker[w].at \in InHand
  BY <1>1 DEF InHand, Busy
<1>3. HasJob(w) /\ worker[w].read = jobs[s].retries
  BY <1>1, <1>2, RowInHand
<1>4. jobs' = [jobs EXCEPT ![s] = row]
  BY <1>3 DEF WriteFailure
<1>5. Counted(row, claims[s])
  BY <1>2, RowInHand, CountsOf, FailedCounts
<1> HIDE DEF row
<1> QED
  BY <1>1, <1>2, <1>4, <1>5, VerdictKeeps

-----------------------------------------------------------------------------
(* The world, and the theorems.                                            *)

LEMMA LockExpiresKeeps ==
  ASSUME Punctual, LockInv, NEW s \in Signatures, LockExpires(s)
  PROVE  Kept
<1> DEFINE old == jobs[s]
           row == [old EXCEPT !.expired = TRUE]
<1>1. /\ old \in Rows /\ old.status = "RUNNING" /\ Counted(old, claims[s])
      /\ claims[s] \in Nat /\ ~WorksOn(old.holder, s)
  BY CountsOf DEF LockExpires, Punctual
<1>2. jobs' = [jobs EXCEPT ![s] = row] /\ worker' = worker /\ claims' = claims
  BY DEF LockExpires
<1>3. Counted(row, claims[s])
  BY <1>1, ExpiredCounts
<1> HIDE DEF row
<1>4. Attempts'
  <2>1. claims' = [claims EXCEPT ![s] = claims[s]]
    BY <1>2 DEF LockInv, Inv, JobTypeOK
  <2> QED
    BY <1>2, <1>3, <2>1, AttemptsKept
<1>5. ASSUME NEW v \in Workers, worker[v].at \in InHand
      PROVE  jobs'[worker[v].sig] = jobs[worker[v].sig]
  <2>1. worker[v].sig # s /\ worker[v].sig \in Signatures
    BY <1>1, <1>5, RowInHand DEF WorksOn, InHand, Busy
  <2> QED
    BY <1>2, <2>1 DEF LockInv, Inv, JobTypeOK
<1>6. Locks'
  BY <1>2, <1>5, LocksKept DEF LockInv
<1>7. Stands
  BY <1>1, <1>2, OneRowStands DEF Ended
<1> QED
  BY <1>4, <1>6, <1>7 DEF Kept

LEMMA NextKeeps ==
  ASSUME Punctual, LockInv, [JobNext]_jobVars
  PROVE  Kept
<1>1. CASE \E c \in Clients : Ask(c) \/ Leave(c)
  BY <1>1, AsideKeeps DEF Ask, Leave
<1>2. CASE \E c \in Clients : Enqueue(c)
  BY <1>2, EnqueueKeeps
<1>3. CASE \E w \in Workers : Start(w) \/ Raise(w) \/ Stop(w)
  BY <1>3, StartKeeps, RaiseKeeps, StopKeeps
<1>4. CASE \E w \in Workers : WorkerStep(w)
  <2>1. PICK w \in Workers : WorkerStep(w)
    BY <1>4
  <2>2. CASE Sweep(w) \/ Claim(w) \/ NothingDue(w) \/ Fetch(w)
    BY <2>2, SweepKeeps, ClaimKeeps, NothingDueKeeps, FetchKeeps
  <2>3. CASE CheckInput(w) \/ Compute(w) \/ SaveSnapshot(w)
    BY <2>3, CheckInputKeeps, ComputeKeeps, SaveSnapshotKeeps
  <2>4. CASE Report(w) \/ ReadRetries(w) \/ WriteFailure(w)
    BY <2>4, ReportKeeps, ReadRetriesKeeps, WriteFailureKeeps
  <2> QED
    BY <2>1, <2>2, <2>3, <2>4 DEF WorkerStep
<1>5. CASE \E s \in Signatures : LockExpires(s)
  BY <1>5, LockExpiresKeeps
<1>6. CASE BarsChange \/ UNCHANGED jobVars
  BY <1>6, AsideKeeps DEF BarsChange, jobVars
<1> QED
  BY <1>1, <1>2, <1>3, <1>4, <1>5, <1>6 DEF JobNext

(* The inductive invariant: who works holds the lock, and every claim but  *)
(* the running one is counted.                                             *)
LEMMA LocksHold == ASSUME Punctual PROVE JobSpec => []LockInv
<1>1. JobInit => LockInv
  BY InitInv, InitLocks DEF LockInv
<1>2. LockInv /\ [JobNext]_jobVars => LockInv'
  BY NextInv, NextKeeps DEF LockInv, Kept
<1> QED
  BY <1>1, <1>2, PTL DEF JobSpec

(* A job id is claimed at most max_retries times, whatever stops, raises   *)
(* or times out in between.                                                *)
THEOREM AttemptsAreBounded == ASSUME Punctual PROVE JobSpec => []AttemptsBounded
<1>1. LockInv => AttemptsBounded
  BY DEF LockInv, Attempts, Counted, AttemptsBounded
<1> QED
  BY <1>1, LocksHold, PTL

(* No two workers have the same job in hand.                               *)
THEOREM OneWorkerAJob == ASSUME Punctual PROVE JobSpec => []OneWorkerPerJob
<1>1. LockInv => OneWorkerPerJob
  <2> SUFFICES ASSUME LockInv, NEW v \in Workers, NEW w \in Workers,
                      worker[v].at \in Busy, worker[w].at \in Busy,
                      worker[v].sig = worker[w].sig
               PROVE  v = w
    BY DEF OneWorkerPerJob
  <2> QED
    BY RowInHand DEF InHand
<1> QED
  BY <1>1, LocksHold, PTL

(* An ended job keeps its verdict: no late worker overwrites it.           *)
THEOREM VerdictsAreKept == ASSUME Punctual PROVE JobSpec => VerdictsStand
<1>1. LockInv /\ [JobNext]_jobVars => [Stands]_jobVars
  BY NextKeeps DEF Kept
<1>2. [][Stands]_jobVars => VerdictsStand
  <2>1. [Stands]_jobVars =>
          [\A s \in Signatures :
             jobs[s].status \in Ended /\ jobs'[s].id = jobs[s].id
                => jobs'[s].status = jobs[s].status]_jobVars
    BY DEF Stands
  <2> QED
    BY <2>1, PTL DEF VerdictsStand
<1> QED
  BY <1>1, <1>2, LocksHold, PTL DEF JobSpec
=============================================================================
