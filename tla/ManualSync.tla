----------------------------- MODULE ManualSync -----------------------------
(***************************************************************************)
(* The synchronisations that a page starts: of the daily files of the      *)
(* whole market (a job in an executor of one thread), of the symbols that  *)
(* are tracked after the close (a background task, with a batch row), and  *)
(* of one symbol (a request that awaits after every step, with a batch row *)
(* of its own).  The local TDX client writes one file of days per symbol;  *)
(* a daily synchronisation copies the new days into raw_bars and marks the *)
(* symbol with the last of them, many files to a transaction.              *)
(*                                                                         *)
(* Days count from 1.  Of a day the lake has no row, one derived from the  *)
(* minutes of that day, or the official one of the file.  Minute files,    *)
(* prices and the preview rows that minutes hide are left out.             *)
(***************************************************************************)
EXTENDS Integers, Sequences, SequencesExt

CONSTANTS
    Files,          \* the symbols, in the order in which their files are read
    Tracked,        \* those that are held or watched, in their order
    Freqs,          \* ALL_FREQS, in their order
    TailRecords,    \* TAIL_RECORDS: of a marked symbol, the last days that are read
    Away,           \* the most days that a mark stays behind its file
    FullTogether,   \* a full synchronisation after the close and a daily job may
                    \* run at the same time
    MaxToday,       \* bound: the days
    MaxStarts,      \* bound: the jobs and requests
    MaxBreaks       \* bound: raised exceptions and stops of the process

VARIABLES
    tradingDay, file,    \* the day; symbol -> the last day in its file
    raw, mark,      \* symbol -> day -> its row; symbol -> tdx_sync_meta.last_date
    draft, writer,  \* the rows and marks of the open transaction, and whose it is
    job,            \* task -> how the latest of its kind goes
    batch,          \* kind -> the status of its latest row of market_data_batches
    refresh,        \* the request for one symbol
    starts, breaks  \* history: see the bounds

manualVars ==
    <<tradingDay, file, raw, mark, draft, writer, job, batch, refresh, starts, breaks>>

FileSymbols == Range(Files)
FileDays == 1..MaxToday
SyncTasks == {"daily", "postmarket"}
RunStatuses == {"none", "running", "success", "error"}

ASSUME ManualAssumption ==
    /\ Files \in Seq(FileSymbols) /\ Files # <<>>
    /\ Tracked \in Seq(FileSymbols)
    /\ Freqs \in Seq(Range(Freqs))
    /\ {TailRecords, MaxToday} \subseteq Nat \ {0}
    /\ {Away, MaxStarts, MaxBreaks} \subseteq Nat
    /\ FullTogether \in BOOLEAN

Stored == [raw |-> raw, mark |-> mark]
EmptyRows == [s \in FileSymbols |-> [d \in FileDays |-> "none"]]
NoMarks == [s \in FileSymbols |-> 0]
NoDraft == [raw |-> EmptyRows, mark |-> NoMarks]
NoJob ==
    [at |-> "idle", status |-> "none", full |-> FALSE, todo |-> <<>>, known |-> NoMarks,
     files |-> NoMarks]
NothingTaken == [d \in FileDays |-> "none"]
NoRequest ==
    [at |-> "idle", symbol |-> Head(Files), freqs |-> {}, todo |-> <<>>,
     taken |-> NothingTaken, wrote |-> {}, changed |-> {}, queued |-> {}, raised |-> FALSE]

RowsOfDays == [FileDays -> {"none", "derived", "official"}]
FileMarks == [FileSymbols -> 0..MaxToday]
LakeStates == [raw : [FileSymbols -> RowsOfDays], mark : FileMarks]
SyncJobs ==
    [at : {"idle", "create", "begin", "files", "done", "tracked"}, status : RunStatuses,
     full : BOOLEAN, todo : Seq(FileSymbols), known : FileMarks, files : FileMarks]
FreqSets == SUBSET (Range(Freqs) \cup {"day"})
SymbolRequests ==
    [at : {"idle", "factor", "freqs", "local", "queue", "close", "closed"},
     symbol : FileSymbols, freqs : FreqSets, todo : Seq(Range(Freqs)),
     taken : RowsOfDays, wrote : FreqSets, changed : FreqSets, queued : FreqSets,
     raised : BOOLEAN]

ManualTypeOK ==
    /\ tradingDay \in FileDays /\ file \in FileMarks
    /\ raw \in [FileSymbols -> RowsOfDays] /\ mark \in FileMarks
    /\ draft \in LakeStates
    /\ writer \in SyncTasks \cup {"none"} /\ (writer = "none" => draft = NoDraft)
    /\ job \in [SyncTasks -> SyncJobs]
    /\ batch \in [{"postmarket", "symbol"} -> RunStatuses \cup {"partial", "failed"}]
    /\ refresh \in SymbolRequests
    /\ starts \in 0..MaxStarts /\ breaks \in 0..MaxBreaks

ManualInit ==
    /\ tradingDay = 1 /\ file = NoMarks
    /\ raw = EmptyRows /\ mark = NoMarks
    /\ draft = NoDraft /\ writer = "none"
    /\ job = [t \in SyncTasks |-> NoJob]
    /\ batch = [k \in {"postmarket", "symbol"} |-> "none"]
    /\ refresh = NoRequest /\ starts = 0 /\ breaks = 0

Starts == starts < MaxStarts /\ starts' = starts + 1
Interrupts == breaks < MaxBreaks /\ breaks' = breaks + 1
Works(t, state) == job' = [job EXCEPT ![t] = state]
Ends(t, status) == job' = [job EXCEPT ![t] = [NoJob EXCEPT !.status = status]]

-----------------------------------------------------------------------------
(* The days go by, and the client writes its files (external).             *)

NextDay ==
    /\ tradingDay < MaxToday
    /\ tradingDay' = tradingDay + 1
    /\ UNCHANGED <<file, raw, mark, draft, writer, job, batch, refresh, starts, breaks>>

(* No mark, stored or about to be, is left further behind than Away.       *)
FileWritten(s) ==
    /\ file[s] < tradingDay
    /\ \A known \in {mark[s], draft.mark[s]} : known > 0 => tradingDay - known <= Away
    /\ file' = [file EXCEPT ![s] = tradingDay]
    /\ UNCHANGED <<tradingDay, raw, mark, draft, writer, job, batch, refresh, starts, breaks>>

-----------------------------------------------------------------------------
(* sync_daily_files: the steps that both tasks take.                       *)

Alone(full) ==
    FullTogether \/ \A t \in SyncTasks : job[t].status = "running" => ~full /\ ~job[t].full

(* A full synchronisation forgets all days first, in a transaction of its  *)
(* own; the marks are read once, for all files.                            *)
BeginSync(t) ==
    /\ job[t].at = "begin"
    /\ Works(t, [job[t] EXCEPT !.at = "files", !.todo = Files, !.files = file,
                               !.known = IF job[t].full THEN NoMarks ELSE mark])
    /\ IF job[t].full
       THEN writer = "none" /\ raw' = EmptyRows /\ mark' = NoMarks
       ELSE UNCHANGED <<raw, mark>>
    /\ UNCHANGED <<tradingDay, file, draft, writer, batch, refresh, starts, breaks>>

(* Mutant: the last record is counted among those before the tail.         *)
NewDaysShort(s, last) ==
    {d \in FileDays : d <= file[s] /\ d > last /\ (last > 0 => d > file[s] - TailRecords + 1)}

(* _parse_day_file: the days behind the mark, of the last ones if there is *)
(* one.                                                                    *)
NewDays(s, last) ==
    {d \in FileDays : d <= file[s] /\ d > last /\ (last > 0 => d > file[s] - TailRecords)}

(* _upsert_rows                                                            *)
Upserted(lake, s, days) ==
    [ raw |-> [lake.raw EXCEPT ![s] =
                 [d \in FileDays |-> IF d \in days THEN "official" ELSE @[d]]],
      mark |-> [lake.mark EXCEPT ![s] = file[s]] ]

Commits(lake) == raw' = lake.raw /\ mark' = lake.mark /\ draft' = NoDraft /\ writer' = "none"

(* One file.  The transaction stays open until it has BATCH_ROWS rows.     *)
ReadFile(t) ==
    /\ job[t].at = "files" /\ job[t].todo # <<>>
    /\ LET s == Head(job[t].todo)
           days == NewDays(s, job[t].known[s])
           lake == Upserted(IF writer = t THEN draft ELSE Stored, s, days)
       IN
       IF days = {} THEN UNCHANGED <<raw, mark, draft, writer>>
       ELSE /\ writer \in {"none", t}
            /\ \/ Commits(lake)
               \/ draft' = lake /\ writer' = t /\ UNCHANGED <<raw, mark>>
    /\ Works(t, [job[t] EXCEPT !.todo = Tail(@)])
    /\ UNCHANGED <<tradingDay, file, batch, refresh, starts, breaks>>

(* Mutant: nothing is committed behind the last file.                      *)
EndFilesUncommitted(t) ==
    /\ job[t].at = "files" /\ job[t].todo = <<>>
    /\ draft' = NoDraft /\ writer' = IF writer = t THEN "none" ELSE writer
    /\ Works(t, [job[t] EXCEPT !.at = "done"])
    /\ UNCHANGED <<tradingDay, file, raw, mark, batch, refresh, starts, breaks>>

(* The last commit, of whatever is still open.                             *)
EndFiles(t) ==
    /\ job[t].at = "files" /\ job[t].todo = <<>>
    /\ IF writer = t THEN Commits(draft) ELSE UNCHANGED <<raw, mark, draft, writer>>
    /\ Works(t, [job[t] EXCEPT !.at = "done", !.known = NoMarks])
    /\ UNCHANGED <<tradingDay, file, batch, refresh, starts, breaks>>

(* A file cannot be read, or the lake is locked for a minute: the          *)
(* transaction is rolled back.                                             *)
SyncRaises(t) ==
    /\ job[t].at \in {"begin", "files"} /\ Interrupts
    /\ IF writer = t THEN draft' = NoDraft /\ writer' = "none" ELSE UNCHANGED <<draft, writer>>
    /\ Ends(t, "error")
    /\ batch' = IF t = "postmarket" THEN [batch EXCEPT ![t] = "failed"] ELSE batch
    /\ UNCHANGED <<tradingDay, file, raw, mark, refresh, starts>>

-----------------------------------------------------------------------------
(* start_daily_sync and _run_daily_sync_job: one job at a time.            *)

StartDaily(full) ==
    /\ job["daily"].status # "running" /\ Starts /\ Alone(full)
    /\ Works("daily", [job["daily"] EXCEPT !.at = "begin", !.status = "running",
                                           !.full = full])
    /\ UNCHANGED <<tradingDay, file, raw, mark, draft, writer, batch, refresh, breaks>>

DailyEnds ==
    /\ job["daily"].at = "done"
    /\ Ends("daily", "success")
    /\ UNCHANGED <<tradingDay, file, raw, mark, draft, writer, batch, refresh, starts, breaks>>

-----------------------------------------------------------------------------
(* _tdx_postmarket_readiness: the files have reached the day, by a sample  *)
(* of the tracked symbols.  Minute files count as much as the daily ones,  *)
(* which may still lack the day: only the want of a sample refuses.        *)
FilesReady == Tracked # <<>>

(* start_tdx_postmarket_sync: the files are ready or the page insists, and *)
(* no other task runs.                                                     *)
StartPostmarket(full, forced) ==
    /\ job["postmarket"].status # "running" /\ Starts /\ Alone(full)
    /\ forced \/ FilesReady
    /\ Works("postmarket", [job["postmarket"] EXCEPT !.at = "create", !.status = "running",
                                                     !.full = full])
    /\ UNCHANGED <<tradingDay, file, raw, mark, draft, writer, batch, refresh, breaks>>

(* run_postmarket_sync begins: without the files there is not even a batch. *)
CreateBatch ==
    /\ job["postmarket"].at = "create"
    /\ \/ /\ Works("postmarket",
                   [job["postmarket"] EXCEPT
                       !.at = IF job["postmarket"].full THEN "begin" ELSE "tracked",
                       !.todo = Tracked])
          /\ batch' = [batch EXCEPT !["postmarket"] = "running"]
          /\ UNCHANGED breaks
       \/ /\ Interrupts /\ Ends("postmarket", "error")
          /\ UNCHANGED batch
    /\ UNCHANGED <<tradingDay, file, raw, mark, draft, writer, refresh, starts>>

ThenTracked ==
    /\ job["postmarket"].at = "done"
    /\ Works("postmarket", [job["postmarket"] EXCEPT !.at = "tracked", !.todo = Tracked,
                                                     !.files = NoMarks])
    /\ UNCHANGED <<tradingDay, file, raw, mark, draft, writer, batch, refresh, starts, breaks>>

(* _day_rows_with_minute_fallback: the days of the file and, while it lags, *)
(* today out of its minutes, if they are there.                            *)
FileRows(s) == [d \in FileDays |-> IF d <= file[s] THEN "official" ELSE "none"]

LocalDays(s) ==
    {FileRows(s)}
        \cup (IF file[s] = tradingDay THEN {}
              ELSE {[FileRows(s) EXCEPT ![tradingDay] = "derived"]})

(* upsert_raw_bars: the days of the rows are written, the others are left. *)
Rewritten(old, rows) == [d \in FileDays |-> IF rows[d] = "none" THEN old[d] ELSE rows[d]]
WithRows(s, rows) == [raw EXCEPT ![s] = Rewritten(raw[s], rows)]

LastRow(s) == CHOOSE d \in 0..MaxToday :
    /\ d > 0 => raw[s][d] # "none"
    /\ \A e \in FileDays : e > d => raw[s][e] = "none"

(* _sync_all_symbols_from_tdx_local, one symbol: the days behind the last  *)
(* row.  What raises is counted, and the next symbol follows.              *)
SyncTracked ==
    /\ job["postmarket"].at = "tracked" /\ job["postmarket"].todo # <<>>
    /\ LET s == Head(job["postmarket"].todo) IN
       \/ /\ LastRow(s) < tradingDay /\ writer = "none"
          /\ \E rows \in LocalDays(s) :
                raw' = WithRows(s, [d \in FileDays |->
                                       IF d > LastRow(s) THEN rows[d] ELSE "none"])
          /\ UNCHANGED breaks
       \/ LastRow(s) = tradingDay /\ UNCHANGED <<raw, breaks>>
       \/ Interrupts /\ UNCHANGED raw
    /\ Works("postmarket", [job["postmarket"] EXCEPT !.todo = Tail(@)])
    /\ UNCHANGED <<tradingDay, file, mark, draft, writer, batch, refresh, starts>>

(* With any tracked symbol the pass raises when it returns its counts      *)
(* (intraday_replaced is never bound): no structure job is asked for.      *)
PostmarketEnds ==
    /\ job["postmarket"].at = "tracked" /\ job["postmarket"].todo = <<>>
    /\ LET ended == IF Tracked = <<>> THEN "success" ELSE "error" IN
       /\ Ends("postmarket", ended)
       /\ batch' = [batch EXCEPT !["postmarket"] =
                       IF ended = "success" THEN "success" ELSE "failed"]
    /\ UNCHANGED <<tradingDay, file, raw, mark, draft, writer, refresh, starts, breaks>>

-----------------------------------------------------------------------------
(* sync_symbol_klines: one symbol, in one frequency or in all.             *)

Asks(state) == refresh' = state
InRequest(at) == refresh.at = at /\ UNCHANGED <<tradingDay, file, mark, draft, writer, job, starts>>

(* Every frequency but the day needs the adjusted days as its factors.     *)
AskSymbol(s, freqs) ==
    /\ refresh.at \in {"idle", "closed"} /\ Starts
    /\ Asks([NoRequest EXCEPT !.symbol = s, !.freqs = Range(freqs), !.todo = freqs,
                              !.at = IF "day" \in Range(freqs) THEN "freqs" ELSE "factor"])
    /\ batch' = [batch EXCEPT !["symbol"] = "running"]
    /\ UNCHANGED <<tradingDay, file, raw, mark, draft, writer, job, breaks>>

(* The adjusted days are written, there are none, or the fetch raises.     *)
DayFactor ==
    /\ InRequest("factor") /\ UNCHANGED <<raw, batch>>
    /\ \/ Asks([refresh EXCEPT !.at = "freqs", !.wrote = {"day"}]) /\ UNCHANGED breaks
       \/ Asks([refresh EXCEPT !.at = "freqs"]) /\ UNCHANGED breaks
       \/ Asks([refresh EXCEPT !.at = "freqs", !.raised = TRUE]) /\ Interrupts

(* A frequency: adjusted rows of the bridge are written and are a change;  *)
(* without any, the local files are read; what raises is counted.          *)
FetchFreq ==
    /\ InRequest("freqs") /\ refresh.todo # <<>> /\ UNCHANGED <<raw, batch>>
    /\ LET f == Head(refresh.todo)
           rest == Tail(refresh.todo)
       IN
       \/ /\ Asks([refresh EXCEPT !.todo = rest, !.wrote = @ \cup {f},
                                  !.changed = @ \cup {f}])
          /\ UNCHANGED breaks
       \/ /\ IF f = "day"
             THEN \E rows \in LocalDays(refresh.symbol) :
                     Asks([refresh EXCEPT !.todo = rest, !.at = "local", !.taken = rows])
             ELSE Asks([refresh EXCEPT !.todo = rest])
          /\ UNCHANGED breaks
       \/ Asks([refresh EXCEPT !.todo = rest, !.raised = TRUE]) /\ Interrupts

(* _sync_local_tdx_history_to_lake: the days that were read become rows.   *)
WriteLocal ==
    /\ InRequest("local") /\ writer = "none" /\ UNCHANGED <<batch, breaks>>
    /\ raw' = WithRows(refresh.symbol, refresh.taken)
    /\ Asks([refresh EXCEPT !.at = "freqs", !.taken = NothingTaken])

(* Mutant: a rebuild that raises is not counted.                           *)
RebuildUncounted ==
    /\ InRequest("freqs") /\ refresh.todo = <<>> /\ UNCHANGED <<raw, batch>>
    /\ \E W \in SUBSET (refresh.freqs \ {"day"}) :
          \/ /\ Asks([refresh EXCEPT !.at = "queue", !.wrote = @ \cup W,
                                     !.changed = @ \cup W])
             /\ UNCHANGED breaks
          \/ Asks([refresh EXCEPT !.at = "queue", !.wrote = @ \cup W]) /\ Interrupts

(* rebuild_tdx_qfq_from_existing_factors writes some of the frequencies,   *)
(* which are changes; if it raises, those that it has written are not.     *)
RebuildAdjusted ==
    /\ InRequest("freqs") /\ refresh.todo = <<>> /\ UNCHANGED <<raw, batch>>
    /\ \E W \in SUBSET (refresh.freqs \ {"day"}) :
          \/ /\ Asks([refresh EXCEPT !.at = "queue", !.wrote = @ \cup W,
                                     !.changed = @ \cup W])
             /\ UNCHANGED breaks
          \/ /\ Asks([refresh EXCEPT !.at = "queue", !.wrote = @ \cup W, !.raised = TRUE])
             /\ Interrupts

(* enqueue_structure_jobs_for_changes; nothing catches what it raises, and *)
(* the batch stays "running".                                              *)
QueueChanges ==
    /\ InRequest("queue") /\ UNCHANGED <<raw, batch>>
    /\ \/ Asks([refresh EXCEPT !.at = "close", !.queued = refresh.changed]) /\ UNCHANGED breaks
       \/ Asks(NoRequest) /\ Interrupts

CloseBatch ==
    /\ InRequest("close") /\ UNCHANGED <<raw, breaks>>
    /\ batch' = [batch EXCEPT !["symbol"] = IF refresh.raised THEN "partial" ELSE "success"]
    /\ Asks([refresh EXCEPT !.at = "closed"])

-----------------------------------------------------------------------------
(* The process stops and starts: the tasks, the request and the open       *)
(* transaction are gone.                                                   *)
ManualRestart ==
    /\ Interrupts
    /\ draft' = NoDraft /\ writer' = "none"
    /\ job' = [t \in SyncTasks |-> NoJob] /\ refresh' = NoRequest
    /\ UNCHANGED <<tradingDay, file, raw, mark, batch, starts>>

RequestStep ==
    DayFactor \/ FetchFreq \/ WriteLocal \/ RebuildAdjusted \/ QueueChanges \/ CloseBatch

ManualNext ==
    \/ NextDay
    \/ \E s \in FileSymbols : FileWritten(s)
    \/ \E t \in SyncTasks : BeginSync(t) \/ ReadFile(t) \/ EndFiles(t) \/ SyncRaises(t)
    \/ \E full \in BOOLEAN : StartDaily(full)
    \/ DailyEnds
    \/ \E full, forced \in BOOLEAN : StartPostmarket(full, forced)
    \/ CreateBatch \/ ThenTracked \/ SyncTracked \/ PostmarketEnds
    \/ \E s \in Range(Tracked) :
          \E freqs \in {Freqs} \cup {<<f>> : f \in Range(Freqs)} : AskSymbol(s, freqs)
    \/ RequestStep
    \/ ManualRestart

ManualSpec == ManualInit /\ [][ManualNext]_manualVars

-----------------------------------------------------------------------------
(* Properties.                                                             *)

(* No day up to a mark is missing, whatever task, request or stop has      *)
(* intervened: the next synchronisation begins behind the mark and would   *)
(* never fill the gap (sync_daily_files, _parse_day_file).                 *)
RowsUpToMark ==
    \A s \in FileSymbols : \A d \in FileDays : d <= mark[s] => raw[s][d] # "none"

(* A synchronisation of the daily files that has come to its end has       *)
(* brought every symbol, durably, to what its file held at the start.      *)
DoneIsCurrent ==
    \A t \in SyncTasks : job[t].at = "done" =>
        \A s \in FileSymbols : mark[s] >= job[t].files[s]

(* A request whose batch is "success" has asked for structure jobs of all  *)
(* adjusted rows that it wrote; only the days that it fetched as factors   *)
(* of other frequencies go without (sync_symbol_klines).                   *)
SuccessIsQueued ==
    refresh.at = "closed" /\ ~refresh.raised =>
        refresh.wrote \ refresh.queued \subseteq {"day"} \ refresh.freqs

(* The synchronisations by hand: rows of their types, no gap behind a mark,*)
(* nothing left behind at the end, and no change without its structure jobs*)
(* (sync_daily_files, sync_symbol_klines).                                 *)
ManualSound == ManualTypeOK /\ RowsUpToMark /\ DoneIsCurrent /\ SuccessIsQueued
=============================================================================
