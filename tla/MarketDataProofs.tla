-------------------------- MODULE MarketDataProofs --------------------------
(***************************************************************************)
(* The synchronisations and the tape of today: for any files, symbols,     *)
(* frequencies, days, minutes and prices, any number of starts, breaks,    *)
(* quotes and events.                                                      *)
(*                                                                         *)
(* First ManualSync.  The types and SuccessIsQueued need nothing but the   *)
(* specification; that no day up to a mark is missing needs that no full   *)
(* synchronisation runs beside another one, and that no mark falls further *)
(* behind its file than the records that are read of it.                   *)
(*                                                                         *)
(* Then KlineSync.  The types need nothing but the specification; that a   *)
(* full window is marked with the day whose bars it has needs that no pass *)
(* of the worker goes on after midnight.                                   *)
(*                                                                         *)
(* Then IntradayTape.  Its properties speak of the quotes that were taken; *)
(* they hold together with what a request has in hand between the steps    *)
(* of folding a quote in, storing it and writing its bar.                  *)
(***************************************************************************)
EXTENDS ManualSync, KlineSync, IntradayTape, SequenceTheorems, FiniteSetTheorems, TLAPS

MarksAreNear == ~FullTogether /\ Away <= TailRecords

-----------------------------------------------------------------------------
(* The types.                                                              *)

LEMMA TheBounds ==
    /\ MaxToday \in Nat /\ 1 <= MaxToday /\ TailRecords \in Nat /\ 1 <= TailRecords
    /\ Away \in Nat /\ MaxStarts \in Nat /\ MaxBreaks \in Nat
    /\ Files \in Seq(FileSymbols) /\ Tracked \in Seq(FileSymbols)
    /\ Freqs \in Seq(Range(Freqs))
    /\ Head(Files) \in FileSymbols
    /\ Range(Tracked) \subseteq FileSymbols
<1>1. Files \in Seq(FileSymbols) /\ Files # <<>> /\ Tracked \in Seq(FileSymbols)
  BY ManualAssumption
<1>2. Head(Files) \in FileSymbols
  BY <1>1, HeadTailProperties
<1>3. Range(Tracked) \subseteq FileSymbols
  BY <1>1, ElementOfSeq DEF Range
<1> QED
  BY <1>1, <1>2, <1>3, ManualAssumption

LEMMA Blank ==
    /\ NoMarks \in FileMarks
    /\ EmptyRows \in [FileSymbols -> RowsOfDays]
    /\ NoDraft \in LakeStates
    /\ NoJob \in SyncJobs
    /\ NoRequest \in SymbolRequests
<1>1. NoMarks \in FileMarks
  BY TheBounds DEF NoMarks, FileMarks
<1>2. EmptyRows \in [FileSymbols -> RowsOfDays]
  BY DEF EmptyRows, RowsOfDays
<1>3. NoDraft \in LakeStates
  BY <1>1, <1>2 DEF NoDraft, LakeStates
<1>4. NoJob \in SyncJobs
  BY <1>1, EmptySeq DEF NoJob, SyncJobs, RunStatuses
<1>5. NothingTaken \in RowsOfDays
  BY DEF NothingTaken, RowsOfDays
<1>6. NoRequest \in SymbolRequests
  BY <1>5, EmptySeq, TheBounds DEF NoRequest, SymbolRequests, FreqSets
<1> QED
  BY <1>1, <1>2, <1>3, <1>4, <1>6

LEMMA UpsertedType ==
    ASSUME NEW tables \in LakeStates, NEW s \in FileSymbols, NEW days, file \in FileMarks
    PROVE  /\ Upserted(tables, s, days) \in LakeStates
           /\ Upserted(tables, s, days).mark = [tables.mark EXCEPT ![s] = file[s]]
           /\ \A x \in FileSymbols, d \in FileDays :
                 Upserted(tables, s, days).raw[x][d] =
                    IF x = s /\ d \in days THEN "official" ELSE tables.raw[x][d]
<1> DEFINE row == [d \in FileDays |-> IF d \in days THEN "official" ELSE tables.raw[s][d]]
           new == [tables.raw EXCEPT ![s] = row]
<1>1. tables.raw \in [FileSymbols -> RowsOfDays] /\ tables.mark \in FileMarks
  BY DEF LakeStates
<1>2. row \in RowsOfDays
  BY <1>1 DEF RowsOfDays
<1>3. \A d \in FileDays : row[d] = IF d \in days THEN "official" ELSE tables.raw[s][d]
  OBVIOUS
<1>4. Upserted(tables, s, days) = [raw |-> new, mark |-> [tables.mark EXCEPT ![s] = file[s]]]
  BY <1>1 DEF Upserted
<1> HIDE DEF row
<1>5. new \in [FileSymbols -> RowsOfDays]
  BY <1>1, <1>2
<1>6. [tables.mark EXCEPT ![s] = file[s]] \in FileMarks
  BY <1>1 DEF FileMarks
<1>7. new[s] = row /\ \A x \in FileSymbols : x # s => new[x] = tables.raw[x]
  BY <1>1
<1> HIDE DEF new
<1>8. \A x \in FileSymbols, d \in FileDays :
         new[x][d] = IF x = s /\ d \in days THEN "official" ELSE tables.raw[x][d]
  BY <1>3, <1>7
<1> QED
  BY <1>4, <1>5, <1>6, <1>8 DEF LakeStates

LEMMA RowsOfFile ==
    ASSUME NEW s \in FileSymbols, ManualTypeOK, NEW rows \in LocalDays(s)
    PROVE  rows \in RowsOfDays
<1>1. FileRows(s) \in RowsOfDays
  BY DEF FileRows, RowsOfDays
<1>2. tradingDay \in FileDays
  BY DEF ManualTypeOK
<1>3. [FileRows(s) EXCEPT ![tradingDay] = "derived"] \in RowsOfDays
  BY <1>1, <1>2 DEF RowsOfDays
<1> QED
  BY <1>1, <1>3 DEF LocalDays

(* Rows that are written over others leave no day without a row.           *)
LEMMA RowsAreAdded ==
    ASSUME NEW s \in FileSymbols, NEW rows \in RowsOfDays, raw \in [FileSymbols -> RowsOfDays]
    PROVE  /\ WithRows(s, rows) \in [FileSymbols -> RowsOfDays]
           /\ \A x \in FileSymbols, d \in FileDays :
                 raw[x][d] # "none" => WithRows(s, rows)[x][d] # "none"
<1> DEFINE row == Rewritten(raw[s], rows)
<1>1. raw[s] \in RowsOfDays
  OBVIOUS
<1>2. row \in RowsOfDays
  BY <1>1 DEF Rewritten, RowsOfDays
<1>3. \A d \in FileDays : raw[s][d] # "none" => row[d] # "none"
  BY DEF Rewritten
<1> HIDE DEF row
<1>4. [raw EXCEPT ![s] = row] \in [FileSymbols -> RowsOfDays]
  BY <1>2
<1>5. \A x \in FileSymbols : [raw EXCEPT ![s] = row][x] = IF x = s THEN row ELSE raw[x]
  OBVIOUS
<1>6. \A x \in FileSymbols, d \in FileDays :
         raw[x][d] # "none" => [raw EXCEPT ![s] = row][x][d] # "none"
  BY <1>3, <1>5
<1> QED
  BY <1>4, <1>6 DEF WithRows, row

(* The jobs.                                                               *)
LEMMA JobTypes ==
    ASSUME ManualTypeOK, NEW t \in SyncTasks
    PROVE  /\ \A to : Works(t, to) /\ to \in SyncJobs => job' \in [SyncTasks -> SyncJobs]
           /\ \A status \in RunStatuses : Ends(t, status) => job' \in [SyncTasks -> SyncJobs]
<1>1. job \in [SyncTasks -> SyncJobs]
  BY DEF ManualTypeOK
<1>2. \A status \in RunStatuses : [NoJob EXCEPT !.status = status] \in SyncJobs
  BY Blank DEF SyncJobs
<1> QED
  BY <1>1, <1>2 DEF Works, Ends

LEMMA TailIsTyped ==
    ASSUME NEW S, NEW s \in Seq(S), s # <<>>
    PROVE  Head(s) \in S /\ Tail(s) \in Seq(S)
BY HeadTailProperties

LEMMA LastRowTyped ==
    ASSUME ManualTypeOK, NEW rows \in RowsOfDays, NEW last
    PROVE  [d \in FileDays |-> IF d > last THEN rows[d] ELSE "none"] \in RowsOfDays
BY DEF RowsOfDays

LEMMA LatestRequest ==
    ASSUME NEW s \in FileSymbols, NEW freqs \in {Freqs} \cup {<<f>> : f \in Range(Freqs)},
           NEW at \in {"freqs", "factor"}
    PROVE  [NoRequest EXCEPT !.symbol = s, !.freqs = Range(freqs), !.todo = freqs, !.at = at]
               \in SymbolRequests
<1>1. Freqs \in Seq(Range(Freqs))
  BY TheBounds
<1>2. \A f \in Range(Freqs) : <<f>> \in Seq(Range(Freqs)) /\ Range(<<f>>) = {f}
  BY DEF Range
<1>3. freqs \in Seq(Range(Freqs)) /\ Range(freqs) \subseteq Range(Freqs)
  BY <1>1, <1>2
<1> QED
  BY <1>3, Blank DEF SymbolRequests, FreqSets

THEOREM ManualTypeCorrect == ManualSpec => []ManualTypeOK
<1>1. ManualInit => ManualTypeOK
  <2> SUFFICES ASSUME ManualInit PROVE ManualTypeOK
    OBVIOUS
  <2>1. tradingDay \in FileDays
    BY TheBounds DEF ManualInit, FileDays
  <2>2. job \in [SyncTasks -> SyncJobs]
    BY Blank DEF ManualInit
  <2>3. batch \in [{"postmarket", "symbol"} -> RunStatuses \cup {"partial", "failed"}]
    BY DEF ManualInit, RunStatuses
  <2> QED
    BY <2>1, <2>2, <2>3, Blank, TheBounds DEF ManualInit, ManualTypeOK
<1>2. ManualTypeOK /\ [ManualNext]_manualVars => ManualTypeOK'
  <2> SUFFICES ASSUME ManualTypeOK, [ManualNext]_manualVars PROVE ManualTypeOK'
    OBVIOUS
  <2> USE TheBounds, Blank
  <2>1. CASE UNCHANGED manualVars
    BY <2>1 DEF manualVars, ManualTypeOK
  <2>2. CASE NextDay
    BY <2>2 DEF NextDay, ManualTypeOK, FileDays
  <2>3. ASSUME NEW s \in FileSymbols, FileWritten(s) PROVE ManualTypeOK'
    <3>1. file' \in FileMarks
      BY <2>3 DEF FileWritten, ManualTypeOK, FileMarks, FileDays
    <3> QED
      BY <2>3, <3>1 DEF FileWritten, ManualTypeOK
  <2>4. ASSUME NEW t \in SyncTasks, BeginSync(t) PROVE ManualTypeOK'
    <3>1. job[t] \in SyncJobs /\ file \in FileMarks /\ mark \in FileMarks
      BY DEF ManualTypeOK
    <3>2. [job[t] EXCEPT !.at = "files", !.todo = Files, !.files = file,
                         !.known = IF job[t].full THEN NoMarks ELSE mark] \in SyncJobs
      BY <3>1 DEF SyncJobs
    <3>3. job' \in [SyncTasks -> SyncJobs]
      BY <2>4, <3>2, JobTypes DEF BeginSync
    <3>4. raw' \in [FileSymbols -> RowsOfDays] /\ mark' \in FileMarks
      BY <2>4 DEF BeginSync, ManualTypeOK
    <3> QED
      BY <2>4, <3>3, <3>4 DEF BeginSync, ManualTypeOK
  <2>5. ASSUME NEW t \in SyncTasks, ReadFile(t) PROVE ManualTypeOK'
    <3> DEFINE s == Head(job[t].todo)
               days == NewDays(s, job[t].known[s])
               tables == Upserted(IF writer = t THEN draft ELSE Stored, s, days)
    <3>1. job[t] \in SyncJobs /\ job[t].todo # <<>>
      BY <2>5 DEF ManualTypeOK, ReadFile
    <3>2. s \in FileSymbols /\ Tail(job[t].todo) \in Seq(FileSymbols)
      BY <3>1, TailIsTyped DEF SyncJobs
    <3>3. Stored \in LakeStates
      BY DEF Stored, LakeStates, ManualTypeOK
    <3>4. tables \in LakeStates
      <4>1. (IF writer = t THEN draft ELSE Stored) \in LakeStates
        BY <3>3 DEF ManualTypeOK
      <4>2. file \in FileMarks
        BY DEF ManualTypeOK
      <4> HIDE DEF s, days
      <4> QED
        BY <3>2, <4>1, <4>2, UpsertedType
    <3>5. [job[t] EXCEPT !.todo = Tail(@)] \in SyncJobs
      BY <3>1, <3>2 DEF SyncJobs
    <3>6. job' \in [SyncTasks -> SyncJobs]
      BY <2>5, <3>5, JobTypes DEF ReadFile
    <3>7. \/ UNCHANGED <<raw, mark, draft, writer>>
          \/ Commits(tables)
          \/ draft' = tables /\ writer' = t /\ UNCHANGED <<raw, mark>>
      BY <2>5 DEF ReadFile
    <3> HIDE DEF tables
    <3>8. /\ raw' \in [FileSymbols -> RowsOfDays] /\ mark' \in FileMarks
          /\ draft' \in LakeStates
          /\ writer' \in SyncTasks \cup {"none"} /\ (writer' = "none" => draft' = NoDraft)
      BY <3>4, <3>7 DEF ManualTypeOK, Commits, LakeStates, SyncTasks
    <3> QED
      BY <2>5, <3>6, <3>8 DEF ReadFile, ManualTypeOK
  <2>6. ASSUME NEW t \in SyncTasks, EndFiles(t) PROVE ManualTypeOK'
    <3>1. [job[t] EXCEPT !.at = "done", !.known = NoMarks] \in SyncJobs
      BY DEF ManualTypeOK, SyncJobs
    <3>2. job' \in [SyncTasks -> SyncJobs]
      BY <2>6, <3>1, JobTypes DEF EndFiles
    <3>3. /\ raw' \in [FileSymbols -> RowsOfDays] /\ mark' \in FileMarks
          /\ draft' \in LakeStates
          /\ writer' \in SyncTasks \cup {"none"} /\ (writer' = "none" => draft' = NoDraft)
      BY <2>6 DEF EndFiles, ManualTypeOK, Commits, LakeStates
    <3> QED
      BY <2>6, <3>2, <3>3 DEF EndFiles, ManualTypeOK
  <2>7. ASSUME NEW t \in SyncTasks, SyncRaises(t) PROVE ManualTypeOK'
    <3>1. job' \in [SyncTasks -> SyncJobs]
      BY <2>7, JobTypes DEF SyncRaises, RunStatuses
    <3>2. batch' \in [{"postmarket", "symbol"} -> RunStatuses \cup {"partial", "failed"}]
      BY <2>7 DEF SyncRaises, ManualTypeOK
    <3> QED
      BY <2>7, <3>1, <3>2 DEF SyncRaises, Interrupts, ManualTypeOK
  <2>8. ASSUME NEW full \in BOOLEAN, StartDaily(full) PROVE ManualTypeOK'
    <3>1. [job["daily"] EXCEPT !.at = "begin", !.status = "running", !.full = full] \in SyncJobs
      BY DEF ManualTypeOK, SyncJobs, SyncTasks, RunStatuses
    <3>2. job' \in [SyncTasks -> SyncJobs]
      BY <2>8, <3>1, JobTypes DEF StartDaily, SyncTasks
    <3> QED
      BY <2>8, <3>2 DEF StartDaily, Starts, ManualTypeOK
  <2>9. CASE DailyEnds
    <3>1. job' \in [SyncTasks -> SyncJobs]
      BY <2>9, JobTypes DEF DailyEnds, RunStatuses, SyncTasks
    <3> QED
      BY <2>9, <3>1 DEF DailyEnds, ManualTypeOK
  <2>10. ASSUME NEW full \in BOOLEAN, NEW forced \in BOOLEAN, StartPostmarket(full, forced)
         PROVE ManualTypeOK'
    <3>1. [job["postmarket"] EXCEPT !.at = "create", !.status = "running", !.full = full]
              \in SyncJobs
      BY DEF ManualTypeOK, SyncJobs, SyncTasks, RunStatuses
    <3>2. job' \in [SyncTasks -> SyncJobs]
      BY <2>10, <3>1, JobTypes DEF StartPostmarket, SyncTasks
    <3> QED
      BY <2>10, <3>2 DEF StartPostmarket, Starts, ManualTypeOK
  <2>11. CASE CreateBatch
    <3>1. \A at \in {"begin", "tracked"} :
             [job["postmarket"] EXCEPT !.at = at, !.todo = Tracked] \in SyncJobs
      BY DEF ManualTypeOK, SyncJobs, SyncTasks
    <3>2. job' \in [SyncTasks -> SyncJobs]
      BY <2>11, <3>1, JobTypes DEF CreateBatch, SyncTasks, RunStatuses
    <3>3. batch' \in [{"postmarket", "symbol"} -> RunStatuses \cup {"partial", "failed"}]
      BY <2>11 DEF CreateBatch, ManualTypeOK, RunStatuses
    <3> QED
      BY <2>11, <3>2, <3>3 DEF CreateBatch, Interrupts, ManualTypeOK
  <2>12. CASE ThenTracked
    <3>1. [job["postmarket"] EXCEPT !.at = "tracked", !.todo = Tracked, !.files = NoMarks]
              \in SyncJobs
      BY DEF ManualTypeOK, SyncJobs, SyncTasks
    <3>2. job' \in [SyncTasks -> SyncJobs]
      BY <2>12, <3>1, JobTypes DEF ThenTracked, SyncTasks
    <3> QED
      BY <2>12, <3>2 DEF ThenTracked, ManualTypeOK
  <2>13. CASE SyncTracked
    <3> DEFINE t == "postmarket"
               s == Head(job[t].todo)
    <3>1. job[t] \in SyncJobs /\ job[t].todo # <<>>
      BY <2>13 DEF ManualTypeOK, SyncTracked, SyncTasks
    <3>2. s \in FileSymbols /\ Tail(job[t].todo) \in Seq(FileSymbols)
      BY <3>1, TailIsTyped DEF SyncJobs
    <3>3. [job[t] EXCEPT !.todo = Tail(@)] \in SyncJobs
      BY <3>1, <3>2 DEF SyncJobs
    <3>4. job' \in [SyncTasks -> SyncJobs]
      BY <2>13, <3>3, JobTypes DEF SyncTracked, SyncTasks
    <3>5. raw' \in [FileSymbols -> RowsOfDays]
      <4>1. raw \in [FileSymbols -> RowsOfDays]
        BY DEF ManualTypeOK
      <4>2. ASSUME NEW rows \in LocalDays(s)
            PROVE  WithRows(s, [d \in FileDays |-> IF d > LastRow(s) THEN rows[d] ELSE "none"])
                       \in [FileSymbols -> RowsOfDays]
        <5>1. rows \in RowsOfDays
          BY <3>2, RowsOfFile
        <5>2. [d \in FileDays |-> IF d > LastRow(s) THEN rows[d] ELSE "none"] \in RowsOfDays
          BY <5>1, LastRowTyped
        <5> QED
          BY <3>2, <4>1, <5>2, RowsAreAdded
      <4> QED
        BY <2>13, <4>1, <4>2 DEF SyncTracked
    <3> QED
      BY <2>13, <3>4, <3>5 DEF SyncTracked, Interrupts, ManualTypeOK
  <2>14. CASE PostmarketEnds
    <3>1. job' \in [SyncTasks -> SyncJobs]
      BY <2>14, JobTypes DEF PostmarketEnds, RunStatuses, SyncTasks
    <3>2. batch' \in [{"postmarket", "symbol"} -> RunStatuses \cup {"partial", "failed"}]
      BY <2>14 DEF PostmarketEnds, ManualTypeOK, RunStatuses
    <3> QED
      BY <2>14, <3>1, <3>2 DEF PostmarketEnds, ManualTypeOK
  <2>15. ASSUME NEW s \in Range(Tracked),
                NEW freqs \in {Freqs} \cup {<<f>> : f \in Range(Freqs)}, AskSymbol(s, freqs)
         PROVE ManualTypeOK'
    <3>1. refresh' \in SymbolRequests
      BY <2>15, LatestRequest DEF AskSymbol, Asks
    <3>2. batch' \in [{"postmarket", "symbol"} -> RunStatuses \cup {"partial", "failed"}]
      BY <2>15 DEF AskSymbol, ManualTypeOK, RunStatuses
    <3> QED
      BY <2>15, <3>1, <3>2 DEF AskSymbol, Starts, ManualTypeOK
  <2>16. CASE DayFactor
    <3>1. refresh \in SymbolRequests /\ {"day"} \in FreqSets
      BY DEF ManualTypeOK, FreqSets
    <3>2. refresh' \in SymbolRequests
      BY ZenonT(60), <2>16, <3>1 DEF DayFactor, Asks, SymbolRequests
    <3> QED
      BY <2>16, <3>2 DEF DayFactor, InRequest, Interrupts, ManualTypeOK
  <2>17. CASE FetchFreq
    <3>1. refresh \in SymbolRequests /\ refresh.todo # <<>>
      BY <2>17 DEF FetchFreq, ManualTypeOK
    <3>2. /\ Head(refresh.todo) \in Range(Freqs)
          /\ Tail(refresh.todo) \in Seq(Range(Freqs))
      BY <3>1, TailIsTyped DEF SymbolRequests
    <3>3. \A rows \in LocalDays(refresh.symbol) : rows \in RowsOfDays
      BY <3>1, RowsOfFile DEF SymbolRequests
    <3> DEFINE f == Head(refresh.todo)
               rest == Tail(refresh.todo)
    <3>4. refresh.wrote \cup {f} \in FreqSets /\ refresh.changed \cup {f} \in FreqSets
      BY <3>1, <3>2 DEF SymbolRequests, FreqSets
    <3>5. \/ refresh' = [refresh EXCEPT !.todo = rest, !.wrote = @ \cup {f},
                                       !.changed = @ \cup {f}]
          \/ \E rows \in LocalDays(refresh.symbol) :
                refresh' = [refresh EXCEPT !.todo = rest, !.at = "local", !.taken = rows]
          \/ refresh' = [refresh EXCEPT !.todo = rest]
          \/ refresh' = [refresh EXCEPT !.todo = rest, !.raised = TRUE]
      BY <2>17 DEF FetchFreq, Asks
    <3>6. rest \in Seq(Range(Freqs))
      BY <3>2
    <3> HIDE DEF f, rest
    <3>7. refresh' \in SymbolRequests
      BY ZenonT(60), <3>1, <3>3, <3>4, <3>5, <3>6 DEF SymbolRequests
    <3>8. /\ UNCHANGED breaks \/ Interrupts
          /\ InRequest("freqs") /\ UNCHANGED <<raw, batch>>
      BY <2>17 DEF FetchFreq
    <3> QED
      BY <3>7, <3>8 DEF InRequest, Interrupts, ManualTypeOK
  <2>18. CASE WriteLocal
    <3>1. refresh \in SymbolRequests
      BY DEF ManualTypeOK
    <3>2. raw' \in [FileSymbols -> RowsOfDays]
      BY <2>18, <3>1, RowsAreAdded DEF WriteLocal, ManualTypeOK, SymbolRequests
    <3>3. NothingTaken \in RowsOfDays
      BY DEF NothingTaken, RowsOfDays
    <3>4. refresh' \in SymbolRequests
      BY <2>18, <3>1, <3>3 DEF WriteLocal, Asks, SymbolRequests
    <3> QED
      BY <2>18, <3>2, <3>4 DEF WriteLocal, InRequest, ManualTypeOK
  <2>19. CASE RebuildAdjusted
    <3>1. refresh \in SymbolRequests
      BY DEF ManualTypeOK
    <3>2. \A W \in SUBSET (refresh.freqs \ {"day"}) :
             refresh.wrote \cup W \in FreqSets /\ refresh.changed \cup W \in FreqSets
      BY <3>1 DEF SymbolRequests, FreqSets
    <3>3. PICK W \in SUBSET (refresh.freqs \ {"day"}) :
             \/ refresh' = [refresh EXCEPT !.at = "queue", !.wrote = @ \cup W,
                                          !.changed = @ \cup W]
             \/ refresh' = [refresh EXCEPT !.at = "queue", !.wrote = @ \cup W,
                                          !.raised = TRUE]
      BY <2>19 DEF RebuildAdjusted, Asks
    <3>4. refresh' \in SymbolRequests
      <4>1. refresh.wrote \cup W \in FreqSets /\ refresh.changed \cup W \in FreqSets
        BY <3>2
      <4> QED
        BY ZenonT(60), <3>1, <3>3, <4>1 DEF SymbolRequests
    <3> QED
      BY <2>19, <3>4 DEF RebuildAdjusted, InRequest, Interrupts, ManualTypeOK
  <2>20. CASE QueueChanges
    <3>1. refresh' \in SymbolRequests
      BY <2>20 DEF QueueChanges, Asks, SymbolRequests, ManualTypeOK
    <3> QED
      BY <2>20, <3>1 DEF QueueChanges, InRequest, Interrupts, ManualTypeOK
  <2>21. CASE CloseBatch
    <3>1. refresh' \in SymbolRequests
      BY <2>21 DEF CloseBatch, Asks, SymbolRequests, ManualTypeOK
    <3>2. batch' \in [{"postmarket", "symbol"} -> RunStatuses \cup {"partial", "failed"}]
      BY <2>21 DEF CloseBatch, ManualTypeOK, RunStatuses
    <3> QED
      BY <2>21, <3>1, <3>2 DEF CloseBatch, InRequest, ManualTypeOK
  <2>22. CASE ManualRestart
    BY <2>22 DEF ManualRestart, Interrupts, ManualTypeOK
  <2> QED
    BY <2>1, <2>2, <2>3, <2>4, <2>5, <2>6, <2>7, <2>8, <2>9, <2>10, <2>11, <2>12, <2>13,
       <2>14, <2>15, <2>16, <2>17, <2>18, <2>19, <2>20, <2>21, <2>22
    DEF ManualNext, RequestStep
<1> QED
  BY <1>1, <1>2, PTL DEF ManualSpec

-----------------------------------------------------------------------------
(* The request for one symbol.                                             *)

(* As long as nothing has raised, only the days that were fetched as       *)
(* factors are written and no change; the changes are what is queued.      *)
OnlyFactors == refresh.wrote \ refresh.changed \subseteq {"day"} \ refresh.freqs

QueueInv ==
    /\ refresh.at = "factor" => "day" \notin refresh.freqs /\ refresh.wrote = {}
    /\ refresh.at # "idle" /\ ~refresh.raised => OnlyFactors
    /\ refresh.at \in {"close", "closed"} => refresh.queued = refresh.changed

(* A request whose batch is "success" has asked for the structure jobs of  *)
(* all adjusted rows that it wrote, but of the factors (sync_symbol_klines).*)
THEOREM SuccessesAreQueued == ManualSpec => []SuccessIsQueued
<1>1. ManualInit => QueueInv
  BY DEF ManualInit, QueueInv, NoRequest
<1>2. ManualTypeOK /\ QueueInv /\ [ManualNext]_manualVars => QueueInv'
  <2> SUFFICES ASSUME ManualTypeOK, QueueInv, [ManualNext]_manualVars PROVE QueueInv'
    OBVIOUS
  <2> DEFINE r == refresh
  <2>0. r \in SymbolRequests
    BY DEF ManualTypeOK
  <2>1. CASE UNCHANGED refresh
    BY <2>1 DEF QueueInv, OnlyFactors
  <2>2. CASE refresh' = NoRequest
    BY <2>2 DEF QueueInv, NoRequest
  <2>3. ASSUME NEW s, NEW freqs, AskSymbol(s, freqs) PROVE QueueInv'
    <3>1. refresh' = [NoRequest EXCEPT !.symbol = s, !.freqs = Range(freqs), !.todo = freqs,
                              !.at = IF "day" \in Range(freqs) THEN "freqs" ELSE "factor"]
      BY <2>3 DEF AskSymbol, Asks
    <3>2. /\ refresh'.freqs = Range(freqs)
          /\ refresh'.wrote = {} /\ refresh'.at \in {"freqs", "factor"}
          /\ refresh'.at = "factor" => "day" \notin Range(freqs)
      BY <3>1 DEF NoRequest
    <3> QED
      BY <3>2 DEF QueueInv, OnlyFactors
  <2>4. CASE DayFactor
    <3>1. /\ refresh.at = "factor"
          /\ \/ refresh' = [refresh EXCEPT !.at = "freqs", !.wrote = {"day"}]
             \/ refresh' = [refresh EXCEPT !.at = "freqs"]
             \/ refresh' = [refresh EXCEPT !.at = "freqs", !.raised = TRUE]
      BY <2>4 DEF DayFactor, InRequest, Asks
    <3>2. /\ refresh'.at = "freqs" /\ refresh'.freqs = refresh.freqs
          /\ refresh'.changed = refresh.changed
          /\ refresh'.wrote = refresh.wrote \/ refresh'.wrote = {"day"}
      BY <2>0, <3>1 DEF SymbolRequests
    <3>3. "day" \notin refresh.freqs /\ refresh.wrote = {}
      BY <3>1 DEF QueueInv
    <3> QED
      BY <3>2, <3>3 DEF QueueInv, OnlyFactors
  <2>5. CASE FetchFreq
    <3> DEFINE f == Head(refresh.todo)
               rest == Tail(refresh.todo)
    <3>1. \/ refresh' = [refresh EXCEPT !.todo = rest, !.wrote = @ \cup {f},
                                       !.changed = @ \cup {f}]
          \/ \E rows \in LocalDays(refresh.symbol) :
                refresh' = [refresh EXCEPT !.todo = rest, !.at = "local", !.taken = rows]
          \/ refresh' = [refresh EXCEPT !.todo = rest]
          \/ refresh' = [refresh EXCEPT !.todo = rest, !.raised = TRUE]
      BY <2>5 DEF FetchFreq, Asks
    <3>2. refresh.at = "freqs"
      BY <2>5 DEF FetchFreq, InRequest
    <3> HIDE DEF f, rest
    <3>3. /\ refresh'.at \in {"freqs", "local"} /\ refresh'.freqs = refresh.freqs
          /\ ~refresh'.raised => ~refresh.raised
          /\ \/ /\ refresh'.wrote = refresh.wrote \cup {f}
                /\ refresh'.changed = refresh.changed \cup {f}
             \/ UNCHANGED <<refresh.wrote, refresh.changed>>
      BY <2>0, <3>1, <3>2 DEF SymbolRequests
    <3> QED
      BY <3>2, <3>3 DEF QueueInv, OnlyFactors
  <2>6. CASE WriteLocal
    <3>1. refresh' = [refresh EXCEPT !.at = "freqs", !.taken = NothingTaken]
          /\ refresh.at = "local"
      BY <2>6 DEF WriteLocal, InRequest, Asks
    <3>2. /\ refresh'.at = "freqs"
          /\ UNCHANGED <<refresh.freqs, refresh.wrote, refresh.changed, refresh.raised>>
      BY <2>0, <3>1 DEF SymbolRequests
    <3> QED
      BY <3>1, <3>2 DEF QueueInv, OnlyFactors
  <2>7. CASE RebuildAdjusted
    <3>1. PICK W :
             \/ refresh' = [refresh EXCEPT !.at = "queue", !.wrote = @ \cup W,
                                          !.changed = @ \cup W]
             \/ refresh' = [refresh EXCEPT !.at = "queue", !.wrote = @ \cup W,
                                          !.raised = TRUE]
      BY <2>7 DEF RebuildAdjusted, Asks
    <3>2. refresh.at = "freqs"
      BY <2>7 DEF RebuildAdjusted, InRequest
    <3>3. /\ refresh'.at = "queue" /\ refresh'.freqs = refresh.freqs
          /\ \/ /\ refresh'.wrote = refresh.wrote \cup W
                /\ refresh'.changed = refresh.changed \cup W
                /\ refresh'.raised = refresh.raised
             \/ refresh'.raised
      BY <2>0, <3>1 DEF SymbolRequests
    <3> QED
      BY <3>2, <3>3 DEF QueueInv, OnlyFactors
  <2>8. CASE QueueChanges
    <3>1. \/ refresh' = [refresh EXCEPT !.at = "close", !.queued = refresh.changed]
          \/ refresh' = NoRequest
      BY <2>8 DEF QueueChanges, Asks
    <3>2. refresh.at = "queue"
      BY <2>8 DEF QueueChanges, InRequest
    <3>3. CASE refresh' = [refresh EXCEPT !.at = "close", !.queued = refresh.changed]
      <4>1. /\ refresh'.at = "close" /\ refresh'.queued = refresh.changed
            /\ UNCHANGED <<refresh.freqs, refresh.wrote, refresh.changed, refresh.raised>>
        BY <2>0, <3>3 DEF SymbolRequests
      <4> QED
        BY <3>2, <4>1 DEF QueueInv, OnlyFactors
    <3> QED
      BY <2>2, <3>1, <3>3
  <2>9. CASE CloseBatch
    <3>1. refresh' = [refresh EXCEPT !.at = "closed"] /\ refresh.at = "close"
      BY <2>9 DEF CloseBatch, InRequest, Asks
    <3>2. /\ refresh'.at = "closed"
          /\ UNCHANGED <<refresh.freqs, refresh.wrote, refresh.changed, refresh.queued,
                       refresh.raised>>
      BY <2>0, <3>1 DEF SymbolRequests
    <3> QED
      BY <3>1, <3>2 DEF QueueInv, OnlyFactors
  <2>10. ManualNext =>
            \/ UNCHANGED refresh \/ refresh' = NoRequest
            \/ \E s, freqs : AskSymbol(s, freqs)
            \/ RequestStep
    BY DEF ManualNext, NextDay, FileWritten, BeginSync, ReadFile, EndFiles, SyncRaises,
           StartDaily, DailyEnds, StartPostmarket, CreateBatch, ThenTracked, SyncTracked,
           PostmarketEnds, ManualRestart
  <2> QED
    BY <2>1, <2>2, <2>3, <2>4, <2>5, <2>6, <2>7, <2>8, <2>9, <2>10
    DEF RequestStep, manualVars
<1>3. QueueInv => SuccessIsQueued
  BY DEF QueueInv, OnlyFactors, SuccessIsQueued
<1> QED
  BY <1>1, <1>2, <1>3, ManualTypeCorrect, PTL DEF ManualSpec

-----------------------------------------------------------------------------
(* The marks.                                                              *)

(* Rows with marks: no day up to a mark is without a row, and the marks    *)
(* are near the ends of the files.                                         *)
Kept(rows, marks, ends) ==
    \A s \in FileSymbols :
        /\ marks[s] <= ends[s]
        /\ marks[s] > 0 => ends[s] - marks[s] <= Away
        /\ \A d \in FileDays : d <= marks[s] => rows[s][d] # "none"

(* The stored rows are kept, those of the open transaction too, and        *)
(* whoever has one open only adds to the marks.                            *)
LakeInv ==
    /\ \A s \in FileSymbols : file[s] <= tradingDay
    /\ Kept(raw, mark, file)
    /\ Kept(draft.raw, draft.mark, file)
    /\ \A t \in SyncTasks : writer = t =>
          job[t].at = "files" /\ \A s \in FileSymbols : mark[s] <= draft.mark[s]

OpenMark(t) == IF writer = t THEN draft.mark ELSE mark

(* A full synchronisation is alone; a mark has not fallen behind what a    *)
(* task remembers of it, and reaches the end of each file that is done.    *)
Exclusive ==
    \A t, u \in SyncTasks :
        t # u /\ job[t].status = "running" /\ job[u].status = "running" => ~job[t].full

Advances(t) ==
    /\ job[t].at # "idle" => job[t].status = "running"
    /\ job[t].at = "files" => \A s \in FileSymbols :
          /\ job[t].known[s] <= mark[s]
          /\ job[t].files[s] <= file[s]
          /\ s \notin Range(job[t].todo) => job[t].files[s] <= OpenMark(t)[s]
    /\ job[t].at = "done" => \A s \in FileSymbols : job[t].files[s] <= mark[s]

JobsInv == Exclusive /\ \A t \in SyncTasks : Advances(t)

MarkInv == LakeInv /\ JobsInv

(* What a file holds behind the mark is read.                              *)
LEMMA NewDaysReach ==
    ASSUME MarksAreNear, ManualTypeOK, NEW s \in FileSymbols,
           NEW known \in 0..MaxToday, NEW m \in 0..MaxToday, known <= m,
           m > 0 => file[s] - m <= Away
    PROVE  /\ \A d \in FileDays : m < d /\ d <= file[s] => d \in NewDays(s, known)
           /\ NewDays(s, known) = {} => file[s] <= m
<1>1. file[s] \in 0..MaxToday
  BY DEF ManualTypeOK, FileMarks
<1>2. \A d \in FileDays : m < d /\ d <= file[s] => d \in NewDays(s, known)
  BY <1>1, TheBounds DEF NewDays, MarksAreNear, FileDays
<1>3. ASSUME NewDays(s, known) = {}, m < file[s] PROVE FALSE
  <2>1. file[s] \in FileDays
    BY <1>1, <1>3, TheBounds DEF FileDays
  <2> QED
    BY <2>1, <1>1, <1>2, <1>3, TheBounds DEF FileDays
<1> QED
  BY <1>1, <1>2, <1>3, TheBounds

LEMMA UpsertKeeps ==
    ASSUME MarksAreNear, ManualTypeOK, NEW tables \in LakeStates, NEW s \in FileSymbols,
           NEW known \in 0..MaxToday, known <= tables.mark[s],
           Kept(tables.raw, tables.mark, file)
    PROVE  LET new == Upserted(tables, s, NewDays(s, known)) IN
           /\ Kept(new.raw, new.mark, file)
           /\ new.mark[s] = file[s]
           /\ \A x \in FileSymbols : tables.mark[x] <= new.mark[x]
<1> DEFINE days == NewDays(s, known)
           new == Upserted(tables, s, days)
<1>1. file \in FileMarks /\ tables.mark \in FileMarks
  BY DEF ManualTypeOK, LakeStates
<1>2. \A d \in FileDays : tables.mark[s] < d /\ d <= file[s] => d \in days
  <2>1. tables.mark[s] \in 0..MaxToday /\ (tables.mark[s] > 0 => file[s] - tables.mark[s] <= Away)
    BY <1>1 DEF Kept, FileMarks
  <2> QED
    BY <2>1, NewDaysReach
<1> HIDE DEF days
<1>3. /\ new.mark = [tables.mark EXCEPT ![s] = file[s]]
      /\ \A x \in FileSymbols, d \in FileDays :
            new.raw[x][d] = IF x = s /\ d \in days THEN "official" ELSE tables.raw[x][d]
  BY <1>1, UpsertedType
<1> HIDE DEF new
<1>4. new.mark[s] = file[s] /\ \A x \in FileSymbols : x # s => new.mark[x] = tables.mark[x]
  BY <1>1, <1>3 DEF FileMarks
<1>5. \A x \in FileSymbols : tables.mark[x] <= new.mark[x]
  BY <1>1, <1>4 DEF Kept, FileMarks
<1>6. ASSUME NEW x \in FileSymbols
      PROVE  /\ new.mark[x] <= file[x]
             /\ new.mark[x] > 0 => file[x] - new.mark[x] <= Away
             /\ \A d \in FileDays : d <= new.mark[x] => new.raw[x][d] # "none"
  <2>1. file[x] \in 0..MaxToday /\ tables.mark[x] \in 0..MaxToday
    BY <1>1 DEF FileMarks
  <2>2. CASE x = s
    <3>1. \A d \in FileDays : d <= file[s] => d \in days \/ tables.raw[s][d] # "none"
      BY <2>1, <2>2, <1>2, TheBounds DEF Kept, FileDays
    <3>2. \A d \in FileDays : d <= new.mark[x] => new.raw[x][d] # "none"
      BY <2>2, <3>1, <1>3, <1>4
    <3> QED
      BY <2>1, <2>2, <3>2, <1>4, TheBounds
  <2>3. CASE x # s
    BY <2>1, <2>3, <1>3, <1>4 DEF Kept
  <2> QED
    BY <2>2, <2>3
<1>7. Kept(new.raw, new.mark, file)
  BY <1>6 DEF Kept
<1> QED
  BY <1>4, <1>5, <1>7 DEF new, days

LEMMA NothingIsKept == \A ends \in FileMarks : Kept(EmptyRows, NoMarks, ends)
<1> SUFFICES ASSUME NEW ends \in FileMarks, NEW s \in FileSymbols
             PROVE  /\ NoMarks[s] <= ends[s]
                    /\ ~(NoMarks[s] > 0)
                    /\ \A d \in FileDays : ~(d <= NoMarks[s])
  BY DEF Kept
<1>1. NoMarks[s] = 0 /\ ends[s] \in 0..MaxToday
  BY DEF NoMarks, FileMarks
<1> QED
  BY <1>1, TheBounds DEF FileDays

-----------------------------------------------------------------------------
(* Steps of a job that reads no files, and steps that leave the jobs.      *)

LEMMA JobMoves ==
    ASSUME ManualTypeOK, MarkInv, NEW t \in SyncTasks, NEW to \in SyncJobs,
           job' = [job EXCEPT ![t] = to],
           UNCHANGED <<tradingDay, file, mark, draft, writer>>,
           raw' \in [FileSymbols -> RowsOfDays],
           \A s \in FileSymbols, d \in FileDays : raw[s][d] # "none" => raw'[s][d] # "none",
           job[t].at # "files",
           to.at \notin {"files", "done"}, to.at # "idle" => to.status = "running",
           \A u \in SyncTasks : u # t /\ to.status = "running" /\ job[u].status = "running"
                                    => ~to.full /\ ~job[u].full
    PROVE  MarkInv'
<1>1. job \in [SyncTasks -> SyncJobs]
  BY DEF ManualTypeOK
<1>2. job'[t] = to /\ \A u \in SyncTasks : u # t => job'[u] = job[u]
  BY <1>1
<1>3. writer # t
  BY DEF MarkInv, LakeInv
<1>4. Kept(raw', mark', file')
  BY DEF MarkInv, LakeInv, Kept
<1>5. LakeInv'
  BY <1>2, <1>3, <1>4 DEF MarkInv, LakeInv
<1>6. Exclusive'
  BY <1>2 DEF MarkInv, JobsInv, Exclusive
<1>7. ASSUME NEW u \in SyncTasks PROVE Advances(u)'
  <2>1. CASE u = t
    BY <1>2, <2>1 DEF Advances
  <2>2. CASE u # t
    BY <1>2, <2>2 DEF MarkInv, JobsInv, Advances, OpenMark
  <2> QED
    BY <2>1, <2>2
<1> QED
  BY <1>5, <1>6, <1>7 DEF MarkInv, JobsInv

(* The day goes by, and rows are added.                                    *)
LEMMA LakeGrows ==
    ASSUME ManualTypeOK, MarkInv, tradingDay' \in FileDays, tradingDay <= tradingDay',
           UNCHANGED <<file, mark, draft, writer, job>>,
           raw' \in [FileSymbols -> RowsOfDays],
           \A s \in FileSymbols, d \in FileDays : raw[s][d] # "none" => raw'[s][d] # "none"
    PROVE  MarkInv'
<1>1. \A s \in FileSymbols : file[s] \in 0..MaxToday
  BY DEF ManualTypeOK, FileMarks
<1>2. \A s \in FileSymbols : file'[s] <= tradingDay'
  BY <1>1, TheBounds DEF MarkInv, LakeInv, ManualTypeOK, FileDays
<1>3. Kept(raw', mark', file')
  BY DEF MarkInv, LakeInv, Kept
<1>4. LakeInv'
  BY <1>2, <1>3 DEF MarkInv, LakeInv
<1>5. JobsInv'
  BY DEF MarkInv, JobsInv, Exclusive, Advances, OpenMark
<1> QED
  BY <1>4, <1>5 DEF MarkInv

-----------------------------------------------------------------------------
(* The steps of a synchronisation of the daily files.                      *)

LEMMA FileWrittenKeeps ==
    ASSUME ManualTypeOK, MarkInv, NEW s \in FileSymbols, FileWritten(s)
    PROVE  MarkInv'
<1>1. /\ file \in FileMarks /\ mark \in FileMarks /\ draft.mark \in FileMarks
      /\ tradingDay \in 1..MaxToday
      /\ \A t \in SyncTasks : job[t].files \in FileMarks
  BY DEF ManualTypeOK, LakeStates, FileDays, SyncJobs
<1>2. /\ file'[s] = tradingDay
      /\ \A x \in FileSymbols : x # s => file'[x] = file[x]
      /\ file[s] < tradingDay
      /\ mark[s] > 0 => tradingDay - mark[s] <= Away
      /\ draft.mark[s] > 0 => tradingDay - draft.mark[s] <= Away
      /\ UNCHANGED <<tradingDay, raw, mark, draft, writer, job>>
  BY <1>1 DEF FileWritten, FileMarks
<1>3. \A x \in FileSymbols : file[x] \in 0..MaxToday /\ file[x] <= file'[x]
  <2> SUFFICES ASSUME NEW x \in FileSymbols
               PROVE  file[x] \in 0..MaxToday /\ file[x] <= file'[x]
    OBVIOUS
  <2>1. file[x] \in 0..MaxToday
    BY <1>1 DEF FileMarks
  <2>2. file'[x] = IF x = s THEN tradingDay ELSE file[x]
    BY <1>2
  <2> QED
    BY <2>1, <2>2, <1>1, <1>2, TheBounds
<1>4. ASSUME NEW rows, NEW marks \in FileMarks, Kept(rows, marks, file),
             marks[s] > 0 => tradingDay - marks[s] <= Away
      PROVE  Kept(rows, marks, file')
  <2> SUFFICES ASSUME NEW x \in FileSymbols
               PROVE  /\ marks[x] <= file'[x]
                      /\ marks[x] > 0 => file'[x] - marks[x] <= Away
    BY <1>4 DEF Kept
  <2>1. marks[x] \in 0..MaxToday
    BY <1>4 DEF FileMarks
  <2> QED
    BY <2>1, <1>1, <1>2, <1>3, <1>4, TheBounds DEF Kept
<1>5. LakeInv'
  <2>1. Kept(raw, mark, file') /\ Kept(draft.raw, draft.mark, file')
    BY <1>1, <1>2, <1>4 DEF MarkInv, LakeInv
  <2>2. \A x \in FileSymbols : file'[x] <= tradingDay'
    BY <1>1, <1>2, TheBounds DEF MarkInv, LakeInv
  <2> QED
    BY <1>2, <2>1, <2>2 DEF MarkInv, LakeInv
<1>6. ASSUME NEW t \in SyncTasks PROVE Advances(t)'
  <2>1. \A x \in FileSymbols : job[t].files[x] \in 0..MaxToday
    BY <1>1 DEF FileMarks
  <2>2. \A x \in FileSymbols : job[t].files[x] <= file[x] => job[t].files[x] <= file'[x]
    BY SMTT(30), <2>1, <1>1, <1>2, <1>3, TheBounds
  <2>3. job' = job /\ mark' = mark /\ OpenMark(t)' = OpenMark(t)
    BY <1>2 DEF OpenMark
  <2>4. Advances(t)
    BY DEF MarkInv, JobsInv
  <2> HIDE DEF OpenMark
  <2> QED
    BY <2>2, <2>3, <2>4 DEF Advances
<1> QED
  BY <1>2, <1>5, <1>6 DEF MarkInv, JobsInv, Exclusive

LEMMA BeginSyncKeeps ==
    ASSUME MarksAreNear, ManualTypeOK, MarkInv, NEW t \in SyncTasks, BeginSync(t)
    PROVE  MarkInv'
<1> DEFINE to == [job[t] EXCEPT !.at = "files", !.todo = Files, !.files = file,
                               !.known = IF job[t].full THEN NoMarks ELSE mark]
<1>1. /\ job \in [SyncTasks -> SyncJobs] /\ job[t].at = "begin"
      /\ file \in FileMarks /\ mark \in FileMarks
  BY DEF ManualTypeOK, BeginSync
<1>2. /\ to.at = "files" /\ to.todo = Files /\ to.files = file
      /\ to.known = IF job[t].full THEN NoMarks ELSE mark
      /\ to.status = job[t].status /\ to.full = job[t].full
  BY <1>1 DEF SyncJobs
<1> HIDE DEF to
<1>3. job'[t] = to /\ \A u \in SyncTasks : u # t => job'[u] = job[u]
  BY <1>1 DEF BeginSync, Works, to
<1>4. UNCHANGED <<tradingDay, file, draft, writer>>
  BY DEF BeginSync
<1>5. job[t].status = "running"
  BY <1>1 DEF MarkInv, JobsInv, Advances
<1>6. Exclusive'
  BY <1>2, <1>3 DEF MarkInv, JobsInv, Exclusive
<1>7. \A s \in FileSymbols : s \in Range(Files) /\ file[s] \in 0..MaxToday
                               /\ mark[s] \in 0..MaxToday /\ NoMarks[s] = 0
  BY <1>1 DEF FileSymbols, FileMarks, NoMarks
<1>8. CASE job[t].full
  <2>1. writer = "none" /\ raw' = EmptyRows /\ mark' = NoMarks
    BY <1>8 DEF BeginSync
  <2>2. Kept(raw', mark', file)
    BY <1>1, <2>1, NothingIsKept
  <2>3. LakeInv'
    BY <1>4, <2>1, <2>2 DEF MarkInv, LakeInv, SyncTasks
  <2>4. \A u \in SyncTasks : u # t => job[u].at \notin {"files", "done"}
    BY <1>5, <1>8 DEF MarkInv, JobsInv, Exclusive, Advances
  <2>5. ASSUME NEW u \in SyncTasks PROVE Advances(u)'
    <3>1. CASE u = t
      <4>1. \A s \in FileSymbols : to.known[s] <= mark'[s] /\ to.files[s] <= file'[s]
        BY <1>2, <1>4, <1>7, <1>8, <2>1, TheBounds
      <4> QED
        BY <1>2, <1>3, <1>5, <1>7, <3>1, <4>1 DEF Advances
    <3>2. CASE u # t
      BY <1>3, <2>4, <3>2 DEF MarkInv, JobsInv, Advances
    <3> QED
      BY <3>1, <3>2
  <2> QED
    BY <1>6, <2>3, <2>5 DEF MarkInv, JobsInv
<1>9. CASE ~job[t].full
  <2>1. raw' = raw /\ mark' = mark
    BY <1>9 DEF BeginSync
  <2>2. writer # t
    BY <1>1 DEF MarkInv, LakeInv
  <2>3. LakeInv'
    BY <1>3, <1>4, <2>1, <2>2 DEF MarkInv, LakeInv
  <2>4. ASSUME NEW u \in SyncTasks PROVE Advances(u)'
    <3>1. CASE u = t
      <4>1. \A s \in FileSymbols : to.known[s] <= mark'[s] /\ to.files[s] <= file'[s]
        BY <1>2, <1>4, <1>7, <1>9, <2>1, TheBounds
      <4> QED
        BY <1>2, <1>3, <1>5, <1>7, <3>1, <4>1 DEF Advances
    <3>2. CASE u # t
      BY <1>3, <1>4, <2>1, <3>2 DEF MarkInv, JobsInv, Advances, OpenMark
    <3> QED
      BY <3>1, <3>2
  <2> QED
    BY <1>6, <2>3, <2>4 DEF MarkInv, JobsInv
<1> QED
  BY <1>8, <1>9

LEMMA RangeOfTail ==
    ASSUME NEW S, NEW q \in Seq(S), q # <<>>, NEW x \in Range(q), x # Head(q)
    PROVE  x \in Range(Tail(q))
<1>1. PICK i \in 1..Len(q) : q[i] = x
  BY DEF Range
<1>2. Tail(q) \in Seq(S) /\ Len(Tail(q)) = Len(q) - 1 /\ q[1] = Head(q)
      /\ \A j \in 1..Len(Tail(q)) : Tail(q)[j] = q[j + 1]
  BY HeadTailProperties
<1>3. i # 1 /\ Len(q) \in Nat
  BY <1>1, <1>2, LenProperties
<1>4. i - 1 \in 1..Len(Tail(q)) /\ Tail(q)[i - 1] = x
  BY <1>1, <1>2, <1>3
<1>5. DOMAIN Tail(q) = 1..Len(Tail(q))
  BY <1>2, LenProperties
<1> QED
  BY <1>4, <1>5 DEF Range

LEMMA ReadFileKeeps ==
    ASSUME MarksAreNear, ManualTypeOK, MarkInv, NEW t \in SyncTasks, ReadFile(t)
    PROVE  MarkInv'
<1> DEFINE s == Head(job[t].todo)
           known == job[t].known[s]
           days == NewDays(s, known)
           from == IF writer = t THEN draft ELSE Stored
           tables == Upserted(from, s, days)
           to == [job[t] EXCEPT !.todo = Tail(@)]
<1>1. /\ job \in [SyncTasks -> SyncJobs] /\ job[t] \in SyncJobs
      /\ job[t].at = "files" /\ job[t].todo # <<>>
      /\ file \in FileMarks /\ mark \in FileMarks
  BY DEF ManualTypeOK, ReadFile
<1>2. /\ to.at = "files" /\ to.todo = Tail(job[t].todo)
      /\ to.files = job[t].files /\ to.known = job[t].known
      /\ to.status = job[t].status /\ to.full = job[t].full
  BY <1>1 DEF SyncJobs
<1>3. job'[t] = to /\ \A u \in SyncTasks : u # t => job'[u] = job[u]
  BY <1>1 DEF ReadFile, Works
<1>4. UNCHANGED <<tradingDay, file>>
  BY DEF ReadFile
<1>5. /\ s \in FileSymbols /\ job[t].todo \in Seq(FileSymbols)
      /\ job[t].files \in FileMarks /\ known \in 0..MaxToday
  BY <1>1, TailIsTyped DEF SyncJobs, FileMarks
<1>6. /\ from \in LakeStates /\ from.mark = OpenMark(t)
      /\ Kept(from.raw, from.mark, file)
      /\ \A x \in FileSymbols : mark[x] <= from.mark[x]
  <2>1. Stored \in LakeStates /\ Stored.mark = mark /\ Stored.raw = raw
    BY DEF Stored, LakeStates, ManualTypeOK
  <2>2. draft \in LakeStates /\ \A x \in FileSymbols : mark[x] \in 0..MaxToday
    BY <1>1 DEF ManualTypeOK, FileMarks
  <2> QED
    BY <2>1, <2>2, TheBounds DEF OpenMark, MarkInv, LakeInv
<1>7. Advances(t) /\ known <= mark[s] /\ known <= from.mark[s]
  <2>1. Advances(t)
    BY DEF MarkInv, JobsInv
  <2>2. known <= mark[s]
    BY <1>1, <1>5, <2>1 DEF Advances
  <2>3. mark[s] \in 0..MaxToday /\ from.mark[s] \in 0..MaxToday
    BY <1>1, <1>5, <1>6 DEF FileMarks, LakeStates
  <2> QED
    BY SMTT(30), <1>5, <1>6, <2>1, <2>2, <2>3, TheBounds
<1>8. \/ days = {} /\ UNCHANGED <<raw, mark, draft, writer>>
      \/ writer \in {"none", t} /\ Commits(tables)
      \/ writer \in {"none", t} /\ draft' = tables /\ writer' = t /\ UNCHANGED <<raw, mark>>
  BY DEF ReadFile
<1>9. tables \in LakeStates
  <2> HIDE DEF from, s, days
  <2> QED
    BY <1>1, <1>5, <1>6, UpsertedType
<1>10. /\ Kept(tables.raw, tables.mark, file) /\ tables.mark[s] = file[s]
       /\ \A x \in FileSymbols : from.mark[x] <= tables.mark[x]
  <2> HIDE DEF from, s, known
  <2> QED
    BY <1>5, <1>6, <1>7, UpsertKeeps
<1>11. days = {} => file[s] <= from.mark[s]
  <2>1. from.mark[s] \in 0..MaxToday /\ (from.mark[s] > 0 => file[s] - from.mark[s] <= Away)
    BY <1>5, <1>6 DEF LakeStates, FileMarks, Kept
  <2> HIDE DEF from, s, known
  <2> QED
    BY <1>5, <1>7, <2>1, NewDaysReach
<1>12. \A x \in FileSymbols : x \notin Range(Tail(job[t].todo)) =>
          x = s \/ x \notin Range(job[t].todo)
  BY <1>1, <1>5, RangeOfTail
<1> HIDE DEF s, known, days, from, tables, to
<1>13. \A x \in FileSymbols :
          /\ file[x] \in 0..MaxToday /\ mark[x] \in 0..MaxToday
          /\ from.mark[x] \in 0..MaxToday /\ tables.mark[x] \in 0..MaxToday
          /\ job[t].files[x] \in 0..MaxToday /\ job[t].known[x] \in 0..MaxToday
  BY <1>1, <1>6, <1>9 DEF LakeStates, FileMarks, SyncJobs
<1>forward. \A x \in FileSymbols : mark[x] <= tables.mark[x]
  <2> SUFFICES ASSUME NEW x \in FileSymbols PROVE mark[x] <= tables.mark[x]
    OBVIOUS
  <2>1. mark[x] <= from.mark[x]
    BY <1>6, <1>13
  <2>2. from.mark[x] <= tables.mark[x]
    BY <1>10
  <2> QED
    BY <1>13, <2>1, <2>2
<1>14. Exclusive'
  BY <1>2, <1>3 DEF MarkInv, JobsInv, Exclusive
(* What the step leaves: in each case the new marks, from which the rest   *)
(* follows in the same way.                                                *)
<1>15. ASSUME OpenMark(t)' \in FileMarks, mark' \in FileMarks,
              \A x \in FileSymbols : mark[x] <= mark'[x],
              \A x \in FileSymbols : from.mark[x] <= OpenMark(t)'[x],
              file[s] <= OpenMark(t)'[s]
       PROVE  Advances(t)'
  <2>1. \A x \in FileSymbols : mark'[x] \in 0..MaxToday /\ OpenMark(t)'[x] \in 0..MaxToday
    BY <1>15 DEF FileMarks
  <2>2. ASSUME NEW x \in FileSymbols
        PROVE  /\ to.known[x] <= mark'[x]
               /\ to.files[x] <= file'[x]
               /\ x \notin Range(to.todo) => to.files[x] <= OpenMark(t)'[x]
    <3>1. to.known[x] <= mark[x] /\ to.files[x] <= file[x]
      BY <1>1, <1>2, <1>7 DEF Advances
    <3>2. x \notin Range(job[t].todo) => to.files[x] <= from.mark[x]
      BY <1>1, <1>2, <1>6, <1>7 DEF Advances
    <3>3. x \notin Range(to.todo) => x = s \/ x \notin Range(job[t].todo)
      BY <1>2, <1>12
    <3> QED
      BY SMTT(30), <3>1, <3>2, <3>3, <2>1, <1>2, <1>4, <1>13, <1>15, TheBounds
  <2>3. to.status = "running"
    BY <1>1, <1>2, <1>7 DEF Advances
  <2> HIDE DEF OpenMark
  <2> QED
    BY <1>2, <1>3, <2>2, <2>3 DEF Advances
<1>16. ASSUME \A x \in FileSymbols : mark[x] <= mark'[x], mark' \in FileMarks,
              NEW u \in SyncTasks, u # t,
              writer = u => UNCHANGED <<draft, writer>>, writer # u => writer' # u
       PROVE  Advances(u)'
  <2>1. Advances(u) /\ job'[u] = job[u]
    BY <1>3, <1>16 DEF MarkInv, JobsInv
  <2>2. \A x \in FileSymbols :
           /\ mark[x] \in 0..MaxToday /\ mark'[x] \in 0..MaxToday
           /\ job[u].files[x] \in 0..MaxToday /\ job[u].known[x] \in 0..MaxToday
    <3>1. job[u] \in SyncJobs
      BY <1>1
    <3>2. job[u].files \in FileMarks /\ job[u].known \in FileMarks
      BY <3>1 DEF SyncJobs
    <3> QED
      BY <3>2, <1>1, <1>16 DEF FileMarks
  <2>3. \A x \in FileSymbols : job[u].files[x] <= OpenMark(u)[x] => job[u].files[x] <= OpenMark(u)'[x]
    BY <1>16, <2>2, TheBounds DEF OpenMark
  <2>4. \A x \in FileSymbols :
           /\ job[u].files[x] <= mark[x] => job[u].files[x] <= mark'[x]
           /\ job[u].known[x] <= mark[x] => job[u].known[x] <= mark'[x]
    BY <1>16, <2>2, TheBounds
  <2> HIDE DEF OpenMark
  <2> QED
    BY <1>4, <2>1, <2>3, <2>4 DEF Advances
<1>17. CASE days = {} /\ UNCHANGED <<raw, mark, draft, writer>>
  <2>1. LakeInv'
    BY <1>2, <1>3, <1>4, <1>17 DEF MarkInv, LakeInv
  <2>2. OpenMark(t)' = from.mark
    BY <1>6, <1>17 DEF OpenMark
  <2>3. from.mark \in FileMarks
    BY <1>6 DEF LakeStates
  <2>4. Advances(t)'
    BY <1>1, <1>11, <1>13, <1>15, <1>17, <2>2, <2>3, TheBounds
  <2>5. \A u \in SyncTasks : u # t => Advances(u)'
    BY <1>1, <1>13, <1>16, <1>17, TheBounds
  <2> QED
    BY <1>14, <2>1, <2>4, <2>5 DEF MarkInv, JobsInv
<1>18. CASE writer \in {"none", t} /\ Commits(tables)
  <2>1. /\ raw' = tables.raw /\ mark' = tables.mark
        /\ draft' = NoDraft /\ writer' = "none"
    BY <1>18 DEF Commits
  <2>2. Kept(draft'.raw, draft'.mark, file)
    BY <1>1, <2>1, NothingIsKept DEF NoDraft
  <2>3. LakeInv'
    BY <1>4, <1>10, <2>1, <2>2 DEF MarkInv, LakeInv, SyncTasks
  <2>4. OpenMark(t)' = tables.mark /\ tables.mark \in FileMarks
    BY <1>9, <2>1 DEF OpenMark, LakeStates, SyncTasks
  <2>5. \A x \in FileSymbols : mark[x] <= tables.mark[x]
    BY <1>forward
  <2>6. Advances(t)'
    BY <1>5, <1>10, <1>13, <1>15, <2>1, <2>4, <2>5, TheBounds
  <2>7. \A u \in SyncTasks : u # t => Advances(u)'
    BY <1>16, <1>18, <2>1, <2>4, <2>5 DEF SyncTasks
  <2> QED
    BY <1>14, <2>3, <2>6, <2>7 DEF MarkInv, JobsInv
<1>19. CASE writer \in {"none", t} /\ draft' = tables /\ writer' = t /\ UNCHANGED <<raw, mark>>
  <2>1. \A x \in FileSymbols : mark[x] <= tables.mark[x]
    BY <1>forward
  <2>2. LakeInv'
    BY <1>2, <1>3, <1>4, <1>10, <1>19, <2>1 DEF MarkInv, LakeInv
  <2>3. OpenMark(t)' = tables.mark /\ tables.mark \in FileMarks
    BY <1>9, <1>19 DEF OpenMark, LakeStates
  <2>4. Advances(t)'
    BY <1>1, <1>5, <1>10, <1>13, <1>15, <1>19, <2>3, TheBounds
  <2>5. \A u \in SyncTasks : u # t => Advances(u)'
    <3>1. ASSUME NEW u \in SyncTasks, u # t PROVE writer # u /\ writer' # u
      BY <1>19, <3>1 DEF SyncTasks
    <3>2. mark' \in FileMarks /\ \A x \in FileSymbols : mark[x] <= mark'[x]
      BY <1>1, <1>13, <1>19, TheBounds
    <3> QED
      BY <1>16, <3>1, <3>2
  <2> QED
    BY <1>14, <2>2, <2>4, <2>5 DEF MarkInv, JobsInv
<1> QED
  BY <1>8, <1>17, <1>18, <1>19

LEMMA EndFilesKeeps ==
    ASSUME ManualTypeOK, MarkInv, NEW t \in SyncTasks, EndFiles(t)
    PROVE  MarkInv'
<1> DEFINE to == [job[t] EXCEPT !.at = "done", !.known = NoMarks]
<1>1. /\ job \in [SyncTasks -> SyncJobs] /\ job[t] \in SyncJobs
      /\ job[t].at = "files" /\ job[t].todo = <<>>
      /\ mark \in FileMarks /\ draft.mark \in FileMarks
  BY DEF ManualTypeOK, EndFiles, LakeStates
<1>2. /\ to.at = "done" /\ to.files = job[t].files
      /\ to.status = job[t].status /\ to.full = job[t].full
  BY <1>1 DEF SyncJobs
<1>3. job'[t] = to /\ \A u \in SyncTasks : u # t => job'[u] = job[u]
  BY <1>1 DEF EndFiles, Works
<1> HIDE DEF to
<1>4. UNCHANGED <<tradingDay, file>>
  BY DEF EndFiles
<1>5. Advances(t) /\ Kept(draft.raw, draft.mark, file)
  BY DEF MarkInv, JobsInv, LakeInv
<1>6. \A s \in FileSymbols : job[t].files[s] <= OpenMark(t)[s]
  BY <1>1, <1>5 DEF Advances, Range
<1>7. Exclusive'
  BY <1>2, <1>3 DEF MarkInv, JobsInv, Exclusive
<1>8. CASE writer = t
  <2>1. /\ raw' = draft.raw /\ mark' = draft.mark
        /\ draft' = NoDraft /\ writer' = "none"
    BY <1>8 DEF EndFiles, Commits
  <2>2. Kept(draft'.raw, draft'.mark, file)
    BY <2>1, NothingIsKept DEF NoDraft, ManualTypeOK
  <2>3. LakeInv'
    BY <1>4, <1>5, <2>1, <2>2 DEF MarkInv, LakeInv, SyncTasks
  <2>4. Advances(t)'
    BY <1>1, <1>2, <1>3, <1>5, <1>6, <1>8, <2>1 DEF Advances, OpenMark
  <2>5. ASSUME NEW u \in SyncTasks, u # t PROVE Advances(u)'
    <3>1. Advances(u) /\ job'[u] = job[u] /\ OpenMark(u) = mark /\ OpenMark(u)' = mark'
      BY <1>3, <1>8, <2>1, <2>5 DEF MarkInv, JobsInv, OpenMark, SyncTasks
    <3>2. job[u].files \in FileMarks /\ job[u].known \in FileMarks
      BY <1>1 DEF SyncJobs
    <3>3. \A s \in FileSymbols :
             /\ mark[s] \in 0..MaxToday /\ draft.mark[s] \in 0..MaxToday
             /\ job[u].files[s] \in 0..MaxToday /\ job[u].known[s] \in 0..MaxToday
      BY <1>1, <3>2 DEF FileMarks
    <3>4. \A s \in FileSymbols :
             /\ job[u].files[s] <= mark[s] => job[u].files[s] <= mark'[s]
             /\ job[u].known[s] <= mark[s] => job[u].known[s] <= mark'[s]
      BY <1>8, <2>1, <3>3, TheBounds DEF MarkInv, LakeInv
    <3> HIDE DEF OpenMark
    <3> QED
      BY <1>4, <3>1, <3>4 DEF Advances
  <2> QED
    BY <1>7, <2>3, <2>4, <2>5 DEF MarkInv, JobsInv
<1>9. CASE writer # t
  <2>1. UNCHANGED <<raw, mark, draft, writer>>
    BY <1>9 DEF EndFiles
  <2>2. LakeInv'
    BY <1>3, <1>4, <1>9, <2>1 DEF MarkInv, LakeInv
  <2>3. Advances(t)'
    BY <1>1, <1>2, <1>3, <1>5, <1>6, <1>9, <2>1 DEF Advances, OpenMark
  <2>4. \A u \in SyncTasks : u # t => Advances(u)'
    BY <1>3, <1>4, <2>1 DEF MarkInv, JobsInv, Advances, OpenMark
  <2> QED
    BY <1>7, <2>2, <2>3, <2>4 DEF MarkInv, JobsInv
<1> QED
  BY <1>8, <1>9

LEMMA SyncRaisesKeeps ==
    ASSUME ManualTypeOK, MarkInv, NEW t \in SyncTasks, SyncRaises(t)
    PROVE  MarkInv'
<1>1. job \in [SyncTasks -> SyncJobs]
  BY DEF ManualTypeOK
<1>2. /\ job'[t] = [NoJob EXCEPT !.status = "error"]
      /\ \A u \in SyncTasks : u # t => job'[u] = job[u]
      /\ UNCHANGED <<tradingDay, file, raw, mark>>
      /\ IF writer = t THEN draft' = NoDraft /\ writer' = "none" ELSE UNCHANGED <<draft, writer>>
  BY <1>1 DEF SyncRaises, Ends
<1>3. job'[t].at = "idle" /\ job'[t].status = "error"
  BY <1>2 DEF NoJob
<1>4. Kept(draft'.raw, draft'.mark, file)
  BY <1>2, NothingIsKept DEF NoDraft, ManualTypeOK, MarkInv, LakeInv
<1>5. LakeInv'
  BY <1>2, <1>4 DEF MarkInv, LakeInv, SyncTasks
<1>6. Exclusive'
  BY <1>2, <1>3 DEF MarkInv, JobsInv, Exclusive
<1>7. Advances(t)'
  BY <1>3 DEF Advances
<1>8. ASSUME NEW u \in SyncTasks, u # t PROVE Advances(u)'
  <2>1. OpenMark(u)' = OpenMark(u)
    BY <1>2, <1>8 DEF OpenMark, SyncTasks
  <2>2. Advances(u) /\ job'[u] = job[u]
    BY <1>2, <1>8 DEF MarkInv, JobsInv
  <2> HIDE DEF OpenMark
  <2> QED
    BY <1>2, <2>1, <2>2 DEF Advances
<1> QED
  BY <1>5, <1>6, <1>7, <1>8 DEF MarkInv, JobsInv

LEMMA RestartKeeps ==
    ASSUME ManualTypeOK, MarkInv, ManualRestart
    PROVE  MarkInv'
<1>1. /\ UNCHANGED <<tradingDay, file, raw, mark>>
      /\ draft' = NoDraft /\ writer' = "none"
      /\ \A t \in SyncTasks : job'[t] = NoJob
  BY DEF ManualRestart
<1>2. Kept(draft'.raw, draft'.mark, file)
  BY <1>1, NothingIsKept DEF NoDraft, ManualTypeOK
<1>3. LakeInv'
  BY <1>1, <1>2 DEF MarkInv, LakeInv, SyncTasks
<1>4. NoJob.at = "idle" /\ NoJob.status = "none"
  BY DEF NoJob
<1>5. JobsInv'
  BY <1>1, <1>4 DEF JobsInv, Exclusive, Advances
<1> QED
  BY <1>3, <1>5 DEF MarkInv

(* A job that ends, wherever it was but among the files.                   *)
LEMMA EndsKeep ==
    ASSUME ManualTypeOK, MarkInv, NEW t \in SyncTasks, NEW status \in RunStatuses,
           status # "running", Ends(t, status), job[t].at # "files",
           UNCHANGED <<tradingDay, file, raw, mark, draft, writer>>
    PROVE  MarkInv'
<1> DEFINE to == [NoJob EXCEPT !.status = status]
<1>1. to \in SyncJobs /\ to.at = "idle" /\ to.status = status
  BY Blank DEF SyncJobs, NoJob
<1>2. job' = [job EXCEPT ![t] = to] /\ raw' \in [FileSymbols -> RowsOfDays]
  BY DEF Ends, ManualTypeOK
<1> HIDE DEF to
<1> QED
  BY <1>1, <1>2, JobMoves

(* A job that goes on as it was, or begins alone.                          *)
LEMMA WorksKeep ==
    ASSUME ManualTypeOK, MarkInv, NEW t \in SyncTasks, NEW to \in SyncJobs, Works(t, to),
           job[t].at \notin {"idle", "files"}, to.at \notin {"idle", "files", "done"},
           to.status = job[t].status, to.full = job[t].full,
           UNCHANGED <<tradingDay, file, mark, draft, writer>>,
           raw' \in [FileSymbols -> RowsOfDays],
           \A s \in FileSymbols, d \in FileDays : raw[s][d] # "none" => raw'[s][d] # "none"
    PROVE  MarkInv'
<1>1. job[t].status = "running"
  BY DEF MarkInv, JobsInv, Advances
<1>2. \A u \in SyncTasks : u # t /\ job[u].status = "running" => ~to.full /\ ~job[u].full
  BY <1>1 DEF MarkInv, JobsInv, Exclusive
<1>3. job' = [job EXCEPT ![t] = to]
  BY DEF Works
<1> QED
  BY <1>1, <1>2, <1>3, JobMoves

LEMMA StartKeeps ==
    ASSUME MarksAreNear, ManualTypeOK, MarkInv, NEW t \in SyncTasks, NEW to \in SyncJobs,
           Works(t, to), job[t].status # "running", Alone(to.full),
           to.at \in {"begin", "create"}, to.status = "running",
           UNCHANGED <<tradingDay, file, raw, mark, draft, writer>>
    PROVE  MarkInv'
<1>1. job[t].at = "idle"
  BY DEF MarkInv, JobsInv, Advances
<1>2. \A u \in SyncTasks : u # t /\ job[u].status = "running" => ~to.full /\ ~job[u].full
  BY DEF Alone, MarksAreNear
<1>3. job' = [job EXCEPT ![t] = to] /\ raw' \in [FileSymbols -> RowsOfDays]
  BY DEF Works, ManualTypeOK
<1> QED
  BY <1>1, <1>2, <1>3, JobMoves

(* With marks that are near, and no full synchronisation beside another:   *)
(* no day up to a mark is missing, a synchronisation that is done has      *)
(* brought each symbol to what its file held, and no change goes without   *)
(* its structure jobs (sync_daily_files, _parse_day_file).                 *)
THEOREM MarksLeaveNoGap == ASSUME MarksAreNear PROVE ManualSpec => []ManualSound
<1>1. ManualInit => MarkInv
  <2> SUFFICES ASSUME ManualInit PROVE MarkInv
    OBVIOUS
  <2>1. Kept(EmptyRows, NoMarks, file)
    BY Blank, NothingIsKept DEF ManualInit
  <2>2. LakeInv
    BY <2>1, TheBounds DEF ManualInit, LakeInv, NoDraft, SyncTasks, NoMarks
  <2>3. NoJob.at = "idle" /\ NoJob.status = "none"
    BY DEF NoJob
  <2>4. JobsInv
    BY <2>3 DEF ManualInit, JobsInv, Exclusive, Advances
  <2> QED
    BY <2>2, <2>4 DEF MarkInv
<1>2. ManualTypeOK /\ ManualTypeOK' /\ MarkInv /\ [ManualNext]_manualVars => MarkInv'
  <2> SUFFICES ASSUME ManualTypeOK, ManualTypeOK', MarkInv, [ManualNext]_manualVars
               PROVE MarkInv'
    OBVIOUS
  <2>1. raw \in [FileSymbols -> RowsOfDays] /\ raw' \in [FileSymbols -> RowsOfDays]
        /\ job \in [SyncTasks -> SyncJobs] /\ tradingDay \in 1..MaxToday
    BY DEF ManualTypeOK, FileDays
  <2>2. CASE UNCHANGED <<tradingDay, file, raw, mark, draft, writer, job>>
    BY <2>2 DEF MarkInv, LakeInv, JobsInv, Exclusive, Advances, OpenMark
  <2>3. CASE NextDay
    <3>1. tradingDay <= tradingDay' /\ UNCHANGED <<file, raw, mark, draft, writer, job>>
      BY <2>1, <2>3, TheBounds DEF NextDay
    <3> QED
      BY <2>1, <3>1, LakeGrows DEF ManualTypeOK
  <2>4. ASSUME NEW full \in BOOLEAN, StartDaily(full) PROVE MarkInv'
    <3> DEFINE t == "daily"
               to == [job[t] EXCEPT !.at = "begin", !.status = "running", !.full = full]
    <3>1. to \in SyncJobs /\ to.at = "begin" /\ to.status = "running" /\ to.full = full
      BY <2>1 DEF SyncJobs, SyncTasks, RunStatuses
    <3>2. Works(t, to) /\ t \in SyncTasks
      BY <2>4 DEF StartDaily, SyncTasks
    <3> HIDE DEF to
    <3> QED
      BY <2>4, <3>1, <3>2, StartKeeps DEF StartDaily
  <2>5. ASSUME NEW full \in BOOLEAN, NEW forced \in BOOLEAN, StartPostmarket(full, forced)
        PROVE MarkInv'
    <3> DEFINE t == "postmarket"
               to == [job[t] EXCEPT !.at = "create", !.status = "running", !.full = full]
    <3>1. to \in SyncJobs /\ to.at = "create" /\ to.status = "running" /\ to.full = full
      BY <2>1 DEF SyncJobs, SyncTasks, RunStatuses
    <3>2. Works(t, to) /\ t \in SyncTasks
      BY <2>5 DEF StartPostmarket, SyncTasks
    <3> HIDE DEF to
    <3> QED
      BY <2>5, <3>1, <3>2, StartKeeps DEF StartPostmarket
  <2>6. CASE DailyEnds
    BY <2>6, EndsKeep DEF DailyEnds, SyncTasks, RunStatuses
  <2>7. CASE PostmarketEnds
    <3>1. PICK status \in {"success", "error"} : Ends("postmarket", status)
      BY <2>7 DEF PostmarketEnds
    <3>2. /\ job["postmarket"].at # "files"
          /\ UNCHANGED <<tradingDay, file, raw, mark, draft, writer>>
      BY <2>7 DEF PostmarketEnds
    <3> QED
      BY <3>1, <3>2, EndsKeep DEF SyncTasks, RunStatuses
  <2>8. CASE CreateBatch
    <3> DEFINE t == "postmarket"
               at == IF job[t].full THEN "begin" ELSE "tracked"
               to == [job[t] EXCEPT !.at = at, !.todo = Tracked]
    <3>1. /\ job[t].at = "create" /\ t \in SyncTasks
          /\ UNCHANGED <<tradingDay, file, raw, mark, draft, writer>>
          /\ Works(t, to) \/ Ends(t, "error")
      BY <2>8 DEF CreateBatch, SyncTasks
    <3>2. /\ to \in SyncJobs /\ to.at \in {"begin", "tracked"}
          /\ to.status = job[t].status /\ to.full = job[t].full
      BY <2>1, <3>1, TheBounds DEF SyncJobs
    <3> HIDE DEF to
    <3>3. CASE Works(t, to)
      BY <2>1, <3>1, <3>2, <3>3, WorksKeep
    <3>4. CASE Ends(t, "error")
      BY <3>1, <3>4, EndsKeep DEF RunStatuses
    <3> QED
      BY <3>1, <3>3, <3>4
  <2>9. CASE ThenTracked
    <3> DEFINE t == "postmarket"
               to == [job[t] EXCEPT !.at = "tracked", !.todo = Tracked, !.files = NoMarks]
    <3>1. /\ job[t].at = "done" /\ t \in SyncTasks /\ Works(t, to)
          /\ UNCHANGED <<tradingDay, file, raw, mark, draft, writer>>
      BY <2>9 DEF ThenTracked, SyncTasks
    <3>2. /\ to \in SyncJobs /\ to.at = "tracked"
          /\ to.status = job[t].status /\ to.full = job[t].full
      BY <2>1, <3>1, Blank, TheBounds DEF SyncJobs
    <3> HIDE DEF to
    <3> QED
      BY <2>1, <3>1, <3>2, WorksKeep
  <2>10. CASE SyncTracked
    <3> DEFINE t == "postmarket"
               s == Head(job[t].todo)
               to == [job[t] EXCEPT !.todo = Tail(@)]
    <3>1. /\ job[t].at = "tracked" /\ job[t].todo # <<>> /\ t \in SyncTasks /\ Works(t, to)
          /\ UNCHANGED <<tradingDay, file, mark, draft, writer>>
      BY <2>10 DEF SyncTracked, SyncTasks
    <3>2. s \in FileSymbols /\ Tail(job[t].todo) \in Seq(FileSymbols)
      BY <2>1, <3>1, TailIsTyped DEF SyncJobs
    <3>3. /\ to \in SyncJobs /\ to.at = "tracked"
          /\ to.status = job[t].status /\ to.full = job[t].full
      BY <2>1, <3>1, <3>2 DEF SyncJobs
    <3>4. \A x \in FileSymbols, d \in FileDays : raw[x][d] # "none" => raw'[x][d] # "none"
      <4>1. ASSUME NEW rows \in LocalDays(s),
                   raw' = WithRows(s, [d \in FileDays |->
                                          IF d > LastRow(s) THEN rows[d] ELSE "none"])
            PROVE  \A x \in FileSymbols, d \in FileDays : raw[x][d] # "none" => raw'[x][d] # "none"
        <5>1. rows \in RowsOfDays
          BY <3>2, RowsOfFile
        <5>2. [d \in FileDays |-> IF d > LastRow(s) THEN rows[d] ELSE "none"] \in RowsOfDays
          BY <5>1, LastRowTyped
        <5> QED
          BY <2>1, <3>2, <4>1, <5>2, RowsAreAdded
      <4> QED
        BY <2>10, <4>1 DEF SyncTracked
    <3> HIDE DEF to, s
    <3> QED
      BY <2>1, <3>1, <3>3, <3>4, WorksKeep
  <2>11. CASE WriteLocal
    <3>1. /\ UNCHANGED <<tradingDay, file, mark, draft, writer, job>>
          /\ raw' = WithRows(refresh.symbol, refresh.taken)
      BY <2>11 DEF WriteLocal, InRequest
    <3>2. refresh.symbol \in FileSymbols /\ refresh.taken \in RowsOfDays
      BY DEF ManualTypeOK, SymbolRequests
    <3>3. \A x \in FileSymbols, d \in FileDays : raw[x][d] # "none" => raw'[x][d] # "none"
      BY <2>1, <3>1, <3>2, RowsAreAdded
    <3> QED
      BY <2>1, <3>1, <3>3, LakeGrows DEF ManualTypeOK
  <2>12. (\E s \in Range(Tracked) :
             \E freqs \in {Freqs} \cup {<<f>> : f \in Range(Freqs)} : AskSymbol(s, freqs))
         \/ DayFactor \/ FetchFreq \/ RebuildAdjusted \/ QueueChanges \/ CloseBatch
         => UNCHANGED <<tradingDay, file, raw, mark, draft, writer, job>>
    BY DEF AskSymbol, DayFactor, FetchFreq, RebuildAdjusted, QueueChanges, CloseBatch, InRequest
  <2>13. CASE ManualNext
    BY <2>2, <2>3, <2>4, <2>5, <2>6, <2>7, <2>8, <2>9, <2>10, <2>11, <2>12, <2>13,
       FileWrittenKeeps, BeginSyncKeeps, ReadFileKeeps, EndFilesKeeps, SyncRaisesKeeps,
       RestartKeeps
    DEF ManualNext, RequestStep
  <2> QED
    BY <2>2, <2>13 DEF manualVars
<1>3. MarkInv => RowsUpToMark /\ DoneIsCurrent
  <2>1. MarkInv => RowsUpToMark
    BY DEF MarkInv, LakeInv, Kept, RowsUpToMark
  <2>2. ASSUME MarkInv, ManualTypeOK, NEW t \in SyncTasks, job[t].at = "done",
               NEW s \in FileSymbols
        PROVE  mark[s] >= job[t].files[s]
    BY <2>2 DEF MarkInv, JobsInv, Advances
  <2> QED
    BY <2>1, <2>2 DEF DoneIsCurrent, MarkInv, JobsInv, Advances
<1>4. ManualTypeOK /\ MarkInv /\ SuccessIsQueued => ManualSound
  BY <1>3 DEF ManualSound
<1> QED
  BY <1>1, <1>2, <1>4, ManualTypeCorrect, SuccessesAreQueued, PTL DEF ManualSpec

-----------------------------------------------------------------------------
(* KlineSync: the types.                                                   *)

(* What a pass has still to fetch.                                         *)
ToFetch(p, s, f) ==
    /\ p.todo # <<>>
    /\ \/ s = Head(p.todo) /\ f \in Range(p.next)
       \/ s \in Range(Tail(p.todo)) /\ f \in Range(p.freqs)

(* A pass with a symbol at hand has a frequency of it to fetch.            *)
AtHand(p) == p.todo # <<>> => p.next # <<>> /\ p.freqs # <<>>

SyncInv ==
    /\ SyncTypeOK
    /\ \A f \in Range(AllFreqs) : source[f] <= date
    /\ \A c \in Callers : AtHand(pass[c])

LEMMA SyncBounds ==
    /\ AllFreqs \in Seq(Range(AllFreqs)) /\ AllFreqs # <<>> /\ MaxDate \in Nat /\ 1 <= MaxDate
    /\ MaxEvents \in Nat /\ 0 \in Dates
    /\ \A d \in Dates : d \in Nat
<1>1. AllFreqs # <<>>
  BY SyncAssumption DEF Range
<1> QED
  BY <1>1, SyncAssumption DEF Dates

LEMMA InSomeOrder ==
    ASSUME NEW symbols \in SUBSET Symbols
    PROVE  /\ SetToSeq(symbols) \in Seq(Symbols)
           /\ Range(SetToSeq(symbols)) = symbols
<1> DEFINE n == Cardinality(symbols)
           order == SetToSeq(symbols)
<1>1. IsFiniteSet(symbols)
  BY SyncAssumption, FS_Subset
<1>2. n \in Nat /\ ExistsBijection(1..n, symbols)
  BY <1>1, FS_CardinalityType
<1>3. \E g \in [1..n -> symbols] : IsInjective(g)
  BY <1>2 DEF ExistsBijection, Bijection, Injection, IsInjective
<1>4. order \in [1..n -> symbols] /\ IsInjective(order)
  BY <1>3 DEF SetToSeq
<1> HIDE DEF order
<1>5. IsFiniteSet(1..n) /\ Cardinality(1..n) = n
  BY <1>2, FS_Interval
<1>6. \A x \in symbols : \E i \in 1..n : order[i] = x
  <2>1. order \in Injection(1..n, symbols)
    BY <1>4 DEF Injection, IsInjective
  <2>2. order \in Surjection(1..n, symbols)
    BY <1>1, <1>5, <2>1, FS_Injection
  <2> QED
    BY <2>2 DEF Surjection
<1>7. Range(order) = symbols
  BY <1>4, <1>6 DEF Range
<1>8. order \in Seq(symbols)
  BY <1>2, <1>4
<1> QED
  BY <1>7, <1>8 DEF order

LEMMA BlankPass ==
    /\ Nothing \in [Range(AllFreqs) -> Dates]
    /\ NoPass \in Passes /\ AtHand(NoPass)
    /\ NoPass.at = "idle" /\ NoPass.todo = <<>>
    /\ DownPass \in Passes /\ AtHand(DownPass) /\ DownPass.at = "down"
    /\ \A c \in Callers : Ended(c) \in Passes /\ Ended(c).at = "idle" /\ Ended(c).todo = <<>>
<1>1. Nothing \in [Range(AllFreqs) -> Dates]
  BY SyncBounds DEF Nothing
<1>2. NoPass \in Passes
  BY <1>1, SyncBounds DEF NoPass, Passes
<1>3. DownPass \in Passes
  BY <1>2, ZenonT(60) DEF DownPass, Passes
<1>4. NoPass.at = "idle" /\ NoPass.todo = <<>> /\ DownPass.at = "down" /\ DownPass.todo = <<>>
  BY DEF NoPass, DownPass
<1>5. \A c \in Callers : Ended(c) \in Passes
  BY <1>2, ZenonT(60) DEF Ended, Passes
<1>6. \A c \in Callers : Ended(c).at = "idle" /\ Ended(c).todo = <<>>
  BY DEF Ended, NoPass
<1> QED
  BY <1>1, <1>2, <1>3, <1>4, <1>5, <1>6 DEF AtHand

(* A pass as it begins.                                                    *)
LEMMA BegunPass ==
    ASSUME SyncInv, NEW scope \in Scopes \cup {NoScope}, NEW symbols \in SUBSET Symbols,
           NEW freqs \in Seq(Range(AllFreqs)), freqs # <<>>,
           NEW p, p = Begun(scope, symbols, freqs)
    PROVE  /\ p \in Passes /\ AtHand(p)
           /\ p.at = "fetch" /\ p.scope = scope /\ p.began = date
           /\ p.todo = SetToSeq(symbols) /\ p.freqs = freqs /\ p.next = freqs
           /\ p.failed = {}
<1> DEFINE order == SetToSeq(symbols)
<1>1. order \in Seq(Symbols) /\ date \in Dates
  BY InSomeOrder, SyncBounds DEF SyncInv, SyncTypeOK, Dates
<1> HIDE DEF order
<1>2. p = [NoPass EXCEPT !.at = "fetch", !.scope = scope, !.began = date,
                         !.todo = order, !.freqs = freqs, !.next = freqs]
  BY DEF Begun, order
<1>3. /\ p.at = "fetch" /\ p.scope = scope /\ p.began = date
      /\ p.todo = order /\ p.freqs = freqs /\ p.next = freqs /\ p.failed = {}
  BY <1>2 DEF NoPass
<1>4. p \in Passes
  BY <1>1, <1>2, BlankPass, ZenonT(60) DEF Passes
<1> QED
  BY <1>3, <1>4 DEF AtHand, order

LEMMA MarkingPass ==
    ASSUME SyncInv, NEW scope \in Scopes
    PROVE  LET p == Marking(scope) IN
           /\ p \in Passes /\ AtHand(p)
           /\ p.at = "fetch" /\ p.scope = scope /\ p.began = date
           /\ p.todo = SetToSeq(AllTracked) /\ p.freqs = FreqsOf(scope)
           /\ p.next = FreqsOf(scope) /\ p.symbols = AllTracked /\ p.seen = source
           /\ p.failed = {}
<1> DEFINE b == Begun(scope, AllTracked, FreqsOf(scope))
           p == Marking(scope)
<1>0. scope \in Scopes \cup {NoScope}
  OBVIOUS
<1>1. AllTracked \in SUBSET Symbols /\ source \in [Range(AllFreqs) -> Dates]
  BY SyncAssumption DEF SyncInv, SyncTypeOK, AllTracked
<1>2. FreqsOf(scope) \in Seq(Range(AllFreqs)) /\ FreqsOf(scope) # <<>>
  BY SyncBounds, SyncAssumption DEF FreqsOf
<1>3. /\ b \in Passes /\ AtHand(b)
      /\ b.at = "fetch" /\ b.scope = scope /\ b.began = date
      /\ b.todo = SetToSeq(AllTracked) /\ b.freqs = FreqsOf(scope) /\ b.next = FreqsOf(scope)
      /\ b.failed = {}
  BY <1>0, <1>1, <1>2, BegunPass
<1>4. p = [b EXCEPT !.marks = TRUE, !.seen = source, !.symbols = AllTracked]
  BY DEF Marking
<1> HIDE DEF b
<1>5. p \in Passes
  BY <1>1, <1>3, <1>4, ZenonT(60) DEF Passes
<1>6. /\ p.at = "fetch" /\ p.scope = scope /\ p.began = date
      /\ p.todo = SetToSeq(AllTracked) /\ p.freqs = FreqsOf(scope)
      /\ p.next = FreqsOf(scope) /\ p.symbols = AllTracked /\ p.seen = source
      /\ p.failed = {}
  BY <1>3, <1>4 DEF Passes
<1> QED
  BY <1>3, <1>5, <1>6 DEF AtHand

LEMMA OneOrMore ==
    ASSUME NEW S, NEW q \in Seq(S), q # <<>>
    PROVE  /\ Len(q) > 1 => Tail(q) # <<>>
           /\ ~(Len(q) > 1) => \A x \in Range(q) : x = Head(q)
<1>1. Len(q) \in Nat /\ Len(q) >= 1 /\ DOMAIN q = 1..Len(q) /\ Head(q) = q[1]
  OBVIOUS
<1>2. Len(q) > 1 => Tail(q) # <<>>
  <2>1. Len(Tail(q)) = Len(q) - 1
    BY HeadTailProperties
  <2>2. Tail(q) = <<>> => Len(Tail(q)) = 0
    BY EmptySeq
  <2> QED
    BY <1>1, <2>1, <2>2
<1> QED
  BY <1>1, <1>2 DEF Range

(* The next fetch of a pass is done: all the others are still to do.       *)
LEMMA AdvancedPass ==
    ASSUME NEW p \in Passes, p.todo # <<>>, AtHand(p)
    PROVE  /\ Head(p.todo) \in Symbols /\ Head(p.next) \in Range(AllFreqs)
           /\ Advanced(p) \in Passes /\ AtHand(Advanced(p))
           /\ Advanced(p).at = p.at /\ Advanced(p).scope = p.scope
           /\ Advanced(p).marks = p.marks /\ Advanced(p).began = p.began
           /\ Advanced(p).seen = p.seen /\ Advanced(p).freqs = p.freqs
           /\ Advanced(p).changed = p.changed /\ Advanced(p).failed = p.failed
           /\ Advanced(p).symbols = p.symbols
           /\ \A s, f : ToFetch(p, s, f) =>
                 (s = Head(p.todo) /\ f = Head(p.next)) \/ ToFetch(Advanced(p), s, f)
<1> DEFINE short == [p EXCEPT !.next = Tail(p.next)]
           new == [p EXCEPT !.todo = Tail(p.todo), !.next = p.freqs]
<1>1. /\ p.todo \in Seq(Symbols) /\ p.freqs \in Seq(Range(AllFreqs))
      /\ p.next \in Seq(Range(AllFreqs)) /\ p.next # <<>> /\ p.freqs # <<>>
  BY DEF Passes, AtHand
<1>2. /\ Head(p.todo) \in Symbols /\ Tail(p.todo) \in Seq(Symbols)
      /\ Head(p.next) \in Range(AllFreqs) /\ Tail(p.next) \in Seq(Range(AllFreqs))
  BY <1>1, TailIsTyped
<1>3. /\ short \in Passes
      /\ short.at = p.at /\ short.scope = p.scope
      /\ short.marks = p.marks /\ short.began = p.began
      /\ short.seen = p.seen /\ short.freqs = p.freqs
      /\ short.changed = p.changed /\ short.failed = p.failed
      /\ short.symbols = p.symbols
      /\ short.todo = p.todo /\ short.next = Tail(p.next)
  BY <1>2, ZenonT(60) DEF Passes
<1>4. /\ new \in Passes
      /\ new.at = p.at /\ new.scope = p.scope
      /\ new.marks = p.marks /\ new.began = p.began
      /\ new.seen = p.seen /\ new.freqs = p.freqs
      /\ new.changed = p.changed /\ new.failed = p.failed
      /\ new.symbols = p.symbols
      /\ new.todo = Tail(p.todo) /\ new.next = p.freqs
  BY <1>1, <1>2, ZenonT(60) DEF Passes
<1>5. Advanced(p) = IF Len(p.next) > 1 THEN short ELSE new
  BY DEF Advanced
<1> HIDE DEF short, new
<1>6. CASE Len(p.next) > 1
  <2>1. Advanced(p) = short
    BY <1>5, <1>6
  <2>2. Tail(p.next) # <<>>
    BY <1>1, <1>6, OneOrMore
  <2>3. \A f \in Range(p.next) : f = Head(p.next) \/ f \in Range(Tail(p.next))
    BY <1>1, RangeOfTail
  <2>4. \A s, f : ToFetch(p, s, f) =>
            (s = Head(p.todo) /\ f = Head(p.next)) \/ ToFetch(short, s, f)
    BY <1>3, <2>3 DEF ToFetch
  <2> QED
    BY <1>1, <1>2, <1>3, <2>1, <2>2, <2>4 DEF AtHand
<1>7. CASE ~(Len(p.next) > 1)
  <2>1. Advanced(p) = new
    BY <1>5, <1>7
  <2>2. \A f \in Range(p.next) : f = Head(p.next)
    BY <1>1, <1>7, OneOrMore
  <2>3. \A s \in Range(Tail(p.todo)) :
            /\ Tail(p.todo) # <<>>
            /\ s = Head(Tail(p.todo)) \/ s \in Range(Tail(Tail(p.todo)))
    <3> SUFFICES ASSUME NEW s \in Range(Tail(p.todo))
                 PROVE  /\ Tail(p.todo) # <<>>
                        /\ s = Head(Tail(p.todo)) \/ s \in Range(Tail(Tail(p.todo)))
      OBVIOUS
    <3>1. Tail(p.todo) # <<>>
      BY DEF Range
    <3> QED
      BY <1>2, <3>1, RangeOfTail
  <2>4. \A s, f : ToFetch(p, s, f) =>
            (s = Head(p.todo) /\ f = Head(p.next)) \/ ToFetch(new, s, f)
    BY <1>4, <2>2, <2>3 DEF ToFetch
  <2> QED
    BY <1>1, <1>2, <1>4, <2>1, <2>4 DEF AtHand
<1> QED
  BY <1>6, <1>7

LEMMA SyncParts ==
    ASSUME SyncInv
    PROVE  /\ date \in 1..MaxDate /\ date \in Dates /\ date \in Nat
           /\ source \in [Range(AllFreqs) -> Dates]
           /\ lake \in [Symbols -> [Range(AllFreqs) -> Dates]]
           /\ structure \in [Symbols -> [Levels -> Dates]]
           /\ pass \in [Callers -> Passes] /\ \A c \in Callers : pass[c] \in Passes
           /\ lastDaily \in Dates /\ lastFull \in Dates
           /\ watchlist \subseteq Symbols /\ AllTracked \subseteq Symbols
           /\ events \in 0..MaxEvents
<1>1. date \in 1..MaxDate /\ watchlist \subseteq Symbols
  BY DEF SyncInv, SyncTypeOK
<1>2. date \in Dates /\ date \in Nat
  BY <1>1, SyncBounds DEF Dates
<1>3. AllTracked \subseteq Symbols
  BY <1>1, SyncAssumption DEF AllTracked
<1> QED
  BY <1>1, <1>2, <1>3 DEF SyncInv, SyncTypeOK

(* The step of one pass: what it leaves is of its type.                    *)
LEMMA OnePass ==
    ASSUME SyncInv, NEW c \in Callers, NEW p \in Passes, AtHand(p), Goes(c, p), SameClock,
           lake' \in [Symbols -> [Range(AllFreqs) -> Dates]], watchlist' \subseteq Symbols,
           structure' \in [Symbols -> [Levels -> Dates]],
           lastDaily' \in Dates, lastFull' \in Dates, events' \in 0..MaxEvents
    PROVE  /\ SyncInv' /\ pass'[c] = p
           /\ \A d \in Callers \ {c} : pass'[d] = pass[d]
<1>1. /\ pass' \in [Callers -> Passes] /\ pass'[c] = p
      /\ \A d \in Callers \ {c} : pass'[d] = pass[d]
  BY SyncParts DEF Goes
<1>2. \A d \in Callers : AtHand(pass'[d])
  BY <1>1 DEF SyncInv
<1>3. UNCHANGED <<date, hour, source, tdx>>
  BY DEF SameClock
<1>4. SyncTypeOK'
  BY <1>1, <1>3 DEF SyncInv, SyncTypeOK
<1>5. \A f \in Range(AllFreqs) : source'[f] <= date'
  BY <1>3 DEF SyncInv
<1> QED
  BY <1>1, <1>2, <1>4, <1>5 DEF SyncInv

LEMMA EventInBounds ==
    ASSUME SyncInv, Event
    PROVE  events' \in 0..MaxEvents
BY SyncParts, SyncBounds DEF Event

LEMMA CallersThere ==
    /\ "worker" \in Callers /\ "page" \in Callers /\ Symbols \subseteq Callers
    /\ "worker" \notin Symbols /\ "page" \notin Symbols
BY SyncAssumption DEF Callers

LEMMA StartWorkerSync ==
    ASSUME SyncInv, StartWorker
    PROVE  SyncInv' /\ \/ pass'["worker"] = NoPass
                       \/ pass'["worker"] = Begun("daily", AllTracked, FreqsOf("daily"))
                       \/ \E scope \in Scopes : pass'["worker"] = Marking(scope)
<1> DEFINE daily == Begun("daily", AllTracked, FreqsOf("daily"))
<1>1. "daily" \in Scopes \cup {NoScope} /\ FreqsOf("daily") = <<"day">>
  BY DEF Scopes, FreqsOf
<1>2. <<"day">> \in Seq(Range(AllFreqs)) /\ <<"day">> # <<>>
  BY SyncAssumption
<1>3. daily \in Passes /\ AtHand(daily)
  <2> DEFINE scope == "daily"
             freqs == FreqsOf("daily")
  <2>1. /\ scope \in Scopes \cup {NoScope} /\ AllTracked \in SUBSET Symbols
        /\ freqs \in Seq(Range(AllFreqs)) /\ freqs # <<>>
    BY <1>1, <1>2, SyncParts
  <2>2. daily = Begun(scope, AllTracked, freqs)
    OBVIOUS
  <2> HIDE DEF scope, freqs, daily
  <2> QED
    BY <2>1, <2>2, BegunPass
<1>4. ScheduledScope # NoScope => ScheduledScope \in Scopes
  BY SyncParts DEF ScheduledScope, Scopes, NoScope, Hours, SyncInv, SyncTypeOK
<1>5. \/ Goes("worker", NoPass) \/ Goes("worker", daily)
      \/ \E scope \in Scopes : Goes("worker", Marking(scope))
  BY <1>4 DEF StartWorker
<1>6. SameClock /\ UNCHANGED <<lake, watchlist, structure, events, lastDaily, lastFull>>
  BY DEF StartWorker, SameMarks
<1>7. \A p \in Passes : Goes("worker", p) /\ AtHand(p) => SyncInv' /\ pass'["worker"] = p
  BY <1>6, SyncParts, CallersThere, OnePass
<1> HIDE DEF daily
<1>8. CASE Goes("worker", NoPass)
  BY <1>7, <1>8, BlankPass
<1>9. CASE Goes("worker", daily)
  BY <1>3, <1>7, <1>9 DEF daily
<1>10. CASE \E scope \in Scopes : Goes("worker", Marking(scope))
  BY <1>7, <1>10, MarkingPass
<1> QED
  BY <1>5, <1>8, <1>9, <1>10

LEMMA WorkerBeginsSync ==
    ASSUME SyncInv, WorkerBegins
    PROVE  SyncInv' /\ \E scope \in Scopes : pass'["worker"] = Marking(scope)
<1>1. ScheduledScope \in Scopes
  BY SyncParts DEF WorkerBegins, ScheduledScope, Scopes, NoScope, Hours, SyncInv, SyncTypeOK
<1>2. Marking(ScheduledScope) \in Passes /\ AtHand(Marking(ScheduledScope))
  BY <1>1, MarkingPass
<1>3. /\ Goes("worker", Marking(ScheduledScope)) /\ SameClock
      /\ UNCHANGED <<lake, watchlist, structure, events, lastDaily, lastFull>>
  BY DEF WorkerBegins, SameMarks
<1>4. SyncInv' /\ pass'["worker"] = Marking(ScheduledScope)
  BY <1>2, <1>3, SyncParts, CallersThere, OnePass
<1> QED
  BY <1>1, <1>4

LEMMA PageForcesSync ==
    ASSUME SyncInv, PageForces
    PROVE  SyncInv' /\ pass'["worker"] = pass["worker"]
<1> DEFINE p == Begun(NoScope, AllTracked, AllFreqs)
<1>1. NoScope \in Scopes \cup {NoScope}
  OBVIOUS
<1>2. p \in Passes /\ AtHand(p)
  BY <1>1, SyncParts, SyncBounds, BegunPass
<1>3. /\ Goes("page", p) /\ SameClock /\ events' \in 0..MaxEvents
      /\ UNCHANGED <<lake, watchlist, structure, lastDaily, lastFull>>
  BY EventInBounds DEF PageForces, SameMarks
<1> HIDE DEF p
<1> QED
  BY <1>2, <1>3, SyncParts, CallersThere, OnePass

LEMMA AddSymbolSync ==
    ASSUME SyncInv, NEW s \in Symbols, AddSymbol(s)
    PROVE  SyncInv' /\ pass'["worker"] = pass["worker"]
<1> DEFINE b == Begun(NoScope, {s}, AllFreqs)
           p == [b EXCEPT !.began = 0]
<1>1. NoScope \in Scopes \cup {NoScope} /\ {s} \in SUBSET Symbols
  OBVIOUS
<1>2. b \in Passes /\ AtHand(b)
  BY <1>1, SyncBounds, BegunPass
<1>3. /\ Goes(s, p) /\ SameClock /\ watchlist' = watchlist \cup {s}
      /\ UNCHANGED <<lake, structure, events, lastDaily, lastFull>>
  BY DEF AddSymbol, SameMarks
<1> HIDE DEF b
<1>4. p \in Passes
  BY <1>2, SyncBounds, ZenonT(60) DEF Passes
<1>5. AtHand(p)
  BY <1>2 DEF Passes, AtHand
<1> HIDE DEF p
<1>6. watchlist' \subseteq Symbols
  BY <1>3, SyncParts
<1> QED
  BY <1>3, <1>4, <1>5, <1>6, SyncParts, CallersThere, OnePass

(* One frequency of one symbol is fetched, or is not.                      *)
LEMMA FetchOneSync ==
    ASSUME SyncInv, NEW c \in Callers, FetchOne(c)
    PROVE  LET p == pass[c]
               q == pass'[c]
               s == Head(p.todo)
               f == Head(p.next)
               skipped == UpToDate(c, <<s, f>>) \/ lake[s][f] >= source[f] IN
           /\ SyncInv' /\ \A d \in Callers \ {c} : pass'[d] = pass[d]
           /\ p.todo # <<>> /\ p.at = "fetch" /\ s \in Symbols /\ f \in Range(AllFreqs)
           /\ q.at = p.at /\ q.scope = p.scope /\ q.began = p.began /\ q.marks = p.marks
           /\ q.seen = p.seen /\ q.freqs = p.freqs /\ q.symbols = p.symbols
           /\ q.todo = Advanced(p).todo /\ q.next = Advanced(p).next
           /\ p.failed \subseteq q.failed
           /\ \A x \in Symbols, g \in Range(AllFreqs) : lake'[x][g] >= lake[x][g]
           /\ skipped \/ lake'[s][f] = source[f] \/ (p.marks => <<s, f>> \in q.failed)
<1> DEFINE p == pass[c]
           s == Head(p.todo)
           f == Head(p.next)
           rest == Advanced(p)
           fetched == [rest EXCEPT !.changed = @ \cup {<<s, f>>}]
           missed == [rest EXCEPT !.failed = @ \cup {<<s, f>>}]
<1>1. /\ p \in Passes /\ AtHand(p) /\ p.todo # <<>> /\ p.at = "fetch" /\ SameClock
      /\ UNCHANGED <<watchlist, structure, lastDaily, lastFull>>
  BY SyncParts DEF FetchOne, At, SameMarks, SyncInv
<1>2. \/ /\ UpToDate(c, <<s, f>>) \/ lake[s][f] >= source[f]
         /\ Goes(c, rest) /\ UNCHANGED <<lake, events>>
      \/ /\ lake[s][f] < source[f]
         /\ lake' = [lake EXCEPT ![s][f] = source[f]]
         /\ Goes(c, fetched) /\ UNCHANGED events
      \/ /\ IF tdx THEN UNCHANGED events ELSE Event
         /\ Goes(c, IF p.marks THEN missed ELSE rest) /\ UNCHANGED lake
  BY DEF FetchOne
<1> HIDE DEF p
<1>3. /\ s \in Symbols /\ f \in Range(AllFreqs) /\ rest \in Passes /\ AtHand(rest)
      /\ rest.at = p.at /\ rest.scope = p.scope /\ rest.began = p.began /\ rest.marks = p.marks
      /\ rest.seen = p.seen /\ rest.freqs = p.freqs /\ rest.symbols = p.symbols
      /\ rest.failed = p.failed
  BY <1>1, AdvancedPass
<1> HIDE DEF s, f, rest
<1>4. <<s, f>> \in Pairs
  BY <1>3 DEF Pairs
<1>5. /\ fetched \in Passes /\ fetched.at = rest.at /\ fetched.scope = rest.scope
      /\ fetched.began = rest.began /\ fetched.marks = rest.marks /\ fetched.seen = rest.seen
      /\ fetched.freqs = rest.freqs /\ fetched.symbols = rest.symbols /\ fetched.todo = rest.todo
      /\ fetched.next = rest.next /\ fetched.failed = rest.failed
  BY <1>3, <1>4, ZenonT(60) DEF Passes
<1>6. /\ missed \in Passes /\ missed.at = rest.at /\ missed.scope = rest.scope
      /\ missed.began = rest.began /\ missed.marks = rest.marks /\ missed.seen = rest.seen
      /\ missed.freqs = rest.freqs /\ missed.symbols = rest.symbols /\ missed.todo = rest.todo
      /\ missed.next = rest.next /\ missed.failed = rest.failed \cup {<<s, f>>}
  BY <1>3, <1>4, ZenonT(60) DEF Passes
<1>7. AtHand(fetched) /\ AtHand(missed)
  BY <1>3, <1>5, <1>6 DEF AtHand
<1> HIDE DEF fetched, missed
<1>8. /\ lake' \in [Symbols -> [Range(AllFreqs) -> Dates]]
      /\ \A x \in Symbols, g \in Range(AllFreqs) : lake'[x][g] >= lake[x][g]
      /\ lake' = lake \/ (lake'[s][f] = source[f] /\ Goes(c, fetched))
  <2>1. /\ lake \in [Symbols -> [Range(AllFreqs) -> Dates]]
        /\ source \in [Range(AllFreqs) -> Dates]
        /\ \A x \in Symbols, g \in Range(AllFreqs) : lake[x][g] \in Nat
    BY SyncParts, SyncBounds
  <2>2. CASE lake' = lake
    BY <2>1, <2>2
  <2>3. CASE /\ lake[s][f] < source[f]
             /\ lake' = [lake EXCEPT ![s][f] = source[f]]
             /\ Goes(c, fetched)
    <3>1. /\ lake' \in [Symbols -> [Range(AllFreqs) -> Dates]]
          /\ lake'[s][f] = source[f]
          /\ \A x \in Symbols, g \in Range(AllFreqs) :
                lake'[x][g] = IF x = s /\ g = f THEN source[f] ELSE lake[x][g]
      BY <1>3, <2>1, <2>3
    <3>2. source[f] \in Nat
      BY <1>3, <2>1, SyncBounds
    <3> QED
      BY <2>1, <2>3, <3>1, <3>2
  <2> QED
    BY <1>2, <2>2, <2>3
<1>9. events' \in 0..MaxEvents
  BY <1>2, SyncParts, EventInBounds
<1>10. \A q \in Passes : AtHand(q) /\ Goes(c, q) =>
          /\ SyncInv' /\ pass'[c] = q /\ \A d \in Callers \ {c} : pass'[d] = pass[d]
  BY <1>1, <1>8, <1>9, SyncParts, OnePass
<1>11. \/ Goes(c, rest) /\ (UpToDate(c, <<s, f>>) \/ lake[s][f] >= source[f])
       \/ Goes(c, fetched) /\ lake'[s][f] = source[f]
       \/ Goes(c, missed)
       \/ Goes(c, rest) /\ ~p.marks
  BY <1>2, <1>8, <1>3, SyncParts
<1>12. CASE Goes(c, rest) /\ (UpToDate(c, <<s, f>>) \/ lake[s][f] >= source[f])
  BY <1>1, <1>3, <1>8, <1>10, <1>12 DEF p, s, f, rest
<1>13. CASE Goes(c, fetched) /\ lake'[s][f] = source[f]
  BY <1>1, <1>3, <1>5, <1>7, <1>8, <1>10, <1>13 DEF p, s, f, rest
<1>14. CASE Goes(c, missed)
  BY <1>1, <1>3, <1>6, <1>7, <1>8, <1>10, <1>14 DEF p, s, f, rest
<1>15. CASE Goes(c, rest) /\ ~p.marks
  BY <1>1, <1>3, <1>8, <1>10, <1>15 DEF p, s, f, rest
<1> QED
  BY <1>11, <1>12, <1>13, <1>14, <1>15

LEMMA AskedTyped ==
    ASSUME SyncInv, NEW pairs, Asked(pairs)
    PROVE  structure' \in [Symbols -> [Levels -> Dates]]
<1>1. \A s \in Symbols, l \in Levels : lake[s][l] \in Dates /\ structure[s][l] \in Dates
  BY SyncParts, SyncAssumption
<1> QED
  BY <1>1 DEF Asked

(* A pass that ends, whatever it has done.                                 *)
LEMMA EndsSync ==
    ASSUME SyncInv, NEW c \in Callers, Goes(c, Ended(c)), SameClock,
           UNCHANGED <<lake, watchlist, structure>>,
           lastDaily' \in Dates, lastFull' \in Dates, events' \in 0..MaxEvents
    PROVE  /\ SyncInv' /\ pass'[c].at = "idle"
           /\ \A d \in Callers \ {c} : pass'[d] = pass[d]
<1>1. Ended(c) \in Passes /\ Ended(c).at = "idle" /\ AtHand(Ended(c))
  BY BlankPass DEF AtHand
<1> QED
  BY <1>1, SyncParts, OnePass

(* A pass that goes on to its next part.                                   *)
LEMMA GoesOnSync ==
    ASSUME SyncInv, NEW c \in Callers, NEW step \in {"prewarm", "mark"},
           Goes(c, [pass[c] EXCEPT !.at = step]), SameClock, SameMarks,
           NEW pairs, Asked(pairs), UNCHANGED <<lake, watchlist, events>>
    PROVE  /\ SyncInv' /\ pass'[c] = [pass[c] EXCEPT !.at = step]
           /\ \A d \in Callers \ {c} : pass'[d] = pass[d]
<1> DEFINE p == [pass[c] EXCEPT !.at = step]
<1>1. pass[c] \in Passes /\ AtHand(pass[c])
  BY SyncParts DEF SyncInv
<1>2. p \in Passes
  BY <1>1, ZenonT(60) DEF Passes
<1>3. AtHand(p)
  BY <1>1 DEF AtHand, Passes
<1>4. /\ structure' \in [Symbols -> [Levels -> Dates]] /\ lastDaily' \in Dates
      /\ lastFull' \in Dates
  BY AskedTyped, SyncParts DEF SameMarks
<1>5. Goes(c, p)
  OBVIOUS
<1> HIDE DEF p
<1>6. /\ SyncInv' /\ pass'[c] = p
      /\ \A d \in Callers \ {c} : pass'[d] = pass[d]
  BY <1>2, <1>3, <1>4, <1>5, SyncParts, OnePass
<1> QED
  BY <1>6 DEF p

(* What the steps of a pass after its fetches do.                          *)
LEMMA LaterSync ==
    ASSUME SyncInv, NEW c \in Callers,
           TdxRaises(c) \/ EnqueueChanges(c) \/ Prewarm(c) \/ Mark(c) \/ PassRaises(c)
    PROVE  /\ SyncInv' /\ UNCHANGED <<date, source, lake>>
           /\ \A d \in Callers \ {c} : pass'[d] = pass[d]
           /\ \/ pass'[c].at = "idle"
              \/ /\ At(c, "prewarm") \/ pass[c].todo = <<>>
                 /\ \E step \in {"prewarm", "mark"} : pass'[c] = [pass[c] EXCEPT !.at = step]
<1>1. CASE TdxRaises(c)
  BY <1>1, EndsSync, SyncParts DEF TdxRaises, SameMarks, SameClock
<1>2. CASE EnqueueChanges(c)
  BY <1>2, GoesOnSync DEF EnqueueChanges, Fetched, SameClock
<1>3. CASE Prewarm(c)
  BY <1>3, GoesOnSync DEF Prewarm, SameClock
<1>4. CASE Mark(c)
  <2>1. lastDaily' \in Dates /\ lastFull' \in Dates
    BY <1>4, SyncParts DEF Mark, SameMarks
  <2> QED
    BY <1>4, <2>1, EndsSync, SyncParts DEF Mark, SameClock
<1>5. CASE PassRaises(c)
  BY <1>5, EndsSync, SyncParts, EventInBounds DEF PassRaises, SameMarks, SameClock
<1> QED
  BY <1>1, <1>2, <1>3, <1>4, <1>5

LEMMA StopProcessSync ==
    ASSUME SyncInv, StopProcess
    PROVE  SyncInv' /\ pass'["worker"].at = "down"
<1>1. /\ pass' = [c \in Callers |-> IF c = "worker" THEN DownPass ELSE NoPass]
      /\ lastDaily' = 0 /\ lastFull' = 0 /\ events' \in 0..MaxEvents
      /\ UNCHANGED <<date, hour, source, tdx, lake, watchlist, structure>>
  BY EventInBounds DEF StopProcess, SameClock
<1>2. /\ pass' \in [Callers -> Passes] /\ pass'["worker"].at = "down"
      /\ \A c \in Callers : AtHand(pass'[c])
  BY <1>1, BlankPass, CallersThere
<1> QED
  BY <1>1, <1>2, SyncBounds DEF SyncInv, SyncTypeOK

LEMMA ClockSync ==
    ASSUME SyncInv, Clock
    PROVE  /\ SyncInv' /\ UNCHANGED <<source, lake, pass>>
           /\ date' = date \/ (~Overnight => ~Busy)
<1>1. /\ UNCHANGED <<source, tdx, lake, watchlist, structure, pass, events, lastDaily, lastFull>>
      /\ TimePasses
  BY DEF Clock, SameMarks
<1>2. /\ hour' \in Hours /\ date' \in 1..MaxDate /\ date' >= date
      /\ date' = date \/ (~Overnight => ~Busy)
  <2>1. date \in 1..MaxDate
    BY SyncParts
  <2> QED
    BY <1>1, <2>1, SyncBounds DEF TimePasses, Hours
<1>3. SyncTypeOK'
  BY <1>1, <1>2 DEF SyncInv, SyncTypeOK
<1>4. ASSUME NEW f \in Range(AllFreqs) PROVE source'[f] <= date'
  <2>1. source[f] \in Nat /\ source[f] <= date /\ date \in Nat /\ date' \in Nat
    BY <1>2, SyncParts, SyncBounds DEF SyncInv
  <2> QED
    BY <1>1, <1>2, <2>1
<1> QED
  BY <1>1, <1>2, <1>3, <1>4 DEF SyncInv

LEMMA PublishSync ==
    ASSUME SyncInv, NEW f \in Range(AllFreqs), Publish(f)
    PROVE  /\ SyncInv' /\ UNCHANGED <<date, lake, pass>>
           /\ \A g \in Range(AllFreqs) : source'[g] >= source[g]
<1>1. /\ source[f] < date /\ source' = [source EXCEPT ![f] = date]
      /\ UNCHANGED <<date, hour, tdx, lake, watchlist, structure, pass, events, lastDaily,
                     lastFull>>
  BY DEF Publish, SameMarks
<1>2. /\ date \in Dates /\ date \in Nat /\ source \in [Range(AllFreqs) -> Dates]
      /\ \A g \in Range(AllFreqs) : source[g] \in Nat
  BY SyncParts, SyncBounds
<1>3. /\ source' \in [Range(AllFreqs) -> Dates]
      /\ \A g \in Range(AllFreqs) : source'[g] = IF g = f THEN date ELSE source[g]
  BY <1>1, <1>2
<1>4. SyncTypeOK'
  BY <1>1, <1>3 DEF SyncInv, SyncTypeOK
<1>5. \A g \in Range(AllFreqs) : source'[g] >= source[g] /\ source'[g] <= date'
  BY <1>1, <1>2, <1>3 DEF SyncInv
<1> QED
  BY <1>1, <1>4, <1>5 DEF SyncInv

LEMMA InitSync ==
    ASSUME SyncInit
    PROVE  SyncInv /\ pass["worker"].at = "down"
<1>1. /\ pass \in [Callers -> Passes] /\ pass["worker"].at = "down"
      /\ \A c \in Callers : AtHand(pass[c])
  BY BlankPass, CallersThere DEF SyncInit
<1>2. date \in 1..MaxDate /\ \A f \in Range(AllFreqs) : source[f] <= date
  BY SyncBounds DEF SyncInit, Nothing
<1>3. SyncTypeOK
  BY <1>1, <1>2, BlankPass, SyncBounds, SyncAssumption DEF SyncInit, SyncTypeOK, Hours
<1> QED
  BY <1>1, <1>2, <1>3 DEF SyncInv

LEMMA StepSync ==
    ASSUME SyncInv, [SyncNext]_syncVars
    PROVE  SyncInv'
<1>1. CASE UNCHANGED syncVars
  BY <1>1 DEF syncVars, SyncInv, SyncTypeOK
<1>2. CASE SyncNext
  <2>1. CASE \E c \in Callers : PassStep(c) \/ PassRaises(c)
    BY <2>1, FetchOneSync, LaterSync DEF PassStep
  <2> QED
    BY <1>2, <2>1, StartWorkerSync, WorkerBeginsSync, PageForcesSync, AddSymbolSync,
       StopProcessSync, ClockSync, PublishSync
    DEF SyncNext
<1> QED
  BY <1>1, <1>2

(* The passes, the lake and the marks of the worker are of their types,    *)
(* and no pass loses the symbol and frequency it is to fetch next          *)
(* (kline_sync_worker.py).                                                 *)
THEOREM SyncTypeCorrect == SyncSpec => []SyncTypeOK
<1>1. SyncInv => SyncTypeOK
  BY DEF SyncInv
<1> QED
  BY <1>1, InitSync, StepSync, PTL DEF SyncSpec

-----------------------------------------------------------------------------
(* KlineSync: the day that is marked.                                      *)

(* A pass of the worker that marks its window full is of this day, and has *)
(* of every symbol and frequency what could be fetched when it began, or   *)
(* is still to fetch it, or has failed to.                                 *)
WorkerInv ==
    LET p == pass["worker"] IN
    Busy =>
        /\ p.began = date
        /\ p.marks =>
              /\ \A f \in Range(AllFreqs) : p.seen[f] <= source[f]
              /\ p.scope = "full" => p.freqs = AllFreqs
              /\ p.scope = "full" => \A s \in p.symbols, f \in Range(AllFreqs) :
                    \/ p.at = "fetch" /\ ToFetch(p, s, f)
                    \/ <<s, f>> \in p.failed
                    \/ lake[s][f] >= p.seen[f]

(* The worker's pass is left alone, and nothing is taken from the lake.    *)
LEMMA WorkerApart ==
    ASSUME SyncInv, WorkerInv, pass'["worker"] = pass["worker"], date' = date \/ ~Busy,
           \A g \in Range(AllFreqs) : source[g] \in Nat /\ source'[g] \in Nat,
           \A g \in Range(AllFreqs) : source'[g] >= source[g],
           \A x \in Symbols, g \in Range(AllFreqs) :
              lake[x][g] \in Nat /\ lake'[x][g] \in Nat /\ lake'[x][g] >= lake[x][g]
    PROVE  WorkerInv'
<1> DEFINE p == pass["worker"]
<1>1. p \in Passes
  BY SyncParts, CallersThere
<1>2. /\ p.symbols \subseteq Symbols
      /\ \A g \in Range(AllFreqs) : p.seen[g] \in Nat
  BY <1>1, SyncBounds DEF Passes
<1>3. Busy' = Busy
  BY DEF Busy
<1>4. \A g \in Range(AllFreqs) : p.seen[g] <= source[g] => p.seen[g] <= source'[g]
  BY <1>2
<1>5. \A x \in Symbols, g \in Range(AllFreqs) :
          lake[x][g] >= p.seen[g] => lake'[x][g] >= p.seen[g]
  BY <1>2
<1> QED
  BY <1>2, <1>3, <1>4, <1>5 DEF WorkerInv

LEMMA NumbersThere ==
    ASSUME SyncInv
    PROVE  /\ \A g \in Range(AllFreqs) : source[g] \in Nat
           /\ \A x \in Symbols, g \in Range(AllFreqs) : lake[x][g] \in Nat
BY SyncParts, SyncBounds

(* The worker begins a window.                                             *)
LEMMA MarkingCovers ==
    ASSUME SyncInv, SyncInv', NEW scope \in Scopes, pass'["worker"] = Marking(scope),
           date' = date, source' = source
    PROVE  WorkerInv'
<1> DEFINE q == pass'["worker"]
           order == SetToSeq(AllTracked)
<1>1. /\ q \in Passes /\ q.at = "fetch" /\ q.scope = scope /\ q.began = date
      /\ q.todo = order /\ q.freqs = FreqsOf(scope)
      /\ q.next = FreqsOf(scope) /\ q.symbols = AllTracked /\ q.seen = source
  BY MarkingPass
<1>2. order \in Seq(Symbols) /\ Range(order) = AllTracked
  BY SyncParts, InSomeOrder
<1> HIDE DEF order
<1>3. \A s \in AllTracked : order # <<>> /\ (s = Head(order) \/ s \in Range(Tail(order)))
  <2> SUFFICES ASSUME NEW s \in AllTracked
               PROVE  order # <<>> /\ (s = Head(order) \/ s \in Range(Tail(order)))
    OBVIOUS
  <2>1. order # <<>>
    BY <1>2 DEF Range
  <2> QED
    BY <1>2, <2>1, RangeOfTail
<1>4. scope = "full" => FreqsOf(scope) = AllFreqs
  BY DEF FreqsOf
<1>5. \A g \in Range(AllFreqs) : source[g] \in Nat /\ q.seen[g] <= source'[g]
  BY <1>1, NumbersThere
<1>6. ASSUME scope = "full", NEW s \in q.symbols, NEW f \in Range(AllFreqs)
      PROVE  ToFetch(q, s, f)
  BY <1>1, <1>3, <1>4, <1>6 DEF ToFetch
<1> QED
  BY <1>1, <1>4, <1>5, <1>6 DEF WorkerInv

LEMMA DailyCovers ==
    ASSUME SyncInv, pass'["worker"] = Begun("daily", AllTracked, FreqsOf("daily")), date' = date
    PROVE  WorkerInv'
<1>1. ~pass'["worker"].marks /\ pass'["worker"].began = date
  BY DEF Begun, NoPass
<1> QED
  BY <1>1 DEF WorkerInv

(* A pass of the worker fetches one frequency of one symbol, or skips it:  *)
(* the lake has it of this day, and no source is ahead of the day.         *)
LEMMA FetchCovers ==
    ASSUME SyncInv, WorkerInv, FetchOne("worker")
    PROVE  WorkerInv'
<1> DEFINE p == pass["worker"]
           q == pass'["worker"]
           s == Head(p.todo)
           f == Head(p.next)
<1>1. /\ SyncInv' /\ p.todo # <<>> /\ p.at = "fetch" /\ s \in Symbols /\ f \in Range(AllFreqs)
      /\ q.at = p.at /\ q.scope = p.scope /\ q.began = p.began /\ q.marks = p.marks
      /\ q.seen = p.seen /\ q.freqs = p.freqs /\ q.symbols = p.symbols
      /\ q.todo = Advanced(p).todo /\ q.next = Advanced(p).next
      /\ p.failed \subseteq q.failed
      /\ \A x \in Symbols, g \in Range(AllFreqs) : lake'[x][g] >= lake[x][g]
      /\ UpToDate("worker", <<s, f>>) \/ lake[s][f] >= source[f] \/ lake'[s][f] = source[f]
            \/ (p.marks => <<s, f>> \in q.failed)
  BY CallersThere, FetchOneSync
<1>2. UNCHANGED <<date, source>>
  BY DEF FetchOne, SameClock
<1>3. Busy /\ Busy'
  BY <1>1 DEF Busy
<1>4. /\ p \in Passes /\ AtHand(p) /\ p.symbols \subseteq Symbols
      /\ \A g \in Range(AllFreqs) : p.seen[g] \in Nat
  <2>1. p \in Passes /\ AtHand(p)
    BY SyncParts, CallersThere DEF SyncInv
  <2> QED
    BY <2>1, SyncBounds DEF Passes
<1>5. /\ \A g \in Range(AllFreqs) : source[g] \in Nat /\ source[g] <= date
      /\ \A x \in Symbols, g \in Range(AllFreqs) : lake[x][g] \in Nat /\ lake'[x][g] \in Nat
      /\ date \in Nat
  <2>1. \A x \in Symbols, g \in Range(AllFreqs) : lake'[x][g] \in Nat
    BY <1>1, SyncBounds DEF SyncInv, SyncTypeOK
  <2> QED
    BY <2>1, NumbersThere, SyncParts DEF SyncInv
<1>6. \A x, g : ToFetch(p, x, g) => (x = s /\ g = f) \/ ToFetch(q, x, g)
  <2>1. \A x, g : ToFetch(p, x, g) => (x = s /\ g = f) \/ ToFetch(Advanced(p), x, g)
    BY <1>1, <1>4, AdvancedPass
  <2>2. Advanced(p).freqs = p.freqs
    BY <1>1, <1>4, AdvancedPass
  <2> QED
    BY <1>1, <2>1, <2>2 DEF ToFetch
<1>7. ASSUME p.marks, p.scope = "full"
      PROVE  lake'[s][f] >= p.seen[f] \/ <<s, f>> \in q.failed
  <2>1. p.began = date /\ p.seen[f] <= source[f]
    BY <1>1, <1>3, <1>7 DEF WorkerInv
  <2>2. UpToDate("worker", <<s, f>>) => lake[s][f] >= date
    BY <2>1 DEF UpToDate
  <2>3. /\ lake[s][f] \in Nat /\ lake'[s][f] \in Nat /\ source[f] \in Nat /\ date \in Nat
        /\ p.seen[f] \in Nat /\ lake'[s][f] >= lake[s][f] /\ source[f] <= date
    BY <1>1, <1>4, <1>5
  <2> QED
    BY <1>1, <1>7, <2>1, <2>2, <2>3
<1>8. p.began = date /\ q.began = date'
  BY <1>1, <1>2, <1>3 DEF WorkerInv
<1>9. ASSUME p.marks, p.scope = "full", NEW x \in p.symbols, NEW g \in Range(AllFreqs)
      PROVE  ToFetch(q, x, g) \/ <<x, g>> \in q.failed \/ lake'[x][g] >= p.seen[g]
  <2>1. ToFetch(p, x, g) \/ <<x, g>> \in p.failed \/ lake[x][g] >= p.seen[g]
    BY <1>3, <1>9 DEF WorkerInv
  <2>2. /\ lake[x][g] \in Nat /\ lake'[x][g] \in Nat /\ p.seen[g] \in Nat
        /\ lake'[x][g] >= lake[x][g]
    BY <1>1, <1>4, <1>5
  <2> QED
    BY <1>1, <1>6, <1>7, <1>9, <2>1, <2>2
<1>10. p.marks => \A g \in Range(AllFreqs) : q.seen[g] <= source'[g]
  BY <1>1, <1>2, <1>3 DEF WorkerInv
<1>11. p.marks /\ p.scope = "full" => q.freqs = AllFreqs
  BY <1>1, <1>3 DEF WorkerInv
<1> HIDE DEF s, f
<1> QED
  BY <1>1, <1>8, <1>9, <1>10, <1>11 DEF WorkerInv

(* A pass of the worker that has fetched goes on, ends, or is stopped.     *)
LEMMA LaterCovers ==
    ASSUME SyncInv, WorkerInv, UNCHANGED <<date, source, lake>>,
           At("worker", "prewarm") \/ pass["worker"].todo = <<>>, Busy,
           NEW step \in {"prewarm", "mark"},
           pass'["worker"] = [pass["worker"] EXCEPT !.at = step]
    PROVE  WorkerInv'
<1> DEFINE p == pass["worker"]
           q == pass'["worker"]
<1>1. p \in Passes
  BY SyncParts, CallersThere
<1>2. /\ q.at = step /\ q.scope = p.scope /\ q.began = p.began /\ q.marks = p.marks
      /\ q.seen = p.seen /\ q.freqs = p.freqs /\ q.symbols = p.symbols
      /\ q.failed = p.failed
  BY <1>1 DEF Passes
<1>3. \A s, f : ~(p.at = "fetch" /\ ToFetch(p, s, f))
  BY DEF At, ToFetch
<1> QED
  BY <1>2, <1>3 DEF WorkerInv

LEMMA StepWorker ==
    ASSUME ~Overnight, SyncInv, WorkerInv, [SyncNext]_syncVars
    PROVE  WorkerInv'
<1>1. SyncInv' /\ "worker" \in Callers
  BY StepSync, CallersThere
<1>2. /\ \A g \in Range(AllFreqs) : source[g] \in Nat /\ source'[g] \in Nat
      /\ \A x \in Symbols, g \in Range(AllFreqs) : lake[x][g] \in Nat /\ lake'[x][g] \in Nat
  <2>1. \A g \in Range(AllFreqs) : source'[g] \in Nat
    BY <1>1, SyncBounds DEF SyncInv, SyncTypeOK
  <2>2. \A x \in Symbols, g \in Range(AllFreqs) : lake'[x][g] \in Nat
    BY <1>1, SyncBounds DEF SyncInv, SyncTypeOK
  <2> QED
    BY <2>1, <2>2, NumbersThere
<1>3. ASSUME pass'["worker"] = pass["worker"], date' = date \/ ~Busy,
             \A g \in Range(AllFreqs) : source'[g] >= source[g],
             \A x \in Symbols, g \in Range(AllFreqs) : lake'[x][g] >= lake[x][g]
      PROVE  WorkerInv'
  BY <1>2, <1>3, WorkerApart
<1>4. /\ source' = source => \A g \in Range(AllFreqs) : source'[g] >= source[g]
      /\ lake' = lake => \A x \in Symbols, g \in Range(AllFreqs) : lake'[x][g] >= lake[x][g]
  BY <1>2
<1>5. CASE UNCHANGED syncVars
  BY <1>3, <1>4, <1>5 DEF syncVars
<1>6. CASE StartWorker \/ WorkerBegins
  <2>1. UNCHANGED <<date, source>>
    BY <1>6 DEF StartWorker, WorkerBegins, SameClock
  <2>2. CASE \E scope \in Scopes : pass'["worker"] = Marking(scope)
    BY <1>1, <2>1, <2>2, MarkingCovers
  <2>3. CASE pass'["worker"] = NoPass
    BY <2>3, BlankPass DEF WorkerInv, Busy
  <2>4. CASE pass'["worker"] = Begun("daily", AllTracked, FreqsOf("daily"))
    BY <2>1, <2>4, DailyCovers
  <2> QED
    BY <1>6, <2>2, <2>3, <2>4, StartWorkerSync, WorkerBeginsSync
<1>7. CASE PageForces \/ \E s \in Symbols : AddSymbol(s)
  <2>1. UNCHANGED <<date, source, lake>>
    BY <1>7 DEF PageForces, AddSymbol, SameClock
  <2>2. pass'["worker"] = pass["worker"]
    BY <1>7, PageForcesSync, AddSymbolSync
  <2> QED
    BY <1>3, <1>4, <2>1, <2>2
<1>8. ASSUME NEW c \in Callers, FetchOne(c) PROVE WorkerInv'
  <2>1. CASE c = "worker"
    BY <1>8, <2>1, FetchCovers
  <2>2. CASE c # "worker"
    <3>1. /\ \A d \in Callers \ {c} : pass'[d] = pass[d]
          /\ \A x \in Symbols, g \in Range(AllFreqs) : lake'[x][g] >= lake[x][g]
      BY <1>8, FetchOneSync
    <3>2. pass'["worker"] = pass["worker"]
      BY <1>1, <2>2, <3>1
    <3>3. UNCHANGED <<date, source>>
      BY <1>8 DEF FetchOne, SameClock
    <3> QED
      BY <1>3, <1>4, <3>1, <3>2, <3>3
  <2> QED
    BY <2>1, <2>2
<1>9. ASSUME NEW c \in Callers,
             TdxRaises(c) \/ EnqueueChanges(c) \/ Prewarm(c) \/ Mark(c) \/ PassRaises(c)
      PROVE  WorkerInv'
  <2>1. /\ UNCHANGED <<date, source, lake>>
        /\ \A d \in Callers \ {c} : pass'[d] = pass[d]
        /\ \/ pass'[c].at = "idle"
           \/ /\ At(c, "prewarm") \/ pass[c].todo = <<>>
              /\ \E step \in {"prewarm", "mark"} : pass'[c] = [pass[c] EXCEPT !.at = step]
    BY <1>9, LaterSync
  <2>2. CASE c # "worker"
    BY <1>1, <1>3, <1>4, <2>1, <2>2
  <2>3. CASE c = "worker" /\ pass'[c].at = "idle"
    BY <2>3 DEF WorkerInv, Busy
  <2>4. CASE c = "worker" /\ pass'[c].at # "idle"
    <3>1. Busy
      BY <1>9, <2>4, SyncParts, CallersThere
      DEF Busy, TdxRaises, EnqueueChanges, Prewarm, Mark, PassRaises, Fetched, At
    <3> QED
      BY <2>1, <2>4, <3>1, LaterCovers
  <2> QED
    BY <2>2, <2>3, <2>4
<1>10. CASE StopProcess
  BY <1>10, StopProcessSync DEF WorkerInv, Busy
<1>11. CASE Clock
  BY <1>3, <1>4, <1>11, ClockSync
<1>12. CASE \E f \in Range(AllFreqs) : Publish(f)
  BY <1>3, <1>4, <1>12, PublishSync
<1> QED
  BY <1>5, <1>6, <1>7, <1>8, <1>9, <1>10, <1>11, <1>12 DEF SyncNext, PassStep

(* The mark of a full window is the work of a pass that has no more to     *)
(* fetch.                                                                  *)
LEMMA MarksAFullDay ==
    ASSUME SyncInv, WorkerInv, [SyncNext]_syncVars, lastFull' \notin {0, lastFull}
    PROVE  LET p == pass["worker"] IN
           /\ p.began = lastFull'
           /\ \A s \in p.symbols, f \in Range(AllFreqs) :
                 <<s, f>> \notin p.failed => lake[s][f] >= p.seen[f]
<1>1. Mark("worker") /\ lastFull' = date /\ pass["worker"].marks
      /\ pass["worker"].scope = "full"
  <2>1. \E c \in Callers : Mark(c)
    BY DEF SyncNext, syncVars, StartWorker, WorkerBegins, PageForces, AddSymbol, PassStep,
       FetchOne, TdxRaises, EnqueueChanges, Prewarm, PassRaises, StopProcess, Clock, Publish,
       SameMarks
  <2> QED
    BY <2>1 DEF Mark, SameMarks
<1>2. Busy /\ pass["worker"].at = "mark"
  BY <1>1 DEF Mark, At, Busy
<1> QED
  BY <1>1, <1>2 DEF WorkerInv

(* As long as no pass goes on after midnight, a full window is marked with *)
(* the day on which its pass began, and then the lake has all that could   *)
(* be fetched at that time, except what has failed (_do_sync), whatever    *)
(* the pages, the watchlist and the restarts do beside it.                 *)
THEOREM FullDaysSynced == ASSUME ~Overnight PROVE SyncSpec => FullDaySynced
<1>1. SyncInit => SyncInv /\ WorkerInv
  BY InitSync DEF WorkerInv, Busy
<1>2. SyncInv /\ WorkerInv /\ [SyncNext]_syncVars => (SyncInv /\ WorkerInv)'
  BY StepSync, StepWorker
<1> DEFINE FullDay == lastFull' \notin {0, lastFull} =>
                LET p == pass["worker"] IN
                /\ p.began = lastFull'
                /\ \A s \in p.symbols, f \in Range(AllFreqs) :
                      <<s, f>> \notin p.failed => lake[s][f] >= p.seen[f]
<1>3. SyncInv /\ WorkerInv /\ [SyncNext]_syncVars => [FullDay]_syncVars
  BY MarksAFullDay
<1>4. [][FullDay]_syncVars => FullDaySynced
  BY DEF FullDaySynced
<1> HIDE DEF FullDay
<1> QED
  BY <1>1, <1>2, <1>3, <1>4, PTL DEF SyncSpec

-----------------------------------------------------------------------------
(* Rows of the tape. *)

BarMaps == UNION {[D -> MinuteBars] : D \in SUBSET Minutes}
PreviewMaps == UNION {[D -> PreviewRows] : D \in SUBSET Minutes}

Places == {"idle", "quote", "store", "persist", "show"}
TapeRequests ==
    [ at : Places, minute : 0..LastMinute, price : Quotes \cup {0}, rows : BarMaps,
      base : BarMaps ]

(* A request that has a quote in hand has folded it into its rows.         *)
InHand(r) ==
    /\ r.at \in {"store", "persist", "show"} => r.minute \in Minutes /\ r.price \in Quotes
    /\ r.at \in {"store", "persist"} => r.minute \in DOMAIN r.rows

TapeTypes ==
    /\ clock \in 1..Closing
    /\ memory \in BarMaps /\ chart \in BarMaps
    /\ live \in BarMaps /\ (live = NoRows \/ \E m \in Minutes : DOMAIN live = {m})
    /\ preview \in PreviewMaps
    /\ official \in [Adjustflags -> SUBSET Minutes]
    /\ request \in [Requesters -> TapeRequests] /\ \A c \in Requesters : InHand(request[c])
    /\ taken \in Seq([minute : Minutes, price : Quotes])
    /\ born \in 0..Len(taken) /\ faults \in Nat

LEMMA MembersOfBarMaps ==
    ASSUME NEW r \in BarMaps
    PROVE  DOMAIN r \in SUBSET Minutes /\ \A m \in DOMAIN r : r[m] \in MinuteBars
BY DEF BarMaps

LEMMA IntoBarMaps ==
    ASSUME NEW D \in SUBSET Minutes, NEW r \in [D -> MinuteBars]
    PROVE  r \in BarMaps
BY DEF BarMaps

LEMMA MembersOfPreviewMaps ==
    ASSUME NEW r \in PreviewMaps
    PROVE  DOMAIN r \in SUBSET Minutes /\ \A m \in DOMAIN r : r[m] \in PreviewRows
BY DEF PreviewMaps

LEMMA IntoPreviewMaps ==
    ASSUME NEW D \in SUBSET Minutes, NEW r \in [D -> PreviewRows]
    PROVE  r \in PreviewMaps
BY DEF PreviewMaps

LEMMA NoRowsTyped == NoRows \in BarMaps /\ NoRows \in PreviewMaps /\ DOMAIN NoRows = {}
<1>1. NoRows \in [{} -> MinuteBars] /\ NoRows \in [{} -> PreviewRows]
  BY DEF NoRows
<1> QED
  BY <1>1, IntoBarMaps, IntoPreviewMaps

LEMMA OfficialBarTyped == OfficialBar \in MinuteBars
<1>1. (CHOOSE p \in Quotes : TRUE) \in Quotes
  BY TapeBounds
<1> QED
  BY <1>1 DEF OfficialBar, MinuteBars

LEMMA OfficialOfTyped ==
    ASSUME NEW D \in SUBSET Minutes
    PROVE  OfficialOf(D) \in BarMaps /\ DOMAIN OfficialOf(D) = D
<1>1. OfficialOf(D) \in [D -> MinuteBars]
  BY OfficialBarTyped DEF OfficialOf
<1> QED
  BY <1>1, IntoBarMaps

LEMMA OverlaidTyped ==
    ASSUME NEW r \in BarMaps, NEW s \in BarMaps
    PROVE  Overlaid(r, s) \in BarMaps
<1>1. DOMAIN r \cup DOMAIN s \in SUBSET Minutes
  BY MembersOfBarMaps
<1>2. Overlaid(r, s) \in [DOMAIN r \cup DOMAIN s -> MinuteBars]
  BY MembersOfBarMaps DEF Overlaid
<1> QED
  BY <1>1, <1>2, IntoBarMaps

LEMMA OverlaidPreview ==
    ASSUME NEW r \in PreviewMaps, NEW s \in PreviewMaps
    PROVE  Overlaid(r, s) \in PreviewMaps
<1>1. DOMAIN r \cup DOMAIN s \in SUBSET Minutes
  BY MembersOfPreviewMaps
<1>2. Overlaid(r, s) \in [DOMAIN r \cup DOMAIN s -> PreviewRows]
  BY MembersOfPreviewMaps DEF Overlaid
<1> QED
  BY <1>1, <1>2, IntoPreviewMaps

(* What a row of the overlay is.                                           *)
LEMMA OverlaidRow ==
    ASSUME NEW r, NEW s, NEW m \in DOMAIN Overlaid(r, s)
    PROVE  \/ m \in DOMAIN s /\ Overlaid(r, s)[m] = s[m]
           \/ m \in DOMAIN r /\ m \notin DOMAIN s /\ Overlaid(r, s)[m] = r[m]
  BY DEF Overlaid

LEMMA OverlaidDomain ==
    ASSUME NEW r, NEW s
    PROVE  DOMAIN Overlaid(r, s) = DOMAIN r \cup DOMAIN s
  BY DEF Overlaid

LEMMA VisibleTyped ==
    ASSUME preview \in PreviewMaps
    PROVE  Visible \in BarMaps /\ DOMAIN Visible \subseteq DOMAIN preview
<1> DEFINE D == {k \in DOMAIN preview : ~preview[k].hidden}
<1>1. D \in SUBSET Minutes
  BY MembersOfPreviewMaps
<1>2. \A m \in D : preview[m].bar \in MinuteBars
  BY MembersOfPreviewMaps DEF PreviewRows
<1>3. Visible \in [D -> MinuteBars]
  BY <1>2 DEF Visible
<1> QED
  BY <1>1, <1>3, IntoBarMaps

LEMMA PageRowsTyped == ASSUME TapeTypes PROVE PageRows \in BarMaps /\ Displayed \in SUBSET Minutes
<1>1. Displayed \in SUBSET Minutes
  BY DEF Displayed, TapeTypes, Adjustflags
<1> QED
  BY <1>1, VisibleTyped, OfficialOfTyped, OverlaidTyped DEF PageRows, TapeTypes

-----------------------------------------------------------------------------
(* Least and greatest. *)

HasMax(S) == \E m \in S : \A y \in S : m >= y
HasMin(S) == \E m \in S : \A y \in S : m =< y

LEMMA MaxIs ==
    ASSUME NEW S \in SUBSET Int, NEW x \in S, \A y \in S : x >= y
    PROVE  Max(S) = x
<1>1. Max(S) \in S /\ \A y \in S : Max(S) >= y
  BY DEF Max
<1>2. Max(S) >= x /\ x >= Max(S) /\ x \in Int /\ Max(S) \in Int
  BY <1>1
<1> QED
  BY <1>1, <1>2

LEMMA MinIs ==
    ASSUME NEW S \in SUBSET Int, NEW x \in S, \A y \in S : x =< y
    PROVE  Min(S) = x
<1>1. Min(S) \in S /\ \A y \in S : Min(S) =< y
  BY DEF Min
<1>2. Min(S) =< x /\ x =< Min(S) /\ x \in Int /\ Min(S) \in Int
  BY <1>1
<1> QED
  BY <1>1, <1>2

LEMMA MaxHolds == ASSUME NEW S, HasMax(S) PROVE Max(S) \in S /\ \A y \in S : Max(S) >= y
  BY DEF HasMax, Max

LEMMA MinHolds == ASSUME NEW S, HasMin(S) PROVE Min(S) \in S /\ \A y \in S : Min(S) =< y
  BY DEF HasMin, Min

LEMMA OneMore ==
    ASSUME NEW S \in SUBSET Int, NEW x \in Int
    PROVE  /\ HasMax(S) => HasMax(S \cup {x})
           /\ HasMin(S) => HasMin(S \cup {x})
           /\ HasMax({x}) /\ HasMin({x})
<1>1. ASSUME NEW m \in S, \A y \in S : m >= y PROVE HasMax(S \cup {x})
  <2>1. CASE m >= x
    BY <1>1, <2>1 DEF HasMax
  <2>2. CASE x > m
    <3>1. \A y \in S \cup {x} : x >= y
      BY <1>1, <2>2
    <3> QED
      BY <3>1 DEF HasMax
  <2> QED
    BY <2>1, <2>2
<1>2. ASSUME NEW m \in S, \A y \in S : m =< y PROVE HasMin(S \cup {x})
  <2>1. CASE m =< x
    BY <1>2, <2>1 DEF HasMin
  <2>2. CASE x < m
    <3>1. \A y \in S \cup {x} : x =< y
      BY <1>2, <2>2
    <3> QED
      BY <3>1 DEF HasMin
  <2> QED
    BY <2>1, <2>2
<1>3. HasMax({x}) /\ HasMin({x})
  BY DEF HasMax, HasMin
<1> QED
  BY <1>1, <1>2, <1>3 DEF HasMax, HasMin

LEMMA TwoNumbers ==
    ASSUME NEW x \in Int, NEW y \in Int
    PROVE  /\ Max({x, y}) = IF x >= y THEN x ELSE y
           /\ Min({x, y}) = IF x =< y THEN x ELSE y
<1>1. Max({x, y}) = IF x >= y THEN x ELSE y
  <2>1. CASE x >= y
    BY <2>1, MaxIs
  <2>2. CASE y > x
    BY <2>2, MaxIs
  <2> QED
    BY <2>1, <2>2
<1>2. Min({x, y}) = IF x =< y THEN x ELSE y
  <2>1. CASE x =< y
    BY <2>1, MinIs
  <2>2. CASE y < x
    BY <2>2, MinIs
  <2> QED
    BY <2>1, <2>2
<1> QED
  BY <1>1, <1>2
-----------------------------------------------------------------------------
(* Bars. *)

LEMMA BarFields ==
    ASSUME NEW b \in MinuteBars
    PROVE  /\ {b.open, b.high, b.low, b.close} \subseteq Quotes
           /\ {b.open, b.high, b.low, b.close} \subseteq Nat
           /\ b.samples \in Nat /\ b.forming \in BOOLEAN
<1>1. Quotes \subseteq Nat
  BY TapeBounds
<1>2. b.open \in Quotes /\ b.high \in Quotes /\ b.low \in Quotes /\ b.close \in Quotes
  BY DEF MinuteBars
<1>3. b.samples \in Nat /\ b.forming \in BOOLEAN
  BY DEF MinuteBars
<1> QED
  BY <1>1, <1>2, <1>3

LEMMA FirstOfTyped ==
    ASSUME NEW p \in Quotes
    PROVE  FirstOf(p) \in MinuteBars
  BY DEF FirstOf, MinuteBars

(* What folding a price into a bar makes of it.                            *)
LEMMA FoldedBar ==
    ASSUME NEW b \in MinuteBars, NEW p \in Quotes
    PROVE  /\ Folded(b, p) \in MinuteBars
           /\ Folded(b, p).open = b.open /\ Folded(b, p).close = p
           /\ Folded(b, p).high = (IF b.high >= p THEN b.high ELSE p)
           /\ Folded(b, p).low = (IF b.low =< p THEN b.low ELSE p)
           /\ Folded(b, p).samples = b.samples + 1
           /\ Folded(b, p).forming
<1>1. b.high \in Int /\ b.low \in Int /\ p \in Int /\ b.samples \in Nat
  BY BarFields, TapeBounds
<1>2. Max({b.high, p}) = (IF b.high >= p THEN b.high ELSE p)
  BY <1>1, TwoNumbers
<1>3. Min({b.low, p}) = (IF b.low =< p THEN b.low ELSE p)
  BY <1>1, TwoNumbers
<1>4. Max({b.high, p}) \in Quotes /\ Min({b.low, p}) \in Quotes
  BY <1>2, <1>3, BarFields
<1> DEFINE h == Max({b.high, p})
           l == Min({b.low, p})
<1> HIDE DEF h, l
<1>5. Folded(b, p) = [b EXCEPT !.high = h, !.low = l, !.close = p, !.samples = @ + 1,
                               !.forming = TRUE]
  BY DEF Folded, h, l
<1>6. Folded(b, p) = [ open |-> b.open, high |-> h, low |-> l, close |-> p,
                       samples |-> b.samples + 1, forming |-> TRUE ]
  BY <1>5 DEF MinuteBars
<1>7. h \in Quotes /\ l \in Quotes
  BY <1>4 DEF h, l
<1>8. Folded(b, p) \in MinuteBars
  BY <1>1, <1>6, <1>7, BarFields DEF MinuteBars
<1> QED
  BY <1>2, <1>3, <1>6, <1>8 DEF h, l

(* A bar that is closed.                                                   *)
LEMMA ClosedBar ==
    ASSUME NEW b \in MinuteBars
    PROVE  /\ [b EXCEPT !.forming = FALSE] \in MinuteBars
           /\ [b EXCEPT !.forming = FALSE].open = b.open
           /\ [b EXCEPT !.forming = FALSE].high = b.high
           /\ [b EXCEPT !.forming = FALSE].low = b.low
           /\ [b EXCEPT !.forming = FALSE].close = b.close
           /\ [b EXCEPT !.forming = FALSE].samples = b.samples
           /\ ~[b EXCEPT !.forming = FALSE].forming
  BY DEF MinuteBars

LEMMA IngestedTyped ==
    ASSUME NEW bars \in BarMaps, NEW m \in Minutes, NEW p \in Quotes
    PROVE  Ingested(bars, m, p) \in BarMaps /\ DOMAIN Ingested(bars, m, p) = DOMAIN bars \cup {m}
<1> DEFINE D == DOMAIN bars \cup {m}
<1>1. D \in SUBSET Minutes /\ \A k \in DOMAIN bars : bars[k] \in MinuteBars
  BY MembersOfBarMaps
<1>2. ASSUME NEW k \in D PROVE Ingested(bars, m, p)[k] \in MinuteBars
  <2>1. CASE k # m
    BY <1>1, <1>2, <2>1, ClosedBar DEF Ingested
  <2>2. CASE k = m /\ m \in DOMAIN bars
    BY <1>1, <2>2, FoldedBar DEF Ingested
  <2>3. CASE k = m /\ m \notin DOMAIN bars
    BY <2>3, FirstOfTyped DEF Ingested
  <2> QED
    BY <2>1, <2>2, <2>3
<1>3. Ingested(bars, m, p) \in [D -> MinuteBars]
  BY <1>2 DEF Ingested
<1> QED
  BY <1>1, <1>3, IntoBarMaps

-----------------------------------------------------------------------------
(* The bar of the moment. *)

PricesIn(bs, p) == (UNION {{b.high, b.low} : b \in bs}) \cup {p}

LEMMA InPricesIn ==
    ASSUME NEW bs, NEW p, NEW x
    PROVE  x \in PricesIn(bs, p) <=> x = p \/ \E b \in bs : x = b.high \/ x = b.low
  BY DEF PricesIn

LEMMA PricesInTwo ==
    ASSUME NEW a \in MinuteBars, NEW b \in MinuteBars, NEW p \in Quotes,
           NEW bs \in {{}, {a}, {a, b}}
    PROVE  /\ PricesIn(bs, p) \subseteq Quotes
           /\ HasMax(PricesIn(bs, p)) /\ HasMin(PricesIn(bs, p))
<1>1. /\ {a.high, a.low, b.high, b.low, p} \subseteq Quotes
      /\ {a.high, a.low, b.high, b.low, p} \subseteq Int
  BY BarFields, TapeBounds
<1>2. \A S \in SUBSET Int, x \in Int :
         HasMax(S) /\ HasMin(S) => HasMax(S \cup {x}) /\ HasMin(S \cup {x})
  BY OneMore
<1> DEFINE A == ({p} \cup {a.high}) \cup {a.low}
           B == (A \cup {b.high}) \cup {b.low}
<1>3. HasMax({p}) /\ HasMin({p})
  BY <1>1, OneMore
<1>4. HasMax(A) /\ HasMin(A) /\ A \in SUBSET Int
  <2>1. {p} \in SUBSET Int /\ {p} \cup {a.high} \in SUBSET Int
    BY <1>1
  <2>2. HasMax({p} \cup {a.high}) /\ HasMin({p} \cup {a.high})
    BY <1>1, <1>2, <1>3, <2>1
  <2>3. HasMax(A) /\ HasMin(A)
    BY <1>1, <1>2, <2>1, <2>2
  <2> QED
    BY <1>1, <2>3
<1>5. HasMax(B) /\ HasMin(B)
  <2> HIDE DEF A
  <2>1. A \cup {b.high} \in SUBSET Int
    BY <1>1, <1>4
  <2>2. HasMax(A \cup {b.high}) /\ HasMin(A \cup {b.high})
    BY <1>1, <1>2, <1>4
  <2> QED
    BY <1>1, <1>2, <2>1, <2>2
<1>6. CASE bs = {}
  <2>1. \A x : x \in PricesIn(bs, p) <=> x \in {p}
    BY <1>6, InPricesIn
  <2>2. PricesIn(bs, p) = {p}
    BY <2>1
  <2> QED
    BY <1>1, <1>3, <2>2
<1>7. CASE bs = {a}
  <2>1. \A x : x \in PricesIn(bs, p) <=> x \in A
    BY <1>7, InPricesIn
  <2>2. PricesIn(bs, p) = A
    BY <2>1
  <2> QED
    BY <1>1, <1>4, <2>2
<1>8. CASE bs = {a, b}
  <2>1. \A x : x \in PricesIn(bs, p) <=> x \in B
    BY <1>8, InPricesIn
  <2>2. PricesIn(bs, p) = B
    BY <2>1
  <2> QED
    BY <1>1, <1>5, <2>2
<1> QED
  BY <1>6, <1>7, <1>8

(* The bars that the bar of the moment is drawn over.                      *)
Own(r) == IF r.minute \in DOMAIN live THEN {live[r.minute]} ELSE {}
RowBelow(r) ==
    IF r.minute \in DOMAIN r.base /\ ~(\E m \in DOMAIN r.base : m > r.minute)
    THEN {r.base[r.minute]} ELSE {}

(* It spans the prices of those bars and of the quote, and opens where the *)
(* first of them did.                                                      *)
LEMMA DrawnBar ==
    ASSUME live \in BarMaps, NEW r \in TapeRequests, r.price \in Quotes
    PROVE  /\ Drawn(r) \in MinuteBars
           /\ Own(r) \cup RowBelow(r) \subseteq MinuteBars
           /\ Drawn(r).close = r.price
           /\ {Drawn(r).high, Drawn(r).low} \subseteq PricesIn(Own(r) \cup RowBelow(r), r.price)
           /\ \A p \in PricesIn(Own(r) \cup RowBelow(r), r.price) :
                 p \in Drawn(r).low .. Drawn(r).high
           /\ \/ Drawn(r).open = r.price
              \/ \E b \in Own(r) \cup RowBelow(r) : Drawn(r).open = b.open
<1> DEFINE bs == Own(r) \cup RowBelow(r)
           P == PricesIn(bs, r.price)
           first == IF Own(r) # {} THEN Own(r) ELSE RowBelow(r)
           o == IF first = {} THEN r.price ELSE (CHOOSE b \in first : TRUE).open
<1>1. r.base \in BarMaps
  BY DEF TapeRequests
<1>2. bs \subseteq MinuteBars
  BY <1>1, MembersOfBarMaps DEF Own, RowBelow
<1>3. \E a, b \in MinuteBars : bs \in {{}, {a}, {a, b}}
  <2>1. Own(r) = {} \/ \E a \in MinuteBars : Own(r) = {a}
    BY MembersOfBarMaps DEF Own
  <2>2. RowBelow(r) = {} \/ \E b \in MinuteBars : RowBelow(r) = {b}
    BY <1>1, MembersOfBarMaps DEF RowBelow
  <2>3. OfficialBar \in MinuteBars
    BY OfficialBarTyped
  <2> QED
    BY <2>1, <2>2, <2>3
<1>4. P \subseteq Quotes /\ HasMax(P) /\ HasMin(P) /\ P \subseteq Int
  <2>1. PICK a \in MinuteBars, b \in MinuteBars : bs \in {{}, {a}, {a, b}}
    BY <1>3
  <2> HIDE DEF bs
  <2>2. P \subseteq Quotes /\ HasMax(P) /\ HasMin(P)
    BY <2>1, PricesInTwo
  <2>3. Quotes \subseteq Int
    BY TapeBounds
  <2> HIDE DEF P
  <2> QED
    BY <2>2, <2>3
<1>5. Drawn(r) = [ open |-> o, high |-> Max(P), low |-> Min(P), close |-> r.price,
                   samples |-> 0, forming |-> TRUE ]
  BY DEF Drawn, Own, RowBelow, PricesIn
<1>6. o = r.price \/ \E b \in bs : o = b.open
  OBVIOUS
<1>7. o \in Quotes
  BY <1>2, <1>6, BarFields
<1> HIDE DEF P, bs, o
<1>8. /\ Max(P) \in P /\ Min(P) \in P /\ Max(P) \in Quotes /\ Min(P) \in Quotes
      /\ \A p \in P : Max(P) >= p /\ Min(P) =< p
  BY <1>4, MaxHolds, MinHolds
<1>9. Drawn(r) \in MinuteBars
  BY <1>5, <1>7, <1>8 DEF MinuteBars
<1>10. \A p \in P : p \in Min(P) .. Max(P)
  BY <1>4, <1>8
<1> QED
  BY <1>2, <1>5, <1>6, <1>8, <1>9, <1>10 DEF P, bs
-----------------------------------------------------------------------------
(* The steps keep the types.                                               *)

LEMMA IdleTyped == Idle \in TapeRequests /\ Idle.at = "idle" /\ InHand(Idle)
<1>1. 0 \in 0..LastMinute
  BY TapeBounds
<1> QED
  BY <1>1, NoRowsTyped DEF Idle, TapeRequests, InHand, Places

(* A request moves on.                                                     *)
LEMMA BecomesTyped ==
    ASSUME TapeTypes, NEW c \in Requesters, NEW r \in TapeRequests, InHand(r), Becomes(c, r)
    PROVE  /\ request' \in [Requesters -> TapeRequests] /\ \A d \in Requesters : InHand(request'[d])
           /\ request'[c] = r /\ \A d \in Requesters \ {c} : request'[d] = request[d]
<1>1. /\ request \in [Requesters -> TapeRequests] /\ request' = [request EXCEPT ![c] = r]
      /\ \A d \in Requesters : InHand(request[d])
  BY DEF TapeTypes, Becomes
<1>2. request'[c] = r /\ \A d \in Requesters \ {c} : request'[d] = request[d]
  BY <1>1
<1>3. request' \in [Requesters -> TapeRequests]
  BY <1>1
<1>4. ASSUME NEW d \in Requesters PROVE InHand(request'[d])
  BY <1>1, <1>2
<1> QED
  BY <1>2, <1>3, <1>4

LEMMA AskedFields ==
    ASSUME NEW r \in TapeRequests
    PROVE  /\ r.at \in Places /\ r.minute \in 0..LastMinute /\ r.price \in Quotes \cup {0}
           /\ r.rows \in BarMaps /\ r.base \in BarMaps
           /\ \A at \in Places :
                 /\ [r EXCEPT !.at = at] \in TapeRequests /\ [r EXCEPT !.at = at].at = at
                 /\ [r EXCEPT !.at = at].minute = r.minute
                 /\ [r EXCEPT !.at = at].price = r.price
                 /\ [r EXCEPT !.at = at].rows = r.rows
                 /\ [r EXCEPT !.at = at].base = r.base
  BY DEF TapeRequests

LEMMA MinuteTypes ==
    ASSUME TapeTypes, MinutePasses
    PROVE  TapeTypes'
<1>1. LastMinute \in Nat
  BY TapeBounds
<1>2. clock' \in 1..Closing
  BY <1>1 DEF TapeTypes, MinutePasses, Closing
<1> QED
  BY <1>2 DEF TapeTypes, MinutePasses, history

LEMMA PageReadsTypes ==
    ASSUME TapeTypes, NEW c \in Requesters, PageReads(c)
    PROVE  TapeTypes'
<1> DEFINE r == [Idle EXCEPT !.at = "quote", !.base = PageRows]
<1>1. r \in TapeRequests /\ InHand(r)
  BY IdleTyped, PageRowsTyped DEF TapeRequests, InHand, Places, Idle
<1>2. /\ Becomes(c, r)
      /\ UNCHANGED <<clock, memory, live, preview, official, hiding, chart, history>>
  BY DEF PageReads
<1> HIDE DEF r
<1> QED
  BY <1>1, <1>2, BecomesTyped DEF TapeTypes, history

LEMMA NoQuoteTypes ==
    ASSUME TapeTypes, NEW c \in Requesters, NoQuote(c)
    PROVE  TapeTypes'
<1>1. request[c].base \in BarMaps
  BY AskedFields DEF TapeTypes
<1> QED
  BY <1>1, IdleTyped, BecomesTyped DEF NoQuote, TapeTypes, history

(* A request that took a quote.                                            *)
WithQuote(r, m, p, rows) ==
    [r EXCEPT !.at = "store", !.minute = m, !.price = p, !.rows = rows]

LEMMA WithQuoteTyped ==
    ASSUME NEW r \in TapeRequests, NEW m \in Minutes, NEW p \in Quotes, NEW rows \in BarMaps
    PROVE  /\ WithQuote(r, m, p, rows) \in TapeRequests
           /\ WithQuote(r, m, p, rows).at = "store"
           /\ WithQuote(r, m, p, rows).minute = m
           /\ WithQuote(r, m, p, rows).price = p
           /\ WithQuote(r, m, p, rows).rows = rows
           /\ WithQuote(r, m, p, rows).base = r.base
<1> DEFINE with == [r EXCEPT !.at = "store", !.minute = m, !.price = p, !.rows = rows]
<1>1. m \in 0..LastMinute /\ "store" \in Places /\ p \in Quotes \cup {0}
  BY TapeBounds DEF Minutes, Places
<1>2. with \in TapeRequests
  BY <1>1, ZenonT(60) DEF TapeRequests
<1>3. with.at = "store" /\ with.minute = m /\ with.price = p /\ with.rows = rows
      /\ with.base = r.base
  BY DEF TapeRequests
<1> QED
  BY <1>2, <1>3 DEF WithQuote

LEMMA TakeTypes ==
    ASSUME TapeTypes, NEW c \in Requesters, NEW m \in Minutes, NEW p \in Quotes, Take(c, m, p)
    PROVE  TapeTypes'
<1> DEFINE rows == Ingested(memory, m, p)
           r == WithQuote(request[c], m, p, rows)
           q == [minute |-> m, price |-> p]
<1>1. request[c] \in TapeRequests /\ memory \in BarMaps
  BY DEF TapeTypes
<1>2. rows \in BarMaps /\ m \in DOMAIN rows
  <2>1. rows \in BarMaps /\ DOMAIN rows = DOMAIN memory \cup {m}
    BY <1>1, IngestedTyped
  <2> QED
    BY <2>1
<1> HIDE DEF rows
<1>3. r \in TapeRequests /\ InHand(r)
  <2>1. /\ r \in TapeRequests /\ r.at = "store" /\ r.minute = m /\ r.price = p
        /\ r.rows = rows
    BY <1>1, <1>2, WithQuoteTyped
  <2> QED
    BY <1>2, <2>1 DEF InHand
<1>4. /\ Becomes(c, r) /\ taken' = Append(taken, q)
      /\ UNCHANGED <<clock, memory, live, preview, official, hiding, chart, born, faults, restarts>>
  BY DEF Take, rows, WithQuote
<1> HIDE DEF r
<1>5. /\ taken' \in Seq([minute : Minutes, price : Quotes]) /\ born' \in 0..Len(taken')
  BY <1>4 DEF TapeTypes
<1> QED
  BY <1>3, <1>4, <1>5, BecomesTyped DEF TapeTypes

LEMMA StoreTypes ==
    ASSUME TapeTypes, NEW c \in Requesters, Store(c)
    PROVE  TapeTypes'
<1> DEFINE r == [request[c] EXCEPT !.at = "persist"]
<1>1. request[c] \in TapeRequests /\ request[c].at = "store" /\ InHand(request[c])
  BY DEF TapeTypes, Store, Is
<1>2. r \in TapeRequests /\ InHand(r) /\ request[c].rows \in BarMaps
  BY <1>1, AskedFields DEF InHand, Places
<1>3. /\ Becomes(c, r) /\ memory' = request[c].rows
      /\ UNCHANGED <<clock, live, preview, official, hiding, chart, history>>
  BY DEF Store
<1> HIDE DEF r
<1> QED
  BY <1>2, <1>3, BecomesTyped DEF TapeTypes, history

LEMMA WrittenTyped ==
    ASSUME NEW b \in MinuteBars
    PROVE  Written(b) \in PreviewRows /\ Written(b).bar = b
  BY DEF Written, PreviewRows

LEMMA PersistTypes ==
    ASSUME TapeTypes, NEW c \in Requesters, Persist(c)
    PROVE  TapeTypes'
<1> DEFINE r == request[c]
           next == IF c \in Pages THEN [r EXCEPT !.at = "show"] ELSE Idle
           row == [m \in {r.minute} |-> Written(r.rows[m])]
<1>1. r \in TapeRequests /\ r.at = "persist" /\ InHand(r)
  BY DEF TapeTypes, Persist, Is
<1>2. next \in TapeRequests /\ InHand(next)
  BY <1>1, AskedFields, IdleTyped DEF InHand, Places
<1>3. row \in PreviewMaps
  <2>1. r.minute \in Minutes /\ r.rows[r.minute] \in MinuteBars
    BY <1>1, AskedFields, MembersOfBarMaps DEF InHand
  <2>2. row \in [{r.minute} -> PreviewRows]
    BY <2>1, WrittenTyped
  <2> QED
    BY <2>1, <2>2, IntoPreviewMaps
<1>4. /\ Becomes(c, next)
      /\ \/ preview' = Overlaid(preview, row) /\ UNCHANGED faults
         \/ faults' = faults + 1 /\ UNCHANGED preview
      /\ UNCHANGED <<clock, memory, live, official, hiding, chart, taken, born, restarts>>
  BY DEF Persist
<1> HIDE DEF next, row, r
<1>5. preview' \in PreviewMaps /\ faults' \in Nat
  BY <1>3, <1>4, OverlaidPreview DEF TapeTypes
<1> QED
  BY <1>2, <1>4, <1>5, BecomesTyped DEF TapeTypes

LEMMA ShowTypes ==
    ASSUME TapeTypes, NEW c \in Requesters, Show(c)
    PROVE  TapeTypes'
<1> DEFINE r == request[c]
           bar == [m \in {r.minute} |-> Drawn(r)]
<1>1. /\ r \in TapeRequests /\ r.at = "show" /\ InHand(r) /\ r.base \in BarMaps
      /\ r.minute \in Minutes /\ r.price \in Quotes /\ live \in BarMaps
  BY AskedFields DEF TapeTypes, Show, Is, InHand
<1>2. bar \in BarMaps /\ DOMAIN bar = {r.minute}
  <2>1. Drawn(r) \in MinuteBars
    BY <1>1, DrawnBar
  <2> HIDE DEF r
  <2>2. bar \in [{r.minute} -> MinuteBars]
    BY <2>1
  <2> QED
    BY <1>1, <2>2, IntoBarMaps
<1>3. /\ Becomes(c, Idle)
      /\ \/ chart' = r.base /\ UNCHANGED live
         \/ live' = bar /\ (chart' = r.base \/ chart' = Overlaid(r.base, bar))
      /\ UNCHANGED <<clock, memory, preview, official, hiding, history>>
  BY DEF Show
<1> HIDE DEF r, bar
<1>4. /\ chart' \in BarMaps /\ live' \in BarMaps
      /\ live' = NoRows \/ \E m \in Minutes : DOMAIN live' = {m}
  BY <1>1, <1>2, <1>3, OverlaidTyped DEF TapeTypes
<1> QED
  BY <1>3, <1>4, IdleTyped, BecomesTyped DEF TapeTypes, history

LEMMA OfficialTypes ==
    ASSUME TapeTypes, NEW a \in Adjustflags, NEW last \in Minutes, StoreOfficial(a, last)
    PROVE  TapeTypes'
<1>1. 1..last \in SUBSET Minutes
  BY TapeBounds DEF Minutes
<1>2. official' \in [Adjustflags -> SUBSET Minutes]
  BY <1>1 DEF TapeTypes, StoreOfficial
<1> QED
  BY <1>2 DEF TapeTypes, StoreOfficial, history

LEMMA ReplacedTyped ==
    ASSUME NEW rows \in PreviewMaps
    PROVE  /\ Replaced(rows) \in PreviewMaps /\ DOMAIN Replaced(rows) = DOMAIN rows
           /\ \A m \in DOMAIN rows : Replaced(rows)[m].bar = rows[m].bar
<1>1. \A m \in DOMAIN rows : rows[m] \in PreviewRows
  BY MembersOfPreviewMaps
<1>2. /\ Replaced(rows) \in [DOMAIN rows -> PreviewRows]
      /\ \A m \in DOMAIN rows : Replaced(rows)[m].bar = rows[m].bar
  BY <1>1 DEF Replaced, PreviewRows
<1>3. DOMAIN rows \in SUBSET Minutes
  BY MembersOfPreviewMaps
<1> QED
  BY <1>2, <1>3, IntoPreviewMaps

LEMMA HideTypes == ASSUME TapeTypes, HideRows PROVE TapeTypes'
  BY ReplacedTyped DEF TapeTypes, HideRows, history

LEMMA RestartTypes == ASSUME TapeTypes, Restart PROVE TapeTypes'
<1>1. /\ request' \in [Requesters -> TapeRequests] /\ \A c \in Requesters : InHand(request'[c])
  BY IdleTyped DEF Restart
<1>2. /\ memory' = NoRows /\ live' = NoRows /\ born' = Len(taken)
      /\ UNCHANGED <<clock, preview, official, chart, taken, faults>>
  BY DEF Restart
<1> QED
  BY <1>1, <1>2, NoRowsTyped DEF TapeTypes

LEMMA TypesStart == ASSUME TapeInit PROVE TapeTypes
  BY TapeBounds, IdleTyped, NoRowsTyped DEF TapeInit, TapeTypes, Closing

LEMMA TypesNext == ASSUME TapeTypes, [TapeNext]_tapeVars PROVE TapeTypes'
<1>1. ASSUME NEW c \in Requesters,
             PageReads(c) \/ NoQuote(c) \/ Store(c) \/ Persist(c) \/ Show(c)
      PROVE  TapeTypes'
  BY <1>1, PageReadsTypes, NoQuoteTypes, StoreTypes, PersistTypes, ShowTypes
<1>2. ASSUME NEW c \in Requesters, NEW m \in Minutes, NEW p \in Quotes, Take(c, m, p)
      PROVE  TapeTypes'
  BY <1>2, TakeTypes
<1>3. ASSUME NEW a \in Adjustflags, NEW last \in Minutes, StoreOfficial(a, last)
      PROVE  TapeTypes'
  BY <1>3, OfficialTypes
<1>4. CASE MinutePasses \/ HideRows \/ Restart
  BY <1>4, MinuteTypes, HideTypes, RestartTypes
<1>5. CASE UNCHANGED tapeVars
  BY <1>5 DEF TapeTypes, tapeVars
<1> QED
  BY <1>1, <1>2, <1>3, <1>4, <1>5 DEF TapeNext

LEMMA TypesHold == ASSUME TapeTypes PROVE TapeTypeOK
<1>1. ASSUME NEW rows \in {memory, live, chart}
      PROVE  DOMAIN rows \subseteq Minutes /\ \A m \in DOMAIN rows : rows[m] \in MinuteBars
  BY MembersOfBarMaps DEF TapeTypes
<1>2. DOMAIN preview \subseteq Minutes /\ \A m \in DOMAIN preview : preview[m] \in PreviewRows
  BY MembersOfPreviewMaps DEF TapeTypes
<1>3. Cardinality(DOMAIN live) <= 1
  <2>1. DOMAIN live = {} \/ \E m : DOMAIN live = {m}
    BY NoRowsTyped DEF TapeTypes
  <2>2. CASE DOMAIN live = {}
    BY <2>2, FS_EmptySet
  <2>3. CASE \E m : DOMAIN live = {m}
    <3>1. PICK m : DOMAIN live = {m}
      BY <2>3
    <3> QED
      BY <3>1, FS_Singleton
  <2> QED
    BY <2>1, <2>2, <2>3
<1>4. \A c \in Requesters : request[c].at \in Places
  BY AskedFields DEF TapeTypes
<1> QED
  BY <1>1, <1>2, <1>3, <1>4 DEF TapeTypeOK, TapeTypes, Places
-----------------------------------------------------------------------------
(* Where prices come from. *)

(* The quotes that were taken stay.                                        *)
TakenStay == \A k \in 1..Len(taken) : k \in 1..Len(taken') /\ taken'[k] = taken[k]

AllQuoted(rows) == \A m \in DOMAIN rows : Quoted(m, rows[m])
AllFair(rows) == \A m \in DOMAIN rows : rows[m] = OfficialBar \/ Quoted(m, rows[m])

(* Before the close no bar is TDX's: what a page draws over is made of     *)
(* quotes.                                                                 *)
PriceInv ==
    /\ clock # Closing => \A a \in Adjustflags : official[a] = {}
    /\ AllQuoted(memory) /\ AllQuoted(live) /\ AllFair(chart)
    /\ \A m \in DOMAIN preview : Quoted(m, preview[m].bar)
    /\ \A c \in Requesters :
          /\ AllQuoted(request[c].rows)
          /\ AllFair(request[c].base)
          /\ clock # Closing => AllQuoted(request[c].base)
          /\ request[c].at \in {"store", "persist", "show"} =>
                request[c].price \in PricesOf(TakenOf(request[c].minute, 1))

LEMMA TakingStays ==
    ASSUME TapeTypes, TapeTypes', [TapeNext]_tapeVars
    PROVE  TakenStay
<1>1. taken \in Seq([minute : Minutes, price : Quotes])
  BY DEF TapeTypes
<1>2. ASSUME taken' = taken PROVE TakenStay
  BY <1>1, <1>2 DEF TakenStay
<1>3. ASSUME NEW c \in Requesters, NEW m \in Minutes, NEW p \in Quotes, Take(c, m, p)
      PROVE  TakenStay
  <2>1. taken' = Append(taken, [minute |-> m, price |-> p])
    BY <1>3 DEF Take
  <2> QED
    BY <1>1, <2>1 DEF TakenStay
<1>4. ASSUME NEW c \in Requesters, PageReads(c) \/ NoQuote(c) \/ Store(c) \/ Persist(c) \/ Show(c)
      PROVE  taken' = taken
  BY <1>4 DEF PageReads, NoQuote, Store, Persist, Show, history
<1>5. ASSUME NEW a \in Adjustflags, NEW last \in Minutes, StoreOfficial(a, last)
      PROVE  taken' = taken
  BY <1>5 DEF StoreOfficial, history
<1>6. MinutePasses \/ HideRows \/ Restart \/ UNCHANGED tapeVars => taken' = taken
  BY DEF MinutePasses, HideRows, Restart, tapeVars, history
<1> QED
  BY <1>2, <1>3, <1>4, <1>5, <1>6 DEF TapeNext

(* After a step: a price was quoted in a minute, a bar has the prices of   *)
(* its minute.                                                             *)
QuoteAfter(m, p) == \E k \in 1..Len(taken') : taken'[k].minute = m /\ taken'[k].price = p
QuotedAfter(m, b) ==
    /\ \A p \in {b.open, b.high, b.low, b.close} : QuoteAfter(m, p)
    /\ {b.open, b.close} \subseteq b.low .. b.high

LEMMA QuotesAre ==
    ASSUME NEW m, NEW p
    PROVE  p \in PricesOf(TakenOf(m, 1)) <=>
              \E k \in 1..Len(taken) : taken[k].minute = m /\ taken[k].price = p
  BY DEF PricesOf, TakenOf

LEMMA PricesStay ==
    ASSUME TakenStay, NEW m, NEW p \in PricesOf(TakenOf(m, 1))
    PROVE  QuoteAfter(m, p)
  BY DEF TakenStay, PricesOf, TakenOf, QuoteAfter

LEMMA QuotedStays ==
    ASSUME TakenStay, NEW m, NEW b, Quoted(m, b)
    PROVE  QuotedAfter(m, b)
  BY PricesStay DEF Quoted, QuotedAfter

LEMMA QuotedInTheEnd ==
    ASSUME NEW m, NEW b, QuotedAfter(m, b)
    PROVE  /\ {b.open, b.high, b.low, b.close} \subseteq PricesOf(TakenOf(m, 1))'
           /\ {b.open, b.close} \subseteq b.low .. b.high
  BY DEF QuotedAfter, QuoteAfter, PricesOf, TakenOf

LEMMA RowsStayQuoted ==
    ASSUME TakenStay, NEW rows
    PROVE  /\ AllQuoted(rows) => \A m \in DOMAIN rows : QuotedAfter(m, rows[m])
           /\ AllFair(rows) =>
                 \A m \in DOMAIN rows : rows[m] = OfficialBar \/ QuotedAfter(m, rows[m])
  BY QuotedStays DEF AllQuoted, AllFair

LEMMA BarIsQuoted ==
    ASSUME NEW m, NEW b, NEW d,
           d.open = b.open, d.high = b.high, d.low = b.low, d.close = b.close
    PROVE  QuotedAfter(m, b) => QuotedAfter(m, d)
  BY DEF QuotedAfter

LEMMA FirstIsQuoted ==
    ASSUME NEW m, NEW p \in Int, QuoteAfter(m, p)
    PROVE  QuotedAfter(m, FirstOf(p))
  BY DEF QuotedAfter, FirstOf

LEMMA FoldedIsQuoted ==
    ASSUME NEW m, NEW b \in MinuteBars, NEW p \in Quotes,
           QuotedAfter(m, b), QuoteAfter(m, p)
    PROVE  QuotedAfter(m, Folded(b, p))
<1> DEFINE d == Folded(b, p)
<1>1. /\ d.open = b.open /\ d.close = p
      /\ d.high = (IF b.high >= p THEN b.high ELSE p)
      /\ d.low = (IF b.low =< p THEN b.low ELSE p)
  BY FoldedBar
<1>2. {b.open, b.high, b.low, b.close, p} \subseteq Int
  BY BarFields, TapeBounds
<1>3. /\ QuoteAfter(m, b.open) /\ QuoteAfter(m, b.high) /\ QuoteAfter(m, b.low)
      /\ b.open \in b.low .. b.high
  BY DEF QuotedAfter
<1> HIDE DEF d
<1>4. \A x \in {d.open, d.high, d.low, d.close} : QuoteAfter(m, x)
  BY <1>1, <1>3
<1>5. {d.open, d.close} \subseteq d.low .. d.high
  BY <1>1, <1>2, <1>3
<1> QED
  BY <1>4, <1>5 DEF QuotedAfter, d

(* The rows that a quote makes of the bars in memory.                      *)
LEMMA IngestedIsQuoted ==
    ASSUME NEW bars \in BarMaps, NEW m \in Minutes, NEW p \in Quotes,
           \A k \in DOMAIN bars : QuotedAfter(k, bars[k]), QuoteAfter(m, p)
    PROVE  \A k \in DOMAIN Ingested(bars, m, p) : QuotedAfter(k, Ingested(bars, m, p)[k])
<1>1. \A k \in DOMAIN bars : bars[k] \in MinuteBars
  BY MembersOfBarMaps
<1>2. DOMAIN Ingested(bars, m, p) = DOMAIN bars \cup {m}
  BY IngestedTyped
<1> SUFFICES ASSUME NEW k \in DOMAIN bars \cup {m}
             PROVE  QuotedAfter(k, Ingested(bars, m, p)[k])
  BY <1>2
<1>3. CASE k # m
  <2>1. Ingested(bars, m, p)[k] = [bars[k] EXCEPT !.forming = FALSE]
    BY <1>3 DEF Ingested
  <2>2. bars[k] \in MinuteBars /\ QuotedAfter(k, bars[k])
    BY <1>1, <1>3
  <2> DEFINE b == bars[k]
             d == [b EXCEPT !.forming = FALSE]
  <2> HIDE DEF b
  <2>3. d.open = b.open /\ d.high = b.high /\ d.low = b.low /\ d.close = b.close
    BY <2>2, ClosedBar DEF b
  <2> HIDE DEF d
  <2>4. QuotedAfter(k, d)
    BY <2>2, <2>3, BarIsQuoted DEF b
  <2> QED
    BY <2>1, <2>4 DEF d, b
<1>4. CASE k = m /\ m \in DOMAIN bars
  <2>1. Ingested(bars, m, p)[k] = Folded(bars[m], p)
    BY <1>4 DEF Ingested
  <2> QED
    BY <1>1, <1>4, <2>1, FoldedIsQuoted
<1>5. CASE k = m /\ m \notin DOMAIN bars
  <2>1. Ingested(bars, m, p)[k] = FirstOf(p) /\ p \in Int
    BY <1>5, TapeBounds DEF Ingested
  <2> QED
    BY <1>5, <2>1, FirstIsQuoted
<1> QED
  BY <1>3, <1>4, <1>5

(* The bar of the moment over rows that are made of quotes.                *)
LEMMA DrawnIsQuoted ==
    ASSUME live \in BarMaps, NEW r \in TapeRequests, r.price \in Quotes,
           AllQuoted(live), AllQuoted(r.base), r.price \in PricesOf(TakenOf(r.minute, 1))
    PROVE  Quoted(r.minute, Drawn(r))
<1> DEFINE bs == Own(r) \cup RowBelow(r)
           P == PricesIn(bs, r.price)
           d == Drawn(r)
<1>1. /\ d \in MinuteBars /\ bs \subseteq MinuteBars /\ d.close = r.price
      /\ {d.high, d.low} \subseteq P /\ \A p \in P : p \in d.low .. d.high
      /\ d.open = r.price \/ \E b \in bs : d.open = b.open
  BY DrawnBar
<1>2. \A b \in bs : Quoted(r.minute, b)
  BY DEF AllQuoted, Own, RowBelow
<1> HIDE DEF bs, d
<1>3. \A x \in P : x \in PricesOf(TakenOf(r.minute, 1))
  BY <1>2, InPricesIn DEF Quoted
<1>4. \A b \in bs : b.high \in P /\ b.low \in P
  BY InPricesIn
<1>5. r.price \in P
  BY InPricesIn
<1> HIDE DEF P
<1>6. {d.open, d.high, d.low, d.close} \subseteq PricesOf(TakenOf(r.minute, 1))
  BY <1>1, <1>2, <1>3, <1>5 DEF Quoted
<1>7. d.open \in d.low .. d.high
  <2>1. CASE d.open = r.price
    BY <1>1, <1>5, <2>1
  <2>2. ASSUME NEW b \in bs, d.open = b.open PROVE d.open \in d.low .. d.high
    <3>1. b.open \in b.low .. b.high /\ b.high \in d.low .. d.high /\ b.low \in d.low .. d.high
      BY <1>1, <1>2, <1>4 DEF Quoted
    <3>2. {b.open, b.low, b.high, d.low, d.high} \subseteq Int
      BY <1>1, BarFields
    <3> QED
      BY <2>2, <3>1, <3>2
  <2> QED
    BY <1>1, <2>1, <2>2
<1> QED
  BY <1>1, <1>5, <1>6, <1>7 DEF Quoted, d

(* The rows of a page: before the close those of the intraday lake.        *)
LEMMA PageRowsPrices ==
    ASSUME TapeTypes, PriceInv
    PROVE  AllFair(PageRows) /\ (clock # Closing => AllQuoted(PageRows))
<1>1. Displayed \in SUBSET Minutes
  BY PageRowsTyped
<1>2. \A m \in DOMAIN Visible : m \in DOMAIN preview /\ Visible[m] = preview[m].bar
  BY DEF Visible
<1>3. AllQuoted(Visible)
  BY <1>2 DEF AllQuoted, PriceInv
<1>4. \A m \in DOMAIN OfficialOf(Displayed) : OfficialOf(Displayed)[m] = OfficialBar
  BY DEF OfficialOf
<1>5. AllFair(PageRows)
  BY <1>3, <1>4, OverlaidRow DEF PageRows, AllFair, AllQuoted
<1>6. ASSUME clock # Closing PROVE AllQuoted(PageRows)
  <2>1. Displayed = {}
    BY <1>6 DEF Displayed, PriceInv, Adjustflags
  <2>2. DOMAIN OfficialOf(Displayed) = {}
    BY <2>1 DEF OfficialOf
  <2> QED
    BY <1>3, <2>2, OverlaidRow DEF PageRows, AllQuoted
<1> QED
  BY <1>5, <1>6
-----------------------------------------------------------------------------
(* Every step leaves prices that were quoted. *)

Holding == {"store", "persist", "show"}

AfterQuoted(rows) == \A m \in DOMAIN rows : QuotedAfter(m, rows[m])
AfterFair(rows) == \A m \in DOMAIN rows : rows[m] = OfficialBar \/ QuotedAfter(m, rows[m])

(* What PriceInv says of a request, in the state after a step.             *)
PricedAfter(r) ==
    /\ AfterQuoted(r.rows)
    /\ AfterFair(r.base)
    /\ clock' # Closing => AfterQuoted(r.base)
    /\ r.at \in Holding => QuoteAfter(r.minute, r.price)

LEMMA PriceAfter ==
    ASSUME clock' # Closing => \A a \in Adjustflags : official'[a] = {},
           AfterQuoted(memory'), AfterQuoted(live'), AfterFair(chart'),
           \A m \in DOMAIN preview' : QuotedAfter(m, preview'[m].bar),
           \A c \in Requesters : PricedAfter(request'[c])
    PROVE  PriceInv'
<1> DEFINE Fits(m, b) ==
              /\ {b.open, b.high, b.low, b.close} \subseteq PricesOf(TakenOf(m, 1))'
              /\ {b.open, b.close} \subseteq b.low .. b.high
<1>1. \A m, b : QuotedAfter(m, b) => Fits(m, b)
  BY QuotedInTheEnd
<1>2. ASSUME NEW m, NEW p, QuoteAfter(m, p) PROVE p \in PricesOf(TakenOf(m, 1))'
  BY <1>2 DEF QuoteAfter, PricesOf, TakenOf
<1>3. AllQuoted(memory)' /\ AllQuoted(live)' /\ AllFair(chart)'
  BY <1>1 DEF AllQuoted, AllFair, Quoted, AfterQuoted, AfterFair
<1>4. \A m \in DOMAIN preview' : Quoted(m, preview[m].bar)'
  BY <1>1 DEF Quoted
<1>5. ASSUME NEW c \in Requesters
      PROVE  /\ AllQuoted(request[c].rows)' /\ AllFair(request[c].base)'
             /\ clock' # Closing => AllQuoted(request[c].base)'
  BY <1>1 DEF AllQuoted, AllFair, Quoted, PricedAfter, AfterQuoted, AfterFair
<1>6. ASSUME NEW c \in Requesters, request'[c].at \in Holding
      PROVE  request'[c].price \in PricesOf(TakenOf(request[c].minute, 1))'
  <2>1. QuoteAfter(request'[c].minute, request'[c].price)
    BY <1>6 DEF PricedAfter
  <2> QED
    BY <2>1 DEF QuoteAfter, PricesOf, TakenOf
<1> QED
  BY <1>3, <1>4, <1>5, <1>6 DEF PriceInv, Holding, Closing

(* What the state before a step gives.                                     *)
LEMMA PriceBefore ==
    ASSUME PriceInv, TakenStay
    PROVE  /\ AfterQuoted(memory) /\ AfterQuoted(live) /\ AfterFair(chart)
           /\ \A m \in DOMAIN preview : QuotedAfter(m, preview[m].bar)
           /\ \A c \in Requesters :
                 /\ AfterQuoted(request[c].rows)
                 /\ AfterFair(request[c].base)
                 /\ clock # Closing => AfterQuoted(request[c].base)
                 /\ request[c].at \in Holding =>
                       QuoteAfter(request[c].minute, request[c].price)
<1>1. AfterQuoted(memory) /\ AfterQuoted(live) /\ AfterFair(chart)
  BY RowsStayQuoted DEF PriceInv, AfterQuoted, AfterFair
<1>2. \A m \in DOMAIN preview : QuotedAfter(m, preview[m].bar)
  BY QuotedStays DEF PriceInv
<1>3. ASSUME NEW c \in Requesters
      PROVE  /\ AfterQuoted(request[c].rows)
             /\ AfterFair(request[c].base)
             /\ clock # Closing => AfterQuoted(request[c].base)
  BY RowsStayQuoted DEF PriceInv, AfterQuoted, AfterFair
<1>4. ASSUME NEW c \in Requesters, request[c].at \in Holding
      PROVE  QuoteAfter(request[c].minute, request[c].price)
  BY <1>4, PricesStay DEF PriceInv, Holding
<1> QED
  BY <1>1, <1>2, <1>3, <1>4

LEMMA BecomesPriced ==
    ASSUME TapeTypes, PriceInv, TakenStay, clock' = clock, NEW c \in Requesters, NEW r,
           Becomes(c, r), PricedAfter(r)
    PROVE  \A d \in Requesters : PricedAfter(request'[d])
<1>1. \A d \in Requesters : request'[d] = IF d = c THEN r ELSE request[d]
  BY DEF TapeTypes, Becomes
<1>2. \A d \in Requesters : PricedAfter(request[d])
  BY PriceBefore DEF PricedAfter
<1> QED
  BY <1>1, <1>2

LEMMA OthersPriced ==
    ASSUME PriceInv, TakenStay, clock' = clock \/ clock' = Closing \/ clock # Closing, request' = request
    PROVE  \A d \in Requesters : PricedAfter(request'[d])
  BY PriceBefore DEF PricedAfter

LEMMA IdlePriced == PricedAfter(Idle)
  BY NoRowsTyped DEF PricedAfter, Idle, AfterQuoted, AfterFair, Holding

LEMMA MinutePrices == ASSUME TapeTypes, PriceInv, TakenStay, MinutePasses PROVE PriceInv'
<1>1. clock # Closing
  BY TapeBounds DEF MinutePasses, TapeTypes, Closing
<1>2. UNCHANGED <<memory, live, preview, official, request, chart>>
  BY DEF MinutePasses
<1>3. \A a \in Adjustflags : official'[a] = {}
  BY <1>1, <1>2 DEF PriceInv
<1>4. \A d \in Requesters : PricedAfter(request'[d])
  BY <1>1, <1>2, OthersPriced
<1> QED
  BY <1>2, <1>3, <1>4, PriceBefore, PriceAfter

LEMMA PageReadsPrices ==
    ASSUME TapeTypes, PriceInv, TakenStay, NEW c \in Requesters, PageReads(c)
    PROVE  PriceInv'
<1> DEFINE r == [Idle EXCEPT !.at = "quote", !.base = PageRows]
<1>1. /\ Becomes(c, r)
      /\ UNCHANGED <<clock, memory, live, preview, official, hiding, chart, history>>
  BY DEF PageReads
<1>2. r.at = "quote" /\ r.base = PageRows /\ r.rows = NoRows
  BY DEF Idle
<1> HIDE DEF r
<1>3. AfterFair(PageRows) /\ (clock # Closing => AfterQuoted(PageRows))
  BY PageRowsPrices, RowsStayQuoted DEF AfterFair, AfterQuoted
<1>4. PricedAfter(r)
  BY <1>1, <1>2, <1>3, NoRowsTyped DEF PricedAfter, AfterQuoted, Holding
<1>5. \A d \in Requesters : PricedAfter(request'[d])
  BY <1>1, <1>4, BecomesPriced
<1>6. clock' # Closing => \A a \in Adjustflags : official'[a] = {}
  BY <1>1 DEF PriceInv
<1> QED
  BY <1>1, <1>5, <1>6, PriceBefore, PriceAfter

LEMMA NoQuotePrices ==
    ASSUME TapeTypes, PriceInv, TakenStay, NEW c \in Requesters, NoQuote(c)
    PROVE  PriceInv'
<1>1. /\ Becomes(c, Idle) /\ chart' = request[c].base
      /\ UNCHANGED <<clock, memory, live, preview, official, hiding, history>>
  BY DEF NoQuote
<1>2. \A d \in Requesters : PricedAfter(request'[d])
  BY <1>1, IdlePriced, BecomesPriced
<1>3. clock' # Closing => \A a \in Adjustflags : official'[a] = {}
  BY <1>1 DEF PriceInv
<1>4. AfterFair(chart')
  BY <1>1, PriceBefore
<1> QED
  BY <1>1, <1>2, <1>3, <1>4, PriceBefore, PriceAfter

(* The price of the quote is among those of its minute.                    *)
LEMMA TakePrices ==
    ASSUME TapeTypes, TapeTypes', PriceInv, TakenStay, NEW c \in Requesters,
           NEW m \in Minutes, NEW p \in Quotes, Take(c, m, p)
    PROVE  PriceInv'
<1> DEFINE rows == Ingested(memory, m, p)
           r == WithQuote(request[c], m, p, rows)
           q == [minute |-> m, price |-> p]
<1>1. /\ Becomes(c, r) /\ taken' = Append(taken, q)
      /\ UNCHANGED <<clock, memory, live, preview, official, hiding, chart, born, faults, restarts>>
  BY DEF Take, WithQuote
<1>2. QuoteAfter(m, p)
  <2>1. taken \in Seq([minute : Minutes, price : Quotes])
    BY DEF TapeTypes
  <2> DEFINE n == Len(taken) + 1
  <2>2. n = Len(taken') /\ n \in Nat /\ n >= 1 /\ taken'[n] = q
    BY <1>1, <2>1
  <2> QED
    BY <2>2 DEF QuoteAfter
<1>3. memory \in BarMaps /\ rows \in BarMaps /\ request[c] \in TapeRequests
  BY IngestedTyped DEF TapeTypes
<1>4. AfterQuoted(rows)
  BY <1>2, <1>3, PriceBefore, IngestedIsQuoted DEF AfterQuoted
<1> HIDE DEF rows
<1>5. /\ r.at = "store" /\ r.minute = m /\ r.price = p /\ r.rows = rows
      /\ r.base = request[c].base
  BY <1>3, WithQuoteTyped
<1> HIDE DEF r
<1>6. PricedAfter(r)
  BY <1>1, <1>2, <1>4, <1>5, PriceBefore DEF PricedAfter
<1>7. \A d \in Requesters : PricedAfter(request'[d])
  BY <1>1, <1>6, BecomesPriced
<1>8. clock' # Closing => \A a \in Adjustflags : official'[a] = {}
  BY <1>1 DEF PriceInv
<1> QED
  BY <1>1, <1>7, <1>8, PriceBefore, PriceAfter

LEMMA StorePrices ==
    ASSUME TapeTypes, PriceInv, TakenStay, NEW c \in Requesters, Store(c)
    PROVE  PriceInv'
<1> DEFINE r == [request[c] EXCEPT !.at = "persist"]
<1>1. /\ Becomes(c, r) /\ memory' = request[c].rows /\ request[c].at = "store"
      /\ UNCHANGED <<clock, live, preview, official, hiding, chart, history>>
  BY DEF Store, Is
<1>2. /\ r.minute = request[c].minute /\ r.price = request[c].price /\ r.rows = request[c].rows
      /\ r.base = request[c].base
  <2>1. request[c] \in TapeRequests
    BY DEF TapeTypes
  <2> QED
    BY <2>1 DEF TapeRequests
<1> HIDE DEF r
<1>3. PricedAfter(r)
  BY <1>1, <1>2, PriceBefore DEF PricedAfter, Holding
<1>4. \A d \in Requesters : PricedAfter(request'[d])
  BY <1>1, <1>3, BecomesPriced
<1>5. clock' # Closing => \A a \in Adjustflags : official'[a] = {}
  BY <1>1 DEF PriceInv
<1>6. AfterQuoted(memory')
  BY <1>1, PriceBefore
<1> QED
  BY <1>1, <1>4, <1>5, <1>6, PriceBefore, PriceAfter

LEMMA PersistPrices ==
    ASSUME TapeTypes, PriceInv, TakenStay, NEW c \in Requesters, Persist(c)
    PROVE  PriceInv'
<1> DEFINE r == request[c]
           s == IF c \in Pages THEN [r EXCEPT !.at = "show"] ELSE Idle
           row == [m \in {r.minute} |-> Written(r.rows[m])]
<1>1. /\ Becomes(c, s) /\ r.at = "persist"
      /\ preview' = Overlaid(preview, row) \/ preview' = preview
      /\ UNCHANGED <<clock, memory, live, official, hiding, chart, taken, born, restarts>>
  BY DEF Persist, Is
<1>2. r \in TapeRequests /\ InHand(r)
  BY DEF TapeTypes
<1>3. PricedAfter(s)
  <2>1. CASE c \notin Pages
    BY <2>1, IdlePriced
  <2>2. CASE c \in Pages
    <3>1. s.minute = r.minute /\ s.price = r.price /\ s.rows = r.rows /\ s.base = r.base
      BY <1>2, <2>2 DEF TapeRequests
    <3> HIDE DEF s
    <3> QED
      BY <1>1, <3>1, PriceBefore DEF PricedAfter, Holding
  <2> QED
    BY <2>1, <2>2
<1>4. \A d \in Requesters : PricedAfter(request'[d])
  BY <1>1, <1>3, BecomesPriced
<1>5. clock' # Closing => \A a \in Adjustflags : official'[a] = {}
  BY <1>1 DEF PriceInv
<1>6. \A m \in DOMAIN preview' : QuotedAfter(m, preview'[m].bar)
  <2>1. \A m \in DOMAIN row : QuotedAfter(m, row[m].bar)
    BY <1>1, <1>2, PriceBefore DEF Written, AfterQuoted, InHand
  <2> HIDE DEF row
  <2> QED
    BY <1>1, <2>1, OverlaidRow, PriceBefore
<1> QED
  BY <1>1, <1>4, <1>5, <1>6, PriceBefore, PriceAfter

(* A page draws over rows of before the close only.                        *)
LEMMA ShowPrices ==
    ASSUME TapeTypes, PriceInv, TakenStay, NEW c \in Requesters, Show(c)
    PROVE  PriceInv'
<1> DEFINE r == request[c]
           bar == [m \in {r.minute} |-> Drawn(r)]
<1>1. /\ Becomes(c, Idle) /\ r.at = "show"
      /\ UNCHANGED <<clock, memory, preview, official, hiding, history>>
  BY DEF Show, Is
<1>2. \A d \in Requesters : PricedAfter(request'[d])
  BY <1>1, IdlePriced, BecomesPriced
<1>3. clock' # Closing => \A a \in Adjustflags : official'[a] = {}
  BY <1>1 DEF PriceInv
<1>4. AfterQuoted(live') /\ AfterFair(chart')
  <2>1. CASE clock = Closing
    BY <2>1, PriceBefore DEF Show
  <2>2. CASE clock # Closing
    <3>1. r \in TapeRequests /\ r.price \in Quotes /\ live \in BarMaps
      BY <1>1 DEF TapeTypes, InHand
    <3>2. Quoted(r.minute, Drawn(r))
      BY <1>1, <2>2, <3>1, DrawnIsQuoted DEF PriceInv
    <3>3. \A m \in DOMAIN bar : QuotedAfter(m, bar[m])
      BY <3>2, QuotedStays
    <3>4. live' = bar /\ (chart' = r.base \/ chart' = Overlaid(r.base, bar))
      BY <2>2 DEF Show
    <3> HIDE DEF bar
    <3>5. AfterFair(r.base)
      BY PriceBefore
    <3> HIDE DEF r
    <3>6. AfterFair(Overlaid(r.base, bar))
      BY <3>3, <3>5, OverlaidRow DEF AfterFair
    <3> QED
      BY <3>3, <3>4, <3>5, <3>6 DEF AfterQuoted
  <2> QED
    BY <2>1, <2>2
<1> QED
  BY <1>1, <1>2, <1>3, <1>4, PriceBefore, PriceAfter

LEMMA OfficialPrices ==
    ASSUME ~Midday, TapeTypes, PriceInv, TakenStay, NEW a \in Adjustflags, NEW last \in Minutes,
           StoreOfficial(a, last)
    PROVE  PriceInv'
<1>1. clock' = Closing /\ UNCHANGED <<clock, memory, live, preview, request, chart>>
  BY DEF StoreOfficial
<1>2. \A d \in Requesters : PricedAfter(request'[d])
  BY <1>1, OthersPriced
<1> QED
  BY <1>1, <1>2, PriceBefore, PriceAfter

LEMMA HidePrices == ASSUME TapeTypes, PriceInv, TakenStay, HideRows PROVE PriceInv'
<1>1. /\ preview' = Replaced(preview)
      /\ UNCHANGED <<clock, memory, live, official, request, chart>>
  BY DEF HideRows
<1>2. ASSUME NEW m \in DOMAIN preview' PROVE QuotedAfter(m, preview'[m].bar)
  <2>1. m \in DOMAIN preview /\ preview[m] \in PreviewRows
        /\ preview'[m] = [preview[m] EXCEPT !.hidden = TRUE]
    BY <1>1, <1>2, MembersOfPreviewMaps DEF Replaced, TapeTypes
  <2>2. preview'[m].bar = preview[m].bar
    BY <2>1 DEF PreviewRows
  <2> QED
    BY <2>1, <2>2, PriceBefore
<1>3. \A d \in Requesters : PricedAfter(request'[d])
  BY <1>1, OthersPriced
<1>4. clock' # Closing => \A a \in Adjustflags : official'[a] = {}
  BY <1>1 DEF PriceInv
<1> QED
  BY <1>1, <1>2, <1>3, <1>4, PriceBefore, PriceAfter

LEMMA RestartPrices == ASSUME TapeTypes, PriceInv, TakenStay, Restart PROVE PriceInv'
<1>1. /\ memory' = NoRows /\ live' = NoRows /\ request' = [c \in Requesters |-> Idle]
      /\ UNCHANGED <<clock, preview, official, chart>>
  BY DEF Restart
<1>2. AfterQuoted(memory') /\ AfterQuoted(live')
  BY <1>1, NoRowsTyped DEF AfterQuoted
<1>3. \A d \in Requesters : PricedAfter(request'[d])
  BY <1>1, IdlePriced
<1>4. clock' # Closing => \A a \in Adjustflags : official'[a] = {}
  BY <1>1 DEF PriceInv
<1> QED
  BY <1>1, <1>2, <1>3, <1>4, PriceBefore, PriceAfter

LEMMA PricesStart == ASSUME TapeInit PROVE PriceInv
  BY NoRowsTyped DEF TapeInit, PriceInv, AllQuoted, AllFair, Idle

LEMMA PricesNext ==
    ASSUME ~Midday, TapeTypes, TapeTypes', PriceInv, [TapeNext]_tapeVars
    PROVE  PriceInv'
<1>0. TakenStay
  BY TakingStays
<1>1. MinutePasses => PriceInv'
  BY <1>0, MinutePrices
<1>2. ASSUME NEW c \in Requesters, PageReads(c) \/ NoQuote(c) \/ Store(c) \/ Persist(c) \/ Show(c)
      PROVE  PriceInv'
  BY <1>0, <1>2, PageReadsPrices, NoQuotePrices, StorePrices, PersistPrices, ShowPrices
<1>3. ASSUME NEW c \in Requesters, NEW m \in Minutes, NEW p \in Quotes, Take(c, m, p)
      PROVE  PriceInv'
  BY <1>0, <1>3, TakePrices
<1>4. ASSUME NEW a \in Adjustflags, NEW last \in Minutes, StoreOfficial(a, last) PROVE PriceInv'
  BY <1>0, <1>4, OfficialPrices
<1>5. HideRows \/ Restart => PriceInv'
  BY <1>0, HidePrices, RestartPrices
<1>6. UNCHANGED tapeVars => PriceInv'
  <2>1. ASSUME UNCHANGED tapeVars PROVE UNCHANGED <<clock, memory, live, preview, official, request, chart>>
    BY <2>1 DEF tapeVars
  <2>2. ASSUME UNCHANGED tapeVars PROVE PriceInv'
    <3>1. \A d \in Requesters : PricedAfter(request'[d])
      BY <1>0, <2>1, <2>2, OthersPriced
    <3>2. clock' # Closing => \A a \in Adjustflags : official'[a] = {}
      BY <2>1, <2>2 DEF PriceInv
    <3> QED
      BY <1>0, <2>1, <2>2, <3>1, <3>2, PriceBefore, PriceAfter
  <2> QED
    BY <2>2
<1> QED
  BY <1>1, <1>2, <1>3, <1>4, <1>5, <1>6 DEF TapeNext
-----------------------------------------------------------------------------
(* The bars that a list of quotes makes. *)

TapeQuotes == [minute : Minutes, price : Quotes]
Bounded(S) == S \in SUBSET Int /\ HasMax(S) /\ HasMin(S)

(* The quotes of a minute from the given one on.                           *)
AtMinute(s, from, m) == {k \in from..Len(s) : s[k].minute = m}
PricesAt(s, ks) == {s[k].price : k \in ks}
MadeBy(s, bar, ks) ==
    /\ bar.open = s[Min(ks)].price /\ bar.close = s[Max(ks)].price
    /\ bar.high = Max(PricesAt(s, ks)) /\ bar.low = Min(PricesAt(s, ks))
    /\ bar.samples = Cardinality(ks)

(* Bars made of these quotes, the latest one open.                         *)
FoldIs(bars, s, from) ==
    /\ DOMAIN bars = {s[k].minute : k \in from..Len(s)}
    /\ \A m \in DOMAIN bars :
          /\ Bounded(AtMinute(s, from, m))
          /\ Bounded(PricesAt(s, AtMinute(s, from, m)))
          /\ MadeBy(s, bars[m], AtMinute(s, from, m))
          /\ bars[m].forming <=> m = s[Len(s)].minute

LEMMA MaxOfMore ==
    ASSUME NEW S, Bounded(S), NEW x \in Int
    PROVE  /\ Max(S \cup {x}) = (IF Max(S) >= x THEN Max(S) ELSE x)
           /\ Min(S \cup {x}) = (IF Min(S) =< x THEN Min(S) ELSE x)
           /\ Bounded(S \cup {x})
<1>1. /\ Max(S) \in S /\ \A y \in S : Max(S) >= y
      /\ Min(S) \in S /\ \A y \in S : Min(S) =< y
      /\ S \in SUBSET Int
  BY MaxHolds, MinHolds DEF Bounded
<1> DEFINE a == Max(S)
           b == Min(S)
           T == S \cup {x}
<1> HIDE DEF a, b
<1>2. /\ a \in S /\ a \in Int /\ \A y \in S : a >= y
      /\ b \in S /\ b \in Int /\ \A y \in S : b =< y
      /\ \A y \in S : y \in Int
  BY <1>1 DEF a, b
<1>3. T \in SUBSET Int /\ a \in T /\ b \in T /\ x \in T
  BY <1>2
<1>4. ASSUME a >= x PROVE Max(T) = a
  <2>1. \A y \in T : a >= y
    BY <1>2, <1>4
  <2> HIDE DEF T
  <2> QED
    BY <1>3, <2>1, MaxIs
<1>5. ASSUME ~(a >= x) PROVE Max(T) = x
  <2>1. \A y \in T : x >= y
    BY <1>2, <1>5
  <2> HIDE DEF T
  <2> QED
    BY <1>3, <2>1, MaxIs
<1>6. ASSUME b =< x PROVE Min(T) = b
  <2>1. \A y \in T : b =< y
    BY <1>2, <1>6
  <2> HIDE DEF T
  <2> QED
    BY <1>3, <2>1, MinIs
<1>7. ASSUME ~(b =< x) PROVE Min(T) = x
  <2>1. \A y \in T : x =< y
    BY <1>2, <1>7
  <2> HIDE DEF T
  <2> QED
    BY <1>3, <2>1, MinIs
<1>8. Bounded(T)
  BY <1>1, <1>3, OneMore DEF Bounded
<1>9. Max(T) = (IF a >= x THEN a ELSE x) /\ Min(T) = (IF b =< x THEN b ELSE x)
  BY <1>4, <1>5, <1>6, <1>7
<1> QED
  BY <1>8, <1>9 DEF a, b

LEMMA OneNumber == ASSUME NEW x \in Int PROVE Max({x}) = x /\ Min({x}) = x
<1>1. {x, x} = {x}
  OBVIOUS
<1> QED
  BY <1>1, TwoNumbers

LEMMA AppendedQuote ==
    ASSUME NEW s \in Seq(TapeQuotes), NEW from \in 1..Len(s) + 1, NEW q \in TapeQuotes
    PROVE  LET t == Append(s, q)
               n == Len(s) + 1
           IN  /\ n \in Nat /\ Len(t) = n /\ t[n] = q
               /\ \A k \in from..Len(s) : t[k] = s[k] /\ k < n /\ k \in Nat
               /\ from..n = (from..Len(s)) \cup {n}
               /\ n \notin from..Len(s)
  OBVIOUS

(* Which quotes a minute has when one more is taken.                       *)
LEMMA AtMinuteGrows ==
    ASSUME NEW s \in Seq(TapeQuotes), NEW from \in 1..Len(s) + 1, NEW q \in TapeQuotes, NEW m
    PROVE  AtMinute(Append(s, q), from, m) =
              AtMinute(s, from, m) \cup (IF q.minute = m THEN {Len(s) + 1} ELSE {})
<1> DEFINE t == Append(s, q)
           n == Len(s) + 1
<1>1. /\ Len(t) = n /\ t[n] = q /\ \A k \in from..Len(s) : t[k] = s[k]
      /\ from..n = (from..Len(s)) \cup {n}
  BY AppendedQuote
<1> HIDE DEF t, n
<1>2. AtMinute(t, from, m) = AtMinute(s, from, m) \cup (IF q.minute = m THEN {n} ELSE {})
  BY <1>1 DEF AtMinute
<1> QED
  BY <1>2 DEF t, n

(* The bar of another minute.                                              *)
LEMMA OtherMinute ==
    ASSUME NEW s \in Seq(TapeQuotes), NEW from \in 1..Len(s) + 1, NEW q \in TapeQuotes,
           NEW m, m # q.minute, NEW b \in MinuteBars,
           Bounded(AtMinute(s, from, m)),
           Bounded(PricesAt(s, AtMinute(s, from, m))),
           MadeBy(s, b, AtMinute(s, from, m))
    PROVE  /\ AtMinute(Append(s, q), from, m) = AtMinute(s, from, m)
           /\ PricesAt(Append(s, q), AtMinute(s, from, m)) = PricesAt(s, AtMinute(s, from, m))
           /\ MadeBy(Append(s, q), [b EXCEPT !.forming = FALSE], AtMinute(s, from, m))
<1> DEFINE t == Append(s, q)
           K == AtMinute(s, from, m)
           d == [b EXCEPT !.forming = FALSE]
<1>1. AtMinute(t, from, m) = K
  <2>1. AtMinute(t, from, m) = K \cup (IF q.minute = m THEN {Len(s) + 1} ELSE {})
    BY AtMinuteGrows
  <2> HIDE DEF t, K
  <2> QED
    BY <2>1
<1>2. \A k \in K : t[k] = s[k]
  BY AppendedQuote DEF AtMinute
<1>3. /\ d.open = b.open /\ d.high = b.high /\ d.low = b.low /\ d.close = b.close
      /\ d.samples = b.samples
  BY ClosedBar
<1> HIDE DEF t, K, d
<1>4. PricesAt(t, K) = PricesAt(s, K)
  BY <1>2 DEF PricesAt
<1>5. Min(K) \in K /\ Max(K) \in K
  BY MaxHolds, MinHolds DEF Bounded, K
<1>6. MadeBy(t, d, K)
  BY <1>2, <1>3, <1>4, <1>5 DEF MadeBy, K
<1> QED
  BY <1>1, <1>4, <1>6 DEF t, K, d

(* The bar of the minute of the quote goes on.                             *)
LEMMA SameMinute ==
    ASSUME NEW s \in Seq(TapeQuotes), NEW from \in 1..Len(s) + 1,
           NEW m \in Minutes, NEW p \in Quotes, NEW b \in MinuteBars,
           Bounded(AtMinute(s, from, m)),
           Bounded(PricesAt(s, AtMinute(s, from, m))),
           MadeBy(s, b, AtMinute(s, from, m))
    PROVE  LET t == Append(s, [minute |-> m, price |-> p])
               K == AtMinute(t, from, m)
           IN  Bounded(K) /\ Bounded(PricesAt(t, K)) /\ MadeBy(t, Folded(b, p), K)
<1> DEFINE q == [minute |-> m, price |-> p]
           t == Append(s, q)
           n == Len(s) + 1
           J == AtMinute(s, from, m)
           K == AtMinute(t, from, m)
           d == Folded(b, p)
<1>0. q \in TapeQuotes /\ q.minute = m /\ q.price = p /\ p \in Int
  BY TapeBounds DEF TapeQuotes
<1>1. K = J \cup {n} /\ n \in Nat /\ n \in Int
  BY <1>0, AtMinuteGrows
<1>2. \A k \in J : t[k] = s[k] /\ k < n /\ k \in Nat
  BY <1>0, AppendedQuote DEF AtMinute
<1>3. t[n] = q /\ n \notin J
  BY <1>0, AppendedQuote DEF AtMinute
<1>4. IsFiniteSet(J)
  <2>1. J \subseteq from..Len(s)
    BY DEF AtMinute
  <2>2. IsFiniteSet(from..Len(s))
    BY FS_Interval
  <2> QED
    BY <2>1, <2>2, FS_Subset
<1>5. /\ d.open = b.open /\ d.close = p /\ d.samples = b.samples + 1
      /\ d.high = (IF b.high >= p THEN b.high ELSE p)
      /\ d.low = (IF b.low =< p THEN b.low ELSE p)
  BY FoldedBar
<1> HIDE DEF q, t, n, J, K, d
<1>6. Bounded(J) /\ Bounded(PricesAt(s, J)) /\ MadeBy(s, b, J)
  BY DEF J
<1>7. Min(J) \in J /\ Max(J) \in J
  BY <1>6, MaxHolds, MinHolds DEF Bounded
<1>8. Bounded(K) /\ Max(K) = n /\ Min(K) = Min(J)
  <2>1. /\ Max(K) = (IF Max(J) >= n THEN Max(J) ELSE n)
        /\ Min(K) = (IF Min(J) =< n THEN Min(J) ELSE n)
        /\ Bounded(K)
    BY <1>1, <1>6, MaxOfMore
  <2>2. Max(J) < n /\ Min(J) < n /\ Max(J) \in Nat /\ Min(J) \in Nat
    BY <1>2, <1>7
  <2> QED
    BY <1>1, <2>1, <2>2
<1>9. PricesAt(t, K) = PricesAt(s, J) \cup {p}
  BY <1>0, <1>1, <1>2, <1>3 DEF PricesAt
<1>10. /\ Max(PricesAt(t, K)) = d.high
       /\ Min(PricesAt(t, K)) = d.low
       /\ Bounded(PricesAt(t, K))
  BY <1>0, <1>5, <1>6, <1>9, MaxOfMore DEF MadeBy
<1>11. Cardinality(K) = Cardinality(J) + 1
  BY <1>1, <1>3, <1>4, FS_AddElement
<1>12. MadeBy(t, d, K)
  BY <1>0, <1>2, <1>3, <1>5, <1>6, <1>7, <1>8, <1>10, <1>11 DEF MadeBy
<1> QED
  BY <1>8, <1>10, <1>12 DEF t, K, d, q

(* The first bar of a minute.                                              *)
LEMMA NewMinute ==
    ASSUME NEW s \in Seq(TapeQuotes), NEW from \in 1..Len(s) + 1,
           NEW m \in Minutes, NEW p \in Quotes, AtMinute(s, from, m) = {}
    PROVE  LET t == Append(s, [minute |-> m, price |-> p])
               K == AtMinute(t, from, m)
           IN  Bounded(K) /\ Bounded(PricesAt(t, K)) /\ MadeBy(t, FirstOf(p), K)
<1> DEFINE q == [minute |-> m, price |-> p]
           t == Append(s, q)
           n == Len(s) + 1
           K == AtMinute(t, from, m)
<1>0. q \in TapeQuotes /\ q.minute = m /\ q.price = p /\ p \in Int
  BY TapeBounds DEF TapeQuotes
<1>1. K = {n} /\ n \in Int
  BY <1>0, AtMinuteGrows
<1>2. t[n] = q
  BY <1>0, AppendedQuote
<1> HIDE DEF q, t, n, K
<1>3. PricesAt(t, K) = {p}
  BY <1>0, <1>1, <1>2 DEF PricesAt
<1>4. Bounded({n}) /\ Bounded({p})
  BY <1>0, <1>1, OneMore DEF Bounded
<1>5. Max({n}) = n /\ Min({n}) = n /\ Max({p}) = p /\ Min({p}) = p
  BY <1>0, <1>1, OneNumber
<1>6. Cardinality({n}) = 1
  BY FS_Singleton
<1>7. MadeBy(t, FirstOf(p), K)
  BY <1>0, <1>1, <1>2, <1>3, <1>5, <1>6 DEF MadeBy, FirstOf
<1> QED
  BY <1>1, <1>3, <1>4, <1>7 DEF t, K, q

(* A quote folded into the bars of the quotes before it gives the bars of  *)
(* all of them.                                                            *)
LEMMA FoldGrows ==
    ASSUME NEW s \in Seq(TapeQuotes), NEW from \in 1..Len(s) + 1, NEW bars \in BarMaps,
           NEW m \in Minutes, NEW p \in Quotes, FoldIs(bars, s, from)
    PROVE  FoldIs(Ingested(bars, m, p), Append(s, [minute |-> m, price |-> p]), from)
<1> DEFINE q == [minute |-> m, price |-> p]
           t == Append(s, q)
           n == Len(s) + 1
           next == Ingested(bars, m, p)
<1>0. q \in TapeQuotes /\ q.minute = m /\ q.price = p
  BY DEF TapeQuotes
<1>1. /\ Len(t) = n /\ t[n] = q /\ \A k \in from..Len(s) : t[k] = s[k]
      /\ from..n = (from..Len(s)) \cup {n}
  BY <1>0, AppendedQuote
<1>2. DOMAIN next = DOMAIN bars \cup {m}
  BY IngestedTyped
<1>3. DOMAIN bars = {s[k].minute : k \in from..Len(s)}
  BY DEF FoldIs
<1>4. DOMAIN next = {t[k].minute : k \in from..Len(t)}
  <2> HIDE DEF t, n, next, q
  <2> QED
    BY <1>0, <1>1, <1>2, <1>3
<1>5. \A x \in DOMAIN bars :
         /\ Bounded(AtMinute(s, from, x))
         /\ Bounded(PricesAt(s, AtMinute(s, from, x)))
         /\ MadeBy(s, bars[x], AtMinute(s, from, x))
  BY DEF FoldIs
<1>6. \A x \in DOMAIN bars : bars[x] \in MinuteBars
  BY MembersOfBarMaps
<1>7. ASSUME NEW x \in DOMAIN next
      PROVE  /\ Bounded(AtMinute(t, from, x))
             /\ Bounded(PricesAt(t, AtMinute(t, from, x)))
             /\ MadeBy(t, next[x], AtMinute(t, from, x))
             /\ next[x].forming <=> x = m
  <2>1. CASE x # m
    <3>1. x \in DOMAIN bars /\ x # q.minute
      BY <1>0, <1>2, <1>7, <2>1
    <3>2. next[x] = [bars[x] EXCEPT !.forming = FALSE]
      BY <2>1, <3>1 DEF Ingested
    <3>3. ~next[x].forming
      BY <1>6, <3>1, <3>2, ClosedBar
    <3>4. /\ AtMinute(t, from, x) = AtMinute(s, from, x)
          /\ PricesAt(t, AtMinute(s, from, x)) = PricesAt(s, AtMinute(s, from, x))
          /\ MadeBy(t, [bars[x] EXCEPT !.forming = FALSE], AtMinute(s, from, x))
      BY <1>0, <1>5, <1>6, <3>1, OtherMinute
    <3> HIDE DEF t, next
    <3> QED
      BY <1>5, <2>1, <3>1, <3>2, <3>3, <3>4
  <2>2. CASE x = m /\ m \in DOMAIN bars
    <3>1. next[x] = Folded(bars[m], p)
      BY <2>2 DEF Ingested
    <3>2. Folded(bars[m], p).forming
      BY <1>6, <2>2, FoldedBar
    <3>3. LET K == AtMinute(t, from, m)
          IN  Bounded(K) /\ Bounded(PricesAt(t, K)) /\ MadeBy(t, Folded(bars[m], p), K)
      BY <1>5, <1>6, <2>2, SameMinute
    <3> HIDE DEF t, next
    <3> QED
      BY <2>2, <3>1, <3>2, <3>3
  <2>3. CASE x = m /\ m \notin DOMAIN bars
    <3>1. next[x] = FirstOf(p)
      BY <2>3 DEF Ingested
    <3>2. FirstOf(p).forming
      BY DEF FirstOf
    <3>3. AtMinute(s, from, m) = {}
      BY <1>3, <2>3 DEF AtMinute
    <3>4. LET K == AtMinute(t, from, m)
          IN  Bounded(K) /\ Bounded(PricesAt(t, K)) /\ MadeBy(t, FirstOf(p), K)
      BY <3>3, NewMinute
    <3> HIDE DEF t, next
    <3> QED
      BY <2>3, <3>1, <3>2, <3>4
  <2> QED
    BY <2>1, <2>2, <2>3
<1>8. t[Len(t)].minute = m
  BY <1>0, <1>1
<1> HIDE DEF t, next
<1>9. FoldIs(next, t, from)
  BY <1>4, <1>7, <1>8 DEF FoldIs
<1> QED
  BY <1>9 DEF t, next, q
-----------------------------------------------------------------------------
(* Memory, the intraday lake and the rows that are hidden. *)

Chronological ==
    \A j, k \in 1..Len(taken) : j =< k => taken[j].minute =< taken[k].minute
OneHolds ==
    \A c, d \in Requesters : request[c].at \in Holding /\ request[d].at \in Holding => c = d

(* Quotes come in the order of their minutes and one at a time; the rows   *)
(* of the request that has not stored its own yet, and memory otherwise,   *)
(* are the bars of all quotes.                                             *)
FoldInv ==
    /\ Chronological /\ OneHolds
    /\ (\A c \in Requesters : request[c].at # "store") => FoldIs(memory, taken, born + 1)
    /\ \A c \in Requesters :
          /\ request[c].at = "store" => FoldIs(request[c].rows, taken, born + 1)
          /\ request[c].at = "persist" => request[c].rows = memory

ClosedOf(bar) == [bar EXCEPT !.forming = FALSE]
Laked(rows, m, bar) == m \in DOMAIN rows /\ ClosedOf(rows[m].bar) = ClosedOf(bar)

(* Before its bar is written only the minute of the quote in hand is       *)
(* behind.                                                                 *)
TapeLakeInv ==
    faults = 0 =>
        /\ (\A c \in Requesters : request[c].at \notin {"store", "persist"}) =>
              \A m \in DOMAIN memory : Laked(preview, m, memory[m])
        /\ \A c \in Requesters : request[c].at \in {"store", "persist"} =>
              \A m \in DOMAIN request[c].rows :
                  m # request[c].minute => Laked(preview, m, request[c].rows[m])

HiddenInv ==
    /\ hiding => \E a \in Adjustflags : official[a] = Minutes
    /\ HiddenIsReplaced

LEMMA RequestsThen ==
    ASSUME TapeTypes, NEW c \in Requesters, NEW r, Becomes(c, r)
    PROVE  \A d \in Requesters : request'[d] = IF d = c THEN r ELSE request[d]
  BY DEF TapeTypes, Becomes

(* No quote comes before the last one.                                     *)
LEMMA LatestIsLast ==
    ASSUME TapeTypes, Chronological, NEW k \in 1..Len(taken)
    PROVE  taken[k].minute =< LastTaken
<1> DEFINE S == {taken[j].minute : j \in DOMAIN taken}
           n == Len(taken)
<1>1. taken \in Seq(TapeQuotes) /\ \A q \in TapeQuotes : q.minute \in Int
  BY DEF TapeTypes, TapeQuotes, Minutes
<1>2. DOMAIN taken = 1..n /\ n \in 1..n /\ \A j \in 1..n : taken[j].minute \in Int
  <2>1. DOMAIN taken = 1..n /\ n \in Nat
    BY <1>1
  <2>2. \A j \in 1..n : taken[j] \in TapeQuotes
    BY <1>1
  <2>3. n \in 1..n
    BY <2>1
  <2> QED
    BY <1>1, <2>1, <2>2, <2>3
<1>3. taken[n].minute \in S /\ S \in SUBSET Int /\ taken[k].minute \in S
  BY <1>2
<1>4. \A j \in 1..n : taken[n].minute >= taken[j].minute
  BY <1>2 DEF Chronological
<1>5. \A y \in S : taken[n].minute >= y
  BY <1>2, <1>4
<1> HIDE DEF S
<1>6. Max(S) = taken[n].minute
  BY <1>3, <1>5, MaxIs
<1>7. LastTaken = Max(S)
  BY <1>1 DEF LastTaken, S
<1> QED
  BY <1>4, <1>6, <1>7

-----------------------------------------------------------------------------
(* FoldInv. *)

LEMMA FoldQuiet ==
    ASSUME TapeTypes, FoldInv, NEW c \in Requesters, NEW r, Becomes(c, r),
           r.at \notin {"store", "persist"}, request[c].at # "store",
           r.at \in Holding => request[c].at \in Holding,
           UNCHANGED <<memory, taken, born>>
    PROVE  FoldInv'
<1>1. \A d \in Requesters : request'[d] = IF d = c THEN r ELSE request[d]
  BY RequestsThen
<1>2. Chronological'
  BY DEF FoldInv, Chronological
<1>3. OneHolds'
  BY <1>1 DEF FoldInv, OneHolds
<1>4. (\A d \in Requesters : request'[d].at # "store") => FoldIs(memory', taken', born' + 1)
  BY <1>1 DEF FoldInv
<1>5. \A d \in Requesters :
         /\ request'[d].at = "store" => FoldIs(request'[d].rows, taken', born' + 1)
         /\ request'[d].at = "persist" => request'[d].rows = memory'
  BY <1>1 DEF FoldInv
<1> QED
  BY <1>2, <1>3, <1>4, <1>5 DEF FoldInv

LEMMA QuietSteps ==
    ASSUME TapeTypes, NEW c \in Requesters, PageReads(c) \/ NoQuote(c) \/ Show(c)
    PROVE  \E r \in TapeRequests :
              /\ Becomes(c, r) /\ r.at \in {"idle", "quote"}
              /\ request[c].at \notin {"store", "persist"}
              /\ UNCHANGED <<memory, preview, official, hiding, history>>
<1>1. CASE PageReads(c)
  <2> DEFINE r == [Idle EXCEPT !.at = "quote", !.base = PageRows]
  <2>1. /\ Becomes(c, r) /\ request[c].at = "idle"
        /\ UNCHANGED <<memory, preview, official, hiding, history>>
    BY <1>1 DEF PageReads, Is
  <2>2. Idle \in TapeRequests /\ PageRows \in BarMaps /\ "quote" \in Places
    BY IdleTyped, PageRowsTyped DEF Places
  <2>3. r \in TapeRequests
    BY <2>2, ZenonT(60) DEF TapeRequests
  <2>4. r.at = "quote"
    BY DEF Idle
  <2> QED
    BY <2>1, <2>3, <2>4
<1>2. CASE NoQuote(c)
  BY <1>2, IdleTyped DEF NoQuote, Is
<1>3. CASE Show(c)
  BY <1>3, IdleTyped DEF Show, Is
<1> QED
  BY <1>1, <1>2, <1>3

LEMMA PersistStep ==
    ASSUME TapeTypes, NEW c \in Requesters, Persist(c)
    PROVE  \E s \in TapeRequests :
              /\ Becomes(c, s) /\ s.at \in {"idle", "show"} /\ request[c].at = "persist"
              /\ UNCHANGED <<memory, taken, born>>
<1>1. /\ Becomes(c, IF c \in Pages THEN [request[c] EXCEPT !.at = "show"] ELSE Idle)
      /\ request[c].at = "persist" /\ UNCHANGED <<memory, taken, born>>
  BY DEF Persist, Is
<1>2. CASE c \in Pages
  <2>1. request[c] \in TapeRequests /\ "show" \in Places
    BY DEF TapeTypes, Places
  <2>2. [request[c] EXCEPT !.at = "show"] \in TapeRequests /\ [request[c] EXCEPT !.at = "show"].at = "show"
    BY <2>1, AskedFields
  <2> QED
    BY <1>1, <1>2, <2>2
<1>3. CASE c \notin Pages
  BY <1>1, <1>3, IdleTyped
<1> QED
  BY <1>2, <1>3

LEMMA TakeFold ==
    ASSUME ~Threads, ~OutOfOrder, TapeTypes, FoldInv, NEW c \in Requesters,
           NEW m \in Minutes, NEW p \in Quotes, Take(c, m, p)
    PROVE  FoldInv'
<1> DEFINE rows == Ingested(memory, m, p)
           r == WithQuote(request[c], m, p, rows)
           q == [minute |-> m, price |-> p]
<1>1. /\ Becomes(c, r) /\ taken' = Append(taken, q) /\ memory' = memory /\ born' = born
  BY DEF Take, WithQuote
<1>2. \A d \in Requesters : request[d].at \in {"idle", "quote"}
  BY DEF Take, LoopIsFree, Is
<1>3. m >= LastTaken
  BY DEF Take
<1>4. taken \in Seq(TapeQuotes) /\ born + 1 \in 1..Len(taken) + 1 /\ memory \in BarMaps
  BY DEF TapeTypes, TapeQuotes
<1>5. FoldIs(memory, taken, born + 1)
  BY <1>2 DEF FoldInv
<1>6. FoldIs(rows, Append(taken, q), born + 1)
  BY <1>4, <1>5, FoldGrows
<1>7. rows \in BarMaps /\ request[c] \in TapeRequests
  BY <1>4, IngestedTyped DEF TapeTypes
<1> HIDE DEF rows
<1>8. r.at = "store" /\ r.rows = rows
  BY <1>7, WithQuoteTyped
<1> HIDE DEF r
<1>9. \A d \in Requesters : request'[d] = IF d = c THEN r ELSE request[d]
  BY <1>1, RequestsThen
<1>10. Chronological'
  <2> DEFINE n == Len(taken) + 1
  <2>1. Len(taken') = n /\ n \in Nat /\ taken'[n].minute = m /\ m \in Int
    BY <1>1, <1>4 DEF Minutes
  <2>2. \A k \in 1..Len(taken) : taken'[k] = taken[k] /\ taken[k].minute =< m
    <3>1. \A k \in 1..Len(taken) : taken'[k] = taken[k] /\ taken[k].minute \in Int
      <4>1. \A k \in 1..Len(taken) : taken[k] \in TapeQuotes
        BY <1>4
      <4>2. \A k \in 1..Len(taken) : taken'[k] = taken[k]
        BY <1>1, <1>4
      <4> QED
        BY <4>1, <4>2 DEF TapeQuotes, Minutes
    <3>2. \A k \in 1..Len(taken) : taken[k].minute =< LastTaken
      BY LatestIsLast DEF FoldInv
    <3>3. LastTaken \in Int
      <4>1. taken = <<>> => LastTaken \in Int
        BY DEF LastTaken
      <4>2. ASSUME taken # <<>> PROVE LastTaken \in Int
        <5> DEFINE S == {taken[j].minute : j \in DOMAIN taken}
        <5>1. DOMAIN taken = 1..Len(taken) /\ Len(taken) \in 1..Len(taken)
          BY <1>4, <4>2
        <5>2. \A j \in 1..Len(taken) : taken[Len(taken)].minute >= taken[j].minute
          BY <3>1, <5>1 DEF FoldInv, Chronological
        <5>3. /\ taken[Len(taken)].minute \in S /\ S \in SUBSET Int
              /\ \A y \in S : taken[Len(taken)].minute >= y
          BY <3>1, <5>1, <5>2
        <5> HIDE DEF S
        <5>4. Max(S) = taken[Len(taken)].minute
          BY <5>3, MaxIs
        <5> QED
          BY <4>2, <5>3, <5>4 DEF LastTaken, S
      <4> QED
        BY <4>1, <4>2
    <3> QED
      BY <1>3, <2>1, <3>1, <3>2, <3>3
  <2> SUFFICES ASSUME NEW j \in 1..n, NEW k \in 1..n, j =< k
               PROVE  taken'[j].minute =< taken'[k].minute
    BY <2>1 DEF Chronological
  <2>3. CASE k = n
    BY <2>1, <2>2, <2>3
  <2>4. CASE k # n
    <3>1. j \in 1..Len(taken) /\ k \in 1..Len(taken)
      BY <2>4, <1>4
    <3> QED
      BY <2>2, <3>1 DEF FoldInv, Chronological
  <2> QED
    BY <2>3, <2>4
<1>11. OneHolds'
  BY <1>2, <1>9 DEF OneHolds, Holding
<1>12. c \in Requesters /\ request'[c].at = "store"
  BY <1>8, <1>9
<1>13. \A d \in Requesters :
          /\ request'[d].at = "store" => FoldIs(request'[d].rows, taken', born' + 1)
          /\ request'[d].at = "persist" => request'[d].rows = memory'
  BY <1>1, <1>2, <1>6, <1>8, <1>9
<1> QED
  BY <1>10, <1>11, <1>12, <1>13 DEF FoldInv

LEMMA StoreStep ==
    ASSUME TapeTypes, NEW c \in Requesters, Store(c)
    PROVE  \E r \in TapeRequests :
              /\ Becomes(c, r) /\ r.at = "persist" /\ request[c].at = "store"
              /\ r.rows = request[c].rows /\ r.minute = request[c].minute
              /\ memory' = request[c].rows /\ UNCHANGED <<preview, taken, born, faults>>
<1>1. request[c] \in TapeRequests /\ "persist" \in Places
  BY DEF TapeTypes, Places
<1>2. [request[c] EXCEPT !.at = "persist"] \in TapeRequests
  BY <1>1, AskedFields
<1>3. /\ [request[c] EXCEPT !.at = "persist"].at = "persist"
      /\ [request[c] EXCEPT !.at = "persist"].rows = request[c].rows
      /\ [request[c] EXCEPT !.at = "persist"].minute = request[c].minute
  BY <1>1 DEF TapeRequests
<1> QED
  BY <1>2, <1>3 DEF Store, Is, history

LEMMA StoreFold ==
    ASSUME TapeTypes, FoldInv, NEW c \in Requesters, Store(c)
    PROVE  FoldInv'
<1>1. PICK r \in TapeRequests :
         /\ Becomes(c, r) /\ r.at = "persist" /\ request[c].at = "store"
         /\ r.rows = request[c].rows /\ memory' = request[c].rows
         /\ UNCHANGED <<taken, born>>
  BY StoreStep
<1>2. \A d \in Requesters : request'[d] = IF d = c THEN r ELSE request[d]
  BY <1>1, RequestsThen
<1>3. \A d \in Requesters : d # c => request[d].at \notin Holding
  BY <1>1 DEF FoldInv, OneHolds, Holding
<1>4. Chronological'
  BY <1>1 DEF FoldInv, Chronological
<1>5. OneHolds'
  BY <1>2, <1>3 DEF OneHolds
<1>6. FoldIs(memory', taken', born' + 1)
  BY <1>1 DEF FoldInv
<1>7. \A d \in Requesters :
         /\ request'[d].at = "store" => FoldIs(request'[d].rows, taken', born' + 1)
         /\ request'[d].at = "persist" => request'[d].rows = memory'
  BY <1>1, <1>2, <1>3 DEF Holding
<1> QED
  BY <1>4, <1>5, <1>6, <1>7 DEF FoldInv

LEMMA NothingIsFold ==
    ASSUME NEW s \in Seq(TapeQuotes)
    PROVE  FoldIs(NoRows, s, Len(s) + 1)
  BY NoRowsTyped DEF FoldIs

LEMMA RestartFold == ASSUME TapeTypes, FoldInv, Restart PROVE FoldInv'
<1>1. /\ memory' = NoRows /\ taken' = taken /\ born' = Len(taken)
      /\ request' = [c \in Requesters |-> Idle]
  BY DEF Restart
<1>2. \A c \in Requesters : request'[c].at = "idle"
  BY <1>1, IdleTyped
<1>3. taken \in Seq(TapeQuotes)
  BY DEF TapeTypes, TapeQuotes
<1>4. FoldIs(memory', taken', born' + 1)
  BY <1>1, <1>3, NothingIsFold
<1>5. Chronological' /\ OneHolds'
  BY <1>1, <1>2 DEF FoldInv, Chronological, OneHolds, Holding
<1> QED
  BY <1>2, <1>4, <1>5 DEF FoldInv

LEMMA FoldStart == ASSUME TapeInit PROVE FoldInv
<1>1. /\ memory = NoRows /\ taken = <<>> /\ born = 0
      /\ request = [c \in Requesters |-> Idle]
  BY DEF TapeInit
<1>2. \A c \in Requesters : request[c].at = "idle"
  BY <1>1, IdleTyped
<1>3. taken \in Seq(TapeQuotes) /\ Len(taken) = 0
  BY <1>1
<1>4. FoldIs(memory, taken, born + 1)
  BY <1>1, <1>3, NothingIsFold
<1>5. Chronological /\ OneHolds
  BY <1>2, <1>3 DEF Chronological, OneHolds, Holding
<1> QED
  BY <1>2, <1>4, <1>5 DEF FoldInv

LEMMA FoldStays ==
    ASSUME FoldInv, UNCHANGED <<memory, taken, born, request>>
    PROVE  FoldInv'
  BY DEF FoldInv, Chronological, OneHolds

LEMMA FoldNext ==
    ASSUME ~Threads, ~OutOfOrder, TapeTypes, FoldInv, [TapeNext]_tapeVars
    PROVE  FoldInv'
<1>1. MinutePasses \/ HideRows \/ UNCHANGED tapeVars => FoldInv'
  BY FoldStays DEF MinutePasses, HideRows, tapeVars, history
<1>2. ASSUME NEW a \in Adjustflags, NEW last \in Minutes, StoreOfficial(a, last) PROVE FoldInv'
  BY <1>2, FoldStays DEF StoreOfficial, history
<1>3. ASSUME NEW c \in Requesters, PageReads(c) \/ NoQuote(c) \/ Show(c) PROVE FoldInv'
  <2>1. PICK r \in TapeRequests :
           /\ Becomes(c, r) /\ r.at \in {"idle", "quote"}
           /\ request[c].at \notin {"store", "persist"}
           /\ UNCHANGED <<memory, preview, official, hiding, history>>
    BY <1>3, QuietSteps
  <2>2. /\ r.at \notin {"store", "persist"} /\ request[c].at # "store" /\ r.at \notin Holding
        /\ UNCHANGED <<memory, taken, born>>
    BY <2>1 DEF Holding, history
  <2> QED
    BY <2>1, <2>2, FoldQuiet
<1>4. ASSUME NEW c \in Requesters, Persist(c) PROVE FoldInv'
  <2>1. PICK r \in TapeRequests :
           /\ Becomes(c, r) /\ r.at \in {"idle", "show"} /\ request[c].at = "persist"
           /\ UNCHANGED <<memory, taken, born>>
    BY <1>4, PersistStep
  <2>2. r.at \notin {"store", "persist"} /\ request[c].at # "store" /\ request[c].at \in Holding
    BY <2>1 DEF Holding
  <2> QED
    BY <2>1, <2>2, FoldQuiet
<1>5. ASSUME NEW c \in Requesters, Store(c) PROVE FoldInv'
  BY <1>5, StoreFold
<1>6. ASSUME NEW c \in Requesters, NEW m \in Minutes, NEW p \in Quotes, Take(c, m, p) PROVE FoldInv'
  BY <1>6, TakeFold
<1>7. Restart => FoldInv'
  BY RestartFold
<1> QED
  BY <1>1, <1>2, <1>3, <1>4, <1>5, <1>6, <1>7 DEF TapeNext
-----------------------------------------------------------------------------
(* The intraday lake. *)

LEMMA ClosedTwice ==
    ASSUME NEW b \in MinuteBars
    PROVE  ClosedOf(ClosedOf(b)) = ClosedOf(b)
  BY DEF ClosedOf, MinuteBars

LEMMA LakeQuiet ==
    ASSUME TapeTypes, TapeLakeInv, NEW c \in Requesters, NEW r, Becomes(c, r),
           r.at \notin {"store", "persist"}, request[c].at \notin {"store", "persist"},
           UNCHANGED <<memory, preview, faults>>
    PROVE  TapeLakeInv'
<1>1. \A d \in Requesters : request'[d] = IF d = c THEN r ELSE request[d]
  BY RequestsThen
<1> SUFFICES ASSUME faults' = 0
             PROVE  /\ (\A d \in Requesters : request'[d].at \notin {"store", "persist"}) =>
                          \A m \in DOMAIN memory' : Laked(preview', m, memory'[m])
                    /\ \A d \in Requesters : request'[d].at \in {"store", "persist"} =>
                          \A m \in DOMAIN request'[d].rows :
                             m # request'[d].minute => Laked(preview', m, request'[d].rows[m])
  BY DEF TapeLakeInv
<1>2. (\A d \in Requesters : request'[d].at \notin {"store", "persist"}) =>
         \A m \in DOMAIN memory' : Laked(preview', m, memory'[m])
  BY <1>1 DEF TapeLakeInv
<1>3. ASSUME NEW d \in Requesters, request'[d].at \in {"store", "persist"}
      PROVE  \A m \in DOMAIN request'[d].rows :
                m # request'[d].minute => Laked(preview', m, request'[d].rows[m])
  <2>1. request'[d] = request[d] /\ preview' = preview
    BY <1>1, <1>3
  <2> QED
    BY <1>3, <2>1 DEF TapeLakeInv
<1> QED
  BY <1>2, <1>3

LEMMA TakeLake ==
    ASSUME ~Threads, TapeTypes, TapeLakeInv, NEW c \in Requesters,
           NEW m \in Minutes, NEW p \in Quotes, Take(c, m, p)
    PROVE  TapeLakeInv'
<1> DEFINE rows == Ingested(memory, m, p)
           r == WithQuote(request[c], m, p, rows)
<1>1. Becomes(c, r) /\ UNCHANGED <<memory, preview, faults>>
  BY DEF Take, WithQuote
<1>2. \A d \in Requesters : request[d].at \in {"idle", "quote"}
  BY DEF Take, LoopIsFree, Is
<1>3. rows \in BarMaps /\ request[c] \in TapeRequests /\ memory \in BarMaps
      /\ DOMAIN rows = DOMAIN memory \cup {m}
  BY IngestedTyped DEF TapeTypes
<1>4. \A k \in DOMAIN rows : k # m => k \in DOMAIN memory /\ rows[k] = ClosedOf(memory[k])
  BY <1>3 DEF Ingested, ClosedOf
<1> HIDE DEF rows
<1>5. r.at = "store" /\ r.rows = rows /\ r.minute = m
  BY <1>3, WithQuoteTyped
<1> HIDE DEF r
<1>6. \A d \in Requesters : request'[d] = IF d = c THEN r ELSE request[d]
  BY <1>1, RequestsThen
<1> SUFFICES ASSUME faults' = 0
             PROVE  /\ (\A d \in Requesters : request'[d].at \notin {"store", "persist"}) =>
                          \A k \in DOMAIN memory' : Laked(preview', k, memory'[k])
                    /\ \A d \in Requesters : request'[d].at \in {"store", "persist"} =>
                          \A k \in DOMAIN request'[d].rows :
                             k # request'[d].minute => Laked(preview', k, request'[d].rows[k])
  BY DEF TapeLakeInv
<1>7. \A k \in DOMAIN memory : Laked(preview, k, memory[k])
  BY <1>1, <1>2 DEF TapeLakeInv
<1>8. ASSUME NEW k \in DOMAIN rows, k # m PROVE Laked(preview, k, rows[k])
  <2>1. k \in DOMAIN memory /\ rows[k] = ClosedOf(memory[k]) /\ memory[k] \in MinuteBars
    BY <1>3, <1>4, <1>8, MembersOfBarMaps
  <2>2. ClosedOf(rows[k]) = ClosedOf(memory[k])
    BY <2>1, ClosedTwice
  <2> QED
    BY <1>7, <2>1, <2>2 DEF Laked
<1>9. request'[c].at = "store"
  BY <1>5, <1>6
<1>10. ASSUME NEW d \in Requesters, request'[d].at \in {"store", "persist"}
       PROVE  request'[d] = r
  BY <1>2, <1>6, <1>10
<1> QED
  BY <1>1, <1>5, <1>8, <1>9, <1>10

LEMMA StoreLake ==
    ASSUME TapeTypes, FoldInv, TapeLakeInv, NEW c \in Requesters, Store(c)
    PROVE  TapeLakeInv'
<1>1. PICK r \in TapeRequests :
         /\ Becomes(c, r) /\ r.at = "persist" /\ request[c].at = "store"
         /\ r.rows = request[c].rows /\ r.minute = request[c].minute
         /\ UNCHANGED <<preview, faults>>
  BY StoreStep
<1>2. \A d \in Requesters : request'[d] = IF d = c THEN r ELSE request[d]
  BY <1>1, RequestsThen
<1> SUFFICES ASSUME faults' = 0
             PROVE  /\ (\A d \in Requesters : request'[d].at \notin {"store", "persist"}) =>
                          \A k \in DOMAIN memory' : Laked(preview', k, memory'[k])
                    /\ \A d \in Requesters : request'[d].at \in {"store", "persist"} =>
                          \A k \in DOMAIN request'[d].rows :
                             k # request'[d].minute => Laked(preview', k, request'[d].rows[k])
  BY DEF TapeLakeInv
<1>3. request'[c].at = "persist"
  BY <1>1, <1>2
<1>4. ASSUME NEW d \in Requesters, request'[d].at \in {"store", "persist"}
      PROVE  \A k \in DOMAIN request'[d].rows :
                k # request'[d].minute => Laked(preview', k, request'[d].rows[k])
  <2>1. /\ request[d].at \in {"store", "persist"}
        /\ request'[d].rows = request[d].rows /\ request'[d].minute = request[d].minute
    BY <1>1, <1>2, <1>4
  <2>2. preview' = preview /\ faults = 0
    BY <1>1
  <2> QED
    BY <2>1, <2>2 DEF TapeLakeInv
<1> QED
  BY <1>3, <1>4

LEMMA PersistLake ==
    ASSUME TapeTypes, FoldInv, TapeLakeInv, NEW c \in Requesters, Persist(c)
    PROVE  TapeLakeInv'
<1>1. PICK s \in TapeRequests :
         /\ Becomes(c, s) /\ s.at \in {"idle", "show"} /\ request[c].at = "persist"
         /\ UNCHANGED <<memory, taken, born>>
  BY PersistStep
<1>2. \A d \in Requesters : request'[d] = IF d = c THEN s ELSE request[d]
  BY <1>1, RequestsThen
<1>3. \A d \in Requesters : request'[d].at \notin {"store", "persist"}
  BY <1>1, <1>2 DEF FoldInv, OneHolds, Holding
<1> SUFFICES ASSUME faults' = 0
             PROVE  \A m \in DOMAIN memory' : Laked(preview', m, memory'[m])
  BY <1>3 DEF TapeLakeInv
<1> DEFINE r == request[c]
           row == [m \in {r.minute} |-> Written(r.rows[m])]
<1>4. preview' = Overlaid(preview, row) /\ faults = 0
  BY DEF Persist, TapeTypes
<1>5. r.rows = memory /\ \A m \in DOMAIN memory : m # r.minute => Laked(preview, m, memory[m])
  BY <1>1, <1>4 DEF FoldInv, TapeLakeInv
<1> SUFFICES ASSUME NEW m \in DOMAIN memory PROVE Laked(preview', m, memory[m])
  BY <1>1
<1>6. CASE m = r.minute
  <2>1. m \in DOMAIN preview' /\ preview'[m] = Written(memory[m])
    BY <1>4, <1>5, <1>6 DEF Overlaid
  <2> QED
    BY <2>1 DEF Laked, Written
<1>7. CASE m # r.minute
  <2>1. m \in DOMAIN preview /\ Laked(preview, m, memory[m])
    BY <1>5, <1>7 DEF Laked
  <2>2. m \in DOMAIN preview' /\ preview'[m] = preview[m]
    BY <1>4, <1>7, <2>1 DEF Overlaid
  <2> QED
    BY <2>1, <2>2 DEF Laked
<1> QED
  BY <1>6, <1>7

LEMMA HideLake == ASSUME TapeTypes, TapeLakeInv, HideRows PROVE TapeLakeInv'
<1>1. preview' = Replaced(preview) /\ UNCHANGED <<memory, request, faults>>
  BY DEF HideRows, history
<1>2. ASSUME NEW m, NEW b, Laked(preview, m, b) PROVE Laked(preview', m, b)
  <2>1. m \in DOMAIN preview /\ preview[m] \in PreviewRows
    BY <1>2, MembersOfPreviewMaps DEF Laked, TapeTypes
  <2>2. m \in DOMAIN preview' /\ preview'[m] = [preview[m] EXCEPT !.hidden = TRUE]
    BY <1>1, <2>1 DEF Replaced
  <2>3. preview'[m].bar = preview[m].bar
    BY <2>1, <2>2 DEF PreviewRows
  <2> QED
    BY <1>2, <2>2, <2>3 DEF Laked
<1> QED
  BY <1>1, <1>2 DEF TapeLakeInv

LEMMA RestartLake == ASSUME TapeTypes, TapeLakeInv, Restart PROVE TapeLakeInv'
<1>1. memory' = NoRows /\ request' = [c \in Requesters |-> Idle]
  BY DEF Restart
<1>2. \A c \in Requesters : request'[c].at = "idle"
  BY <1>1, IdleTyped
<1> QED
  BY <1>1, <1>2, NoRowsTyped DEF TapeLakeInv

LEMMA LakeStays ==
    ASSUME TapeLakeInv, UNCHANGED <<memory, preview, request, faults>>
    PROVE  TapeLakeInv'
  BY DEF TapeLakeInv

LEMMA LakeStart == ASSUME TapeInit PROVE TapeLakeInv
<1>1. memory = NoRows /\ request = [c \in Requesters |-> Idle]
  BY DEF TapeInit
<1>2. \A c \in Requesters : request[c].at = "idle"
  BY <1>1, IdleTyped
<1> QED
  BY <1>1, <1>2, NoRowsTyped DEF TapeLakeInv

LEMMA LakeNext ==
    ASSUME ~Threads, TapeTypes, FoldInv, TapeLakeInv, [TapeNext]_tapeVars
    PROVE  TapeLakeInv'
<1>1. MinutePasses \/ UNCHANGED tapeVars => TapeLakeInv'
  BY LakeStays DEF MinutePasses, tapeVars, history
<1>2. ASSUME NEW a \in Adjustflags, NEW last \in Minutes, StoreOfficial(a, last)
      PROVE  TapeLakeInv'
  BY <1>2, LakeStays DEF StoreOfficial, history
<1>3. ASSUME NEW c \in Requesters, PageReads(c) \/ NoQuote(c) \/ Show(c) PROVE TapeLakeInv'
  <2>1. PICK r \in TapeRequests :
           /\ Becomes(c, r) /\ r.at \in {"idle", "quote"}
           /\ request[c].at \notin {"store", "persist"}
           /\ UNCHANGED <<memory, preview, official, hiding, history>>
    BY <1>3, QuietSteps
  <2>2. r.at \notin {"store", "persist"} /\ UNCHANGED <<memory, preview, faults>>
    BY <2>1 DEF history
  <2> QED
    BY <2>1, <2>2, LakeQuiet
<1>4. ASSUME NEW c \in Requesters, Persist(c) \/ Store(c) PROVE TapeLakeInv'
  BY <1>4, PersistLake, StoreLake
<1>5. ASSUME NEW c \in Requesters, NEW m \in Minutes, NEW p \in Quotes, Take(c, m, p)
      PROVE  TapeLakeInv'
  BY <1>5, TakeLake
<1>6. HideRows \/ Restart => TapeLakeInv'
  BY HideLake, RestartLake
<1> QED
  BY <1>1, <1>2, <1>3, <1>4, <1>5, <1>6 DEF TapeNext

-----------------------------------------------------------------------------
(* Hidden rows. *)

LEMMA HiddenStays ==
    ASSUME HiddenInv, UNCHANGED <<official, hiding, preview>>
    PROVE  HiddenInv'
  BY DEF HiddenInv, HiddenIsReplaced

LEMMA PersistHidden ==
    ASSUME TapeTypes, HiddenInv, NEW c \in Requesters, Persist(c)
    PROVE  HiddenInv'
<1> DEFINE r == request[c]
           row == [m \in {r.minute} |-> Written(r.rows[m])]
<1>1. /\ preview' = Overlaid(preview, row) \/ preview' = preview
      /\ UNCHANGED <<official, hiding>>
  BY DEF Persist
<1>2. \A m \in DOMAIN row : ~row[m].hidden
  BY DEF Written
<1> HIDE DEF row
<1>3. \A m \in DOMAIN preview' :
         preview'[m].hidden => m \in DOMAIN preview /\ preview[m].hidden
  BY <1>1, <1>2, OverlaidRow
<1> QED
  BY <1>1, <1>3 DEF HiddenInv, HiddenIsReplaced

LEMMA OfficialHidden ==
    ASSUME ~Midday, TapeTypes, HiddenInv, NEW a \in Adjustflags, NEW last \in Minutes,
           StoreOfficial(a, last)
    PROVE  HiddenInv'
<1>1. /\ official' = [official EXCEPT ![a] = 1..LastMinute] /\ hiding' = TRUE
      /\ preview' = preview
  BY DEF StoreOfficial
<1>2. official \in [Adjustflags -> SUBSET Minutes]
  BY DEF TapeTypes
<1>3. official'[a] = Minutes /\ \A b \in Adjustflags : official[b] \subseteq official'[b]
  BY <1>1, <1>2 DEF Minutes
<1> QED
  BY <1>1, <1>3 DEF HiddenInv, HiddenIsReplaced

LEMMA HideHidden == ASSUME TapeTypes, HiddenInv, HideRows PROVE HiddenInv'
<1>1. ~hiding' /\ official' = official /\ preview' = Replaced(preview) /\ hiding
  BY DEF HideRows
<1>2. DOMAIN preview' \subseteq Minutes
  BY <1>1, MembersOfPreviewMaps DEF Replaced, TapeTypes
<1> QED
  BY <1>1, <1>2 DEF HiddenInv, HiddenIsReplaced

LEMMA HiddenStart == ASSUME TapeInit PROVE HiddenInv
  BY NoRowsTyped DEF TapeInit, HiddenInv, HiddenIsReplaced

LEMMA HiddenNext ==
    ASSUME ~Midday, TapeTypes, HiddenInv, [TapeNext]_tapeVars
    PROVE  HiddenInv'
<1>1. MinutePasses \/ UNCHANGED tapeVars => HiddenInv'
  BY HiddenStays DEF MinutePasses, tapeVars
<1>2. ASSUME NEW a \in Adjustflags, NEW last \in Minutes, StoreOfficial(a, last) PROVE HiddenInv'
  BY <1>2, OfficialHidden
<1>3. ASSUME NEW c \in Requesters, PageReads(c) \/ NoQuote(c) \/ Show(c) \/ Store(c)
      PROVE  HiddenInv'
  BY <1>3, HiddenStays DEF PageReads, NoQuote, Show, Store
<1>4. ASSUME NEW c \in Requesters, NEW m \in Minutes, NEW p \in Quotes, Take(c, m, p)
      PROVE  HiddenInv'
  BY <1>4, HiddenStays DEF Take
<1>5. ASSUME NEW c \in Requesters, Persist(c) PROVE HiddenInv'
  BY <1>5, PersistHidden
<1>6. HideRows => HiddenInv'
  BY HideHidden
<1>7. Restart => HiddenInv'
  BY DEF Restart, HiddenInv, HiddenIsReplaced
<1> QED
  BY <1>1, <1>2, <1>3, <1>4, <1>5, <1>6, <1>7 DEF TapeNext

-----------------------------------------------------------------------------
(* The tape. *)

LEMMA MemoryHolds == ASSUME TapeTypes, FoldInv PROVE MemoryIsFold
<1> DEFINE minutes == {taken[k].minute : k \in born + 1 .. Len(taken)}
<1> SUFFICES ASSUME Settled
             PROVE  /\ DOMAIN memory = minutes
                    /\ \A m \in minutes :
                          /\ MadeOf(memory[m], TakenOf(m, born + 1))
                          /\ memory[m].forming <=> m = Max(minutes)
  BY DEF MemoryIsFold
<1>1. FoldIs(memory, taken, born + 1)
  BY DEF Settled, FoldInv
<1>2. DOMAIN memory = minutes
  BY <1>1 DEF FoldIs
<1>3. \A m \in minutes : MadeOf(memory[m], TakenOf(m, born + 1))
  <2>1. \A m : AtMinute(taken, born + 1, m) = TakenOf(m, born + 1)
    BY DEF AtMinute, TakenOf
  <2>2. \A b, ks : MadeBy(taken, b, ks) <=> MadeOf(b, ks)
    BY DEF MadeBy, MadeOf, PricesAt, PricesOf
  <2> QED
    BY <1>1, <1>2, <2>1, <2>2 DEF FoldIs
<1>4. ASSUME NEW m \in minutes PROVE Max(minutes) = taken[Len(taken)].minute
  <2> DEFINE n == Len(taken)
  <2>1. taken \in Seq(TapeQuotes) /\ n \in Nat /\ born \in Nat
    BY DEF TapeTypes, TapeQuotes
  <2>2. \A k \in 1..n : taken[k] \in TapeQuotes
    BY <2>1
  <2>3. \A k \in 1..n : taken[k].minute \in Int
    BY <2>2 DEF TapeQuotes, Minutes
  <2>4. n \in born + 1 .. n /\ n \in 1..n /\ \A k \in born + 1 .. n : k \in 1..n /\ k =< n
    BY <1>4, <2>1
  <2>5. taken[n].minute \in minutes /\ minutes \in SUBSET Int
    BY <2>3, <2>4
  <2>6. \A k \in born + 1 .. n : taken[n].minute >= taken[k].minute
    BY <2>3, <2>4 DEF FoldInv, Chronological
  <2>7. \A y \in minutes : taken[n].minute >= y
    BY <2>6
  <2> HIDE DEF minutes
  <2> QED
    BY <2>5, <2>7, MaxIs
<1> QED
  BY <1>1, <1>2, <1>3, <1>4 DEF FoldIs

LEMMA LakeHolds == ASSUME TapeTypes, TapeLakeInv PROVE LakeShowsMemory
  BY DEF TapeLakeInv, LakeShowsMemory, Settled, Laked, ClosedOf

LEMMA PricesHold == ASSUME PriceInv PROVE PricesWereQuoted
  BY DEF PriceInv, PricesWereQuoted, AllQuoted, AllFair

(* The tape (_ingest_quote, _persist_live_1m_row,                          *)
(* append_live_quote_1m_bar, mark_intraday_replaced_by_official): where    *)
(* quotes are folded in by the event loop alone and in the order of their  *)
(* minutes, and official bars come after the close, whatever the minutes,  *)
(* the prices and the requests are, memory is made of all quotes that the  *)
(* process took, the intraday lake shows them unless a write failed, no    *)
(* bar has a price that was not quoted in its minute, and a row is hidden  *)
(* only behind an official bar.                                            *)
THEOREM TapeIsSound ==
    ASSUME ~Threads, ~OutOfOrder, ~Midday
    PROVE  TapeSpec => []TapeSound
<1> DEFINE Inv == TapeTypes /\ PriceInv /\ FoldInv /\ TapeLakeInv /\ HiddenInv
<1>1. TapeInit => Inv
  BY TypesStart, PricesStart, FoldStart, LakeStart, HiddenStart
<1>2. Inv /\ [TapeNext]_tapeVars => Inv'
  <2> SUFFICES ASSUME Inv, [TapeNext]_tapeVars PROVE Inv'
    OBVIOUS
  <2>1. TapeTypes'
    BY TypesNext
  <2> QED
    BY <2>1, PricesNext, FoldNext, LakeNext, HiddenNext
<1>3. Inv => TapeSound
  BY TypesHold, PricesHold, MemoryHolds, LakeHolds DEF TapeSound, HiddenInv
<1> QED
  BY <1>1, <1>2, <1>3, PTL DEF TapeSpec
=============================================================================
