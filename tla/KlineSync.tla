------------------------------ MODULE KlineSync ------------------------------
(***************************************************************************)
(* The synchronisation of bars: the worker's two windows of a trading day, *)
(* a forced synchronisation by a page, and the first synchronisation of a  *)
(* symbol that is put on a watchlist.  A pass fetches one frequency of one *)
(* symbol after another into the lake, then asks for structure jobs of     *)
(* what has changed, then warms the universe of the users up, and at last  *)
(* marks its window as done.  Every step is a call in the thread pool, and *)
(* the passes of different callers overlap.                                *)
(*                                                                         *)
(* The lake holds for a symbol and a frequency the day of the last         *)
(* adjusted bar; structure holds what a structure job has last been asked  *)
(* for.                                                                    *)
(***************************************************************************)
EXTENDS Integers, FiniteSets, Sequences, SequencesExt

CONSTANTS
    Symbols,
    Known,          \* symbols of kline_sync_meta
    Holdings,       \* symbols of positions
    Chatted,        \* symbols of the chats of the last thirty days
    Listed,         \* symbols of the watchlists at the start
    AllFreqs,        \* ALL_FREQS, in their order
    Levels,         \* those that are structure levels
    Most,           \* MAX_UNIVERSE_SYMBOLS_PER_USER
    Feeds,          \* of what tdx may be: BAOSTOCK_AUTO_SYNC_ENABLED is off, which is
                    \* the default, or on
    OnStartup,      \* TDX_LOCAL_HISTORY_SYNC_ON_STARTUP_ENABLED
    Overnight,      \* a pass may take until after midnight
    TradingDays,    \* the days from Monday to Friday
    MaxDate,        \* bound: the days
    MaxEvents       \* bound: forced synchronisations, failed fetches and passes, and
                    \* stops of the process

ASSUME SyncAssumption ==
    /\ IsFiniteSet(Symbols) /\ Symbols \cap {"worker", "page"} = {}
    /\ Known \cup Holdings \cup Listed \subseteq Symbols
    /\ AllFreqs \in Seq(Range(AllFreqs)) /\ {"day"} \cup Levels \subseteq Range(AllFreqs)
    /\ Feeds \subseteq BOOLEAN /\ MaxDate \in Nat \ {0} /\ MaxEvents \in Nat

VARIABLES
    date, hour,     \* the day and the part of it
    source,         \* frequency -> the last day that can be fetched
    lake,           \* symbol -> frequency -> the last day in the lake
    watchlist,      \* symbols of watchlist_items
    structure,      \* symbol -> level -> the last day a job was asked for
    pass,           \* caller -> its pass
    lastDaily, lastFull,    \* the marks of the worker, 0 for None
    tdx,            \* the bars come from the local TDX files
    events          \* history: see MaxEvents

syncVars ==
    <<date, hour, source, lake, watchlist, structure, pass, lastDaily, lastFull, tdx, events>>

Hours == {"day", "evening", "night"}        \* from 0:00, 17:30 and 20:30
Scopes == {"daily", "full"}
NoScope == "none"
Callers == {"worker", "page"} \cup Symbols
Dates == 0..MaxDate
Pairs == Symbols \X Range(AllFreqs)
(* A pass has the symbols left in todo, the one at hand first, and in next *)
(* those of its frequencies that this one still lacks.                     *)
Passes ==
    [ at : {"down", "idle", "fetch", "prewarm", "mark"}, scope : Scopes \cup {NoScope},
      marks : BOOLEAN, began : Dates, seen : [Range(AllFreqs) -> Dates],
      todo : Seq(Symbols), freqs : Seq(Range(AllFreqs)), next : Seq(Range(AllFreqs)),
      changed : SUBSET Pairs, failed : SUBSET Pairs, symbols : SUBSET Symbols ]
Nothing == [f \in Range(AllFreqs) |-> 0]
NoPass ==
    [ at |-> "idle", scope |-> NoScope, marks |-> FALSE, began |-> 0, seen |-> Nothing,
      todo |-> <<>>, freqs |-> <<>>, next |-> <<>>, changed |-> {}, failed |-> {},
      symbols |-> {} ]

DownPass == [NoPass EXCEPT !.at = "down"]

SyncTypeOK ==
    /\ date \in 1..MaxDate /\ hour \in Hours
    /\ source \in [Range(AllFreqs) -> Dates]
    /\ lake \in [Symbols -> [Range(AllFreqs) -> Dates]]
    /\ watchlist \subseteq Symbols
    /\ structure \in [Symbols -> [Levels -> Dates]]
    /\ pass \in [Callers -> Passes]
    /\ {lastDaily, lastFull} \subseteq Dates
    /\ tdx \in BOOLEAN /\ events \in 0..MaxEvents

SyncInit ==
    /\ date = 1 /\ hour = "day"
    /\ source = Nothing
    /\ lake = [s \in Symbols |-> Nothing]
    /\ watchlist = Listed
    /\ structure = [s \in Symbols |-> [l \in Levels |-> 0]]
    /\ pass = [c \in Callers |-> IF c = "worker" THEN DownPass ELSE NoPass]
    /\ lastDaily = 0 /\ lastFull = 0
    /\ tdx \in Feeds /\ events = 0

-----------------------------------------------------------------------------
(* Which symbols.                                                          *)

(* _get_all_tracked_symbols                                                *)
AllTracked == Known \cup Holdings \cup watchlist

(* resolve_ai_native_universe: the priority of a symbol and the first of   *)
(* them.  A holding on the watchlist comes before every other holding.     *)
Priority(s) ==
    CASE s \in Holdings /\ s \in watchlist -> 110
      [] s \in Holdings \ watchlist -> 100
      [] s \in Chatted \ Holdings -> 80
      [] OTHER -> 60

Universe ==
    LET listed == SetToSortSeq(Holdings \cup Chatted \cup watchlist,
                               LAMBDA s, t : Priority(s) > Priority(t)) IN
    {listed[i] : i \in {j \in DOMAIN listed : j <= Most}}

-----------------------------------------------------------------------------
(* The schedule.                                                           *)

ScheduledScope ==
    CASE date \notin TradingDays \/ hour = "day" -> NoScope
      [] date \in TradingDays /\ hour = "evening" -> "daily"
      [] date \in TradingDays /\ hour = "night" -> "full"

HasSynced(scope) == IF scope = "full" THEN lastFull = date ELSE date \in {lastDaily, lastFull}

(* Mutant: every scope is the day's bars.                                  *)
FreqsOfDay(scope) == <<"day">>

FreqsOf(scope) == IF scope = "full" THEN AllFreqs ELSE <<"day">>

Begun(scope, symbols, freqs) ==
    [ NoPass EXCEPT !.at = "fetch", !.scope = scope, !.began = date,
                    !.todo = SetToSeq(symbols), !.freqs = freqs, !.next = freqs ]
Marking(scope) ==
    [ Begun(scope, AllTracked, FreqsOf(scope)) EXCEPT !.marks = TRUE, !.seen = source,
                                                   !.symbols = AllTracked ]

At(c, step) == pass[c].at = step
Goes(c, p) == pass' = [pass EXCEPT ![c] = p]
Event == events < MaxEvents /\ events' = events + 1
SameClock == UNCHANGED <<date, hour, source, tdx>>
SameMarks == UNCHANGED <<lastDaily, lastFull>>

(* start(), and what _sync_loop does before its first sleep.               *)
StartWorker ==
    /\ At("worker", "down")
    /\ IF OnStartup /\ AllTracked # {}
       THEN Goes("worker", IF ScheduledScope = NoScope
                           THEN Begun("daily", AllTracked, FreqsOf("daily"))
                           ELSE Marking(ScheduledScope))
       ELSE Goes("worker", NoPass)
    /\ SameClock /\ SameMarks
    /\ UNCHANGED <<lake, watchlist, structure, events>>

(* One turn of _sync_loop that finds its window open.                      *)
WorkerBegins ==
    /\ At("worker", "idle") /\ AllTracked # {}
    /\ ScheduledScope # NoScope /\ ~HasSynced(ScheduledScope)
    /\ Goes("worker", Marking(ScheduledScope))
    /\ SameClock /\ SameMarks
    /\ UNCHANGED <<lake, watchlist, structure, events>>

(* force_sync                                                              *)
PageForces ==
    /\ At("page", "idle") /\ AllTracked # {} /\ Event
    /\ Goes("page", Begun(NoScope, AllTracked, AllFreqs))
    /\ SameClock /\ SameMarks
    /\ UNCHANGED <<lake, watchlist, structure>>

(* A symbol comes to the watchlist, and sync_new_watchlist_symbol runs.    *)
AddSymbol(s) ==
    /\ s \notin watchlist /\ At(s, "idle")
    /\ watchlist' = watchlist \cup {s}
    /\ Goes(s, [Begun(NoScope, {s}, AllFreqs) EXCEPT !.began = 0])
    /\ SameClock /\ SameMarks
    /\ UNCHANGED <<lake, structure, events>>

-----------------------------------------------------------------------------
(* A pass.                                                                 *)

(* A pass skips what the lake has of the day on which it began; the first  *)
(* synchronisation of a symbol fetches all.                                *)
UpToDate(c, pair) ==
    c \in {"worker", "page"} /\ lake[pair[1]][pair[2]] >= pass[c].began

(* The two loops: the next frequency, or the next symbol and all of them.  *)
Advanced(p) ==
    IF Len(p.next) > 1 THEN [p EXCEPT !.next = Tail(@)]
    ELSE [p EXCEPT !.todo = Tail(@), !.next = p.freqs]

(* One frequency of one symbol.  An error is counted and the pass goes on. *)
(* Without BaoStock the bars come from local files, and the adjusted ones, *)
(* which this lake is about, from the bridge or from known factors: it may *)
(* have neither.                                                           *)
FetchOne(c) ==
    LET p == pass[c]
        s == Head(p.todo)
        f == Head(p.next)
        pair == <<s, f>>
        rest == Advanced(p) IN
    /\ At(c, "fetch") /\ p.todo # <<>>
    /\ \/ /\ UpToDate(c, pair) \/ lake[s][f] >= source[f]
          /\ Goes(c, rest)
          /\ UNCHANGED <<lake, events>>
       \/ /\ ~UpToDate(c, pair) /\ lake[s][f] < source[f]
          /\ lake' = [lake EXCEPT ![s][f] = source[f]]
          /\ Goes(c, [rest EXCEPT !.changed = @ \cup {pair}])
          /\ UNCHANGED events
       \/ /\ ~UpToDate(c, pair)
          /\ IF tdx THEN UNCHANGED events ELSE Event
          /\ Goes(c, IF p.marks THEN [rest EXCEPT !.failed = @ \cup {pair}] ELSE rest)
          /\ UNCHANGED lake
    /\ SameClock /\ SameMarks
    /\ UNCHANGED <<watchlist, structure>>

Ended(c) == [NoPass EXCEPT !.at = "idle"]

Fetched(c) == At(c, "fetch") /\ pass[c].todo = <<>>

(* _sync_all_symbols_from_tdx_local returns a variable it has not set,     *)
(* intraday_replaced: after its fetches it raises.                         *)
TdxRaises(c) ==
    /\ Fetched(c) /\ tdx /\ c \in {"worker", "page"}
    /\ Goes(c, Ended(c))
    /\ SameClock /\ SameMarks
    /\ UNCHANGED <<lake, watchlist, structure, events>>

Asked(pairs) ==
    structure' = [s \in Symbols |-> [l \in Levels |->
                    IF <<s, l>> \in pairs THEN lake[s][l] ELSE structure[s][l]]]

(* enqueue_structure_jobs_for_changes, _structure_levels_from_changes.     *)
EnqueueChanges(c) ==
    /\ Fetched(c) /\ ~(tdx /\ c \in {"worker", "page"})
    /\ Asked(pass[c].changed)
    /\ Goes(c, [pass[c] EXCEPT !.at = "prewarm"])
    /\ SameClock /\ SameMarks
    /\ UNCHANGED <<lake, watchlist, events>>

(* Mutant: only what has changed is warmed up.                             *)
WarmedChanged(c) == pass[c].changed

(* A new symbol warms itself up, a pass the whole universe.                *)
Warmed(c) == (IF c \in Symbols THEN {c} ELSE Universe) \X Levels

(* prewarm_ai_structure_universe_for_tracked_users                         *)
Prewarm(c) ==
    /\ At(c, "prewarm")
    /\ Asked(Warmed(c))
    /\ Goes(c, [pass[c] EXCEPT !.at = "mark"])
    /\ SameClock /\ SameMarks
    /\ UNCHANGED <<lake, watchlist, events>>

(* Mutant: the day's bars are marked with the day on which their window    *)
(* opens again.                                                            *)
MarkNext(c) ==
    /\ At(c, "mark")
    /\ IF c = "worker" /\ pass[c].marks
       THEN /\ lastDaily' = date + 1
            /\ lastFull' = IF pass[c].scope = "full" THEN date ELSE lastFull
       ELSE SameMarks
    /\ Goes(c, Ended(c))
    /\ SameClock
    /\ UNCHANGED <<lake, watchlist, structure, events>>

(* _mark_scope_synced, with the date of the end of the pass.               *)
Mark(c) ==
    /\ At(c, "mark")
    /\ IF c = "worker" /\ pass[c].marks
       THEN /\ lastDaily' = date
            /\ lastFull' = IF pass[c].scope = "full" THEN date ELSE lastFull
       ELSE SameMarks
    /\ Goes(c, Ended(c))
    /\ SameClock
    /\ UNCHANGED <<lake, watchlist, structure, events>>

(* Anything after the fetches raises: _do_sync logs it, and the window     *)
(* stays open.                                                             *)
PassRaises(c) ==
    /\ Fetched(c) \/ At(c, "prewarm")
    /\ c = "worker" /\ Event
    /\ Goes(c, Ended(c))
    /\ SameClock /\ SameMarks
    /\ UNCHANGED <<lake, watchlist, structure>>

(* The process stops: the marks are attributes of the worker.              *)
StopProcess ==
    /\ Event
    /\ pass' = [c \in Callers |-> IF c = "worker" THEN DownPass ELSE NoPass]
    /\ lastDaily' = 0 /\ lastFull' = 0
    /\ SameClock
    /\ UNCHANGED <<lake, watchlist, structure>>

-----------------------------------------------------------------------------
(* The world.                                                              *)

Busy == pass["worker"].at \notin {"down", "idle"}

TimePasses ==
    \/ /\ hour # "night"
       /\ hour' = IF hour = "day" THEN "evening" ELSE "night"
       /\ UNCHANGED date
    \/ /\ hour = "night" /\ date < MaxDate /\ (Overnight \/ ~Busy)
       /\ hour' = "day" /\ date' = date + 1

Clock ==
    /\ TimePasses
    /\ SameMarks
    /\ UNCHANGED <<source, tdx, lake, watchlist, structure, pass, events>>

(* The day's bars come at 17:30 and those of the minutes at 20:30, or      *)
(* later.                                                                  *)
Publish(f) ==
    /\ date \in TradingDays /\ source[f] < date
    /\ hour = "night" \/ (hour = "evening" /\ f = "day")
    /\ source' = [source EXCEPT ![f] = date]
    /\ SameMarks
    /\ UNCHANGED <<date, hour, tdx, lake, watchlist, structure, pass, events>>

PassStep(c) == FetchOne(c) \/ TdxRaises(c) \/ EnqueueChanges(c) \/ Prewarm(c) \/ Mark(c)

SyncNext ==
    \/ StartWorker \/ WorkerBegins \/ PageForces \/ (\E s \in Symbols : AddSymbol(s))
    \/ (\E c \in Callers : PassStep(c) \/ PassRaises(c))
    \/ StopProcess \/ Clock \/ (\E f \in Range(AllFreqs) : Publish(f))

SyncSpec == SyncInit /\ [][SyncNext]_syncVars

-----------------------------------------------------------------------------
(* What must be true.                                                      *)

(* A full window is marked with the day on which it was synchronised, and  *)
(* then all that could be fetched when the pass began is in the lake,      *)
(* except what has failed.                                                 *)
FullDaySynced ==
    [][ lastFull' \notin {0, lastFull} =>
            LET p == pass["worker"] IN
            /\ p.began = lastFull'
            /\ \A s \in p.symbols, f \in Range(AllFreqs) :
                  <<s, f>> \notin p.failed => lake[s][f] >= p.seen[f] ]_syncVars

(* Every bar of a symbol of the universe that reaches the lake is followed *)
(* by a structure job, whichever pass has brought it and whatever has      *)
(* failed after that ("after a synchronisation: snapshot, then context",   *)
(* kline_sync_worker.py:756).                                              *)
BarsReachStructure ==
    \A s \in Symbols : \A l \in Levels :
        []<>(s \notin Universe \/ structure[s][l] = lake[s][l])
=============================================================================
