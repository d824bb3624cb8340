------------------------------ MODULE KlineLake ------------------------------
(***************************************************************************)
(* The bars of one symbol in the two lakes, and which of them structure is *)
(* computed from.                                                          *)
(*   - A TDX pass takes the front-adjusted days of the bridge, the raw     *)
(*     bars of the local files, and rebuilds the adjusted bars from the    *)
(*     raw ones and the factors of the days.                               *)
(*   - A BaoStock thread fetches raw bars, computes adjusted ones from     *)
(*     them and writes them over the old ones.                             *)
(*   - The policy selects a table for a level.                             *)
(* An adjusted bar is told by its base: the last ex-right day that was     *)
(* known when it was computed, to which its prices are scaled.  Bars of    *)
(* two bases show the ex-right gap as a move of the price.                 *)
(* Every transaction of a lake is a step, and passes and threads overlap.  *)
(***************************************************************************)
EXTENDS Integers, FiniteSets, Sequences, SequencesExt

CONSTANTS
    MaxDay,         \* bound: the trading days
    ExDays,         \* those on which the symbol goes ex-right
    WeekOf,         \* day -> its week
    Enough,         \* how many bars the policy asks for, except of days
    Recent,         \* how many days fetch_klines_quick goes back
    Callers,        \* who runs TDX passes, which overlap when there are several
    Threads,        \* who runs BaoStock fetches
    Bridge,         \* the bridge of TDX may answer
    MaxFaults       \* bound: missing answers, failing statements and stops

ASSUME LakeBounds ==
    /\ MaxDay \in Nat \ {0} /\ {Enough, Recent, MaxFaults} \subseteq Nat
    /\ ExDays \subseteq 1..MaxDay /\ WeekOf \in [1..MaxDay -> Nat]

VARIABLES
    today,
    dayFile,        \* the last day of the .day file
    minFile,        \* the last day of the .lc1 and .lc5 files
    published,      \* the last day of BaoStock
    raw,            \* TDX klines with adjustflag 3: freq -> days
    adjusted,       \* adjusted_bars: source -> freq -> day -> base
    legacy,         \* klines with adjustflag 2, likewise
    pass,           \* caller -> its TDX pass
    thread,         \* thread -> its BaoStock fetch
    faults          \* history: see MaxFaults

lakeVars ==
    <<today, dayFile, minFile, published, raw, adjusted, legacy, pass, thread, faults>>
worldVars == <<today, dayFile, minFile, published>>
tables == <<raw, adjusted, legacy>>

Days == 1..MaxDay
Freqs == {"week", "day", "min"}
Sources == {"tdx", "baostock"}
Torn == MaxDay + 1      \* the base of a bar that is computed from several bases
Bases == 0..Torn
Rows == UNION {[D -> Bases] : D \in SUBSET Days}
None == [d \in {} |-> 0]
Scopes == {"daily", "full", "new", "week", "day", "min"}
Passes ==
    [ at : {"idle", "front", "raw", "check", "rebuild", "write"}, scope : Scopes,
      todo : Seq(Freqs), updated : BOOLEAN, factors : Rows ]
Fetches ==
    [ at : {"idle", "days", "day", "week", "minutes", "min"}, from : Days,
      todo : Seq(Freqs), full : BOOLEAN, days : Rows, bars : Rows ]
NoPass ==
    [at |-> "idle", scope |-> "daily", todo |-> <<>>, updated |-> FALSE, factors |-> None]
NoFetch ==
    [at |-> "idle", from |-> 1, todo |-> <<>>, full |-> FALSE, days |-> None, bars |-> None]

LakeTypeOK ==
    /\ today \in Days
    /\ {dayFile, minFile, published} \subseteq 0..today
    /\ raw \in [Freqs -> SUBSET Days]
    /\ adjusted \in [Sources -> [Freqs -> Rows]]
    /\ legacy \in [Sources -> [Freqs -> Rows]]
    /\ pass \in [Callers -> Passes]
    /\ thread \in [Threads -> Fetches]
    /\ faults \in 0..MaxFaults

Empty == [s \in Sources |-> [f \in Freqs |-> None]]

(* The bars of the first day, which a chart may have fetched.              *)
Charted ==
    [s \in Sources |-> [f \in Freqs |-> IF s = "baostock" THEN [d \in {1} |-> 0] ELSE None]]

LakeInit ==
    /\ today = 1 /\ dayFile = 0 /\ minFile = 0 /\ published \in 0..1
    /\ raw = [f \in Freqs |-> {}]
    /\ adjusted = IF published = 0 THEN Empty ELSE Charted
    /\ legacy = adjusted
    /\ pass = [c \in Callers |-> NoPass]
    /\ thread = [t \in Threads |-> NoFetch]
    /\ faults = 0

Fault == faults < MaxFaults /\ faults' = faults + 1
SameFaults == faults' = faults
LastOf(days) == IF days = {} THEN 0 ELSE Max(days)
SameWeek(D, d) == {e \in D : WeekOf[e] = WeekOf[d]}
BaseAt(day) == LastOf({x \in ExDays : x <= day})

-----------------------------------------------------------------------------
(* Reading and writing the tables.                                         *)

(* aggregate_week_rows: a week has the date of its last day.               *)
WeekEnds(D) == {d \in D : \A e \in SameWeek(D, d) : e <= d}
Weekly(rows) ==
    [ d \in WeekEnds(DOMAIN rows) |->
        LET bases == {rows[e] : e \in SameWeek(DOMAIN rows, d)} IN
        IF Cardinality(bases) = 1 THEN rows[d] ELSE Torn ]

(* Rows over other rows: a bar replaces the bar of its date.               *)
Overlaid(below, above) ==
    [d \in DOMAIN below \cup DOMAIN above |->
        IF d \in DOMAIN above THEN above[d] ELSE below[d]]

(* _delete_same_week_rows                                                  *)
OtherWeeks(rows, D) == Restrict(rows, {d \in DOMAIN rows : SameWeek(D, d) = {}})

(* Mutant: only the bars that are missing are written.                     *)
AdjustsMissing(src, f, rows) ==
    /\ adjusted' = [adjusted EXCEPT ![src][f] = Overlaid(rows, @)]
    /\ legacy' = [legacy EXCEPT ![src][f] = Overlaid(rows, @)]

(* upsert_adjusted_bars: a bar replaces the bar of its date; weeks are     *)
(* replaced by week only in the legacy table.                              *)
Adjusts(src, f, rows) ==
    /\ adjusted' = [adjusted EXCEPT ![src][f] = Overlaid(@, rows)]
    /\ legacy' = [legacy EXCEPT ![src][f] =
                    Overlaid(IF f = "week" THEN OtherWeeks(@, DOMAIN rows) ELSE @, rows)]

(* upsert_raw_bars, upsert_klines: the policy and the passes read the      *)
(* legacy table.                                                           *)
Stores(f, D) ==
    raw' = [raw EXCEPT ![f] =
              D \cup (IF f = "week" THEN {d \in @ : SameWeek(D, d) = {}} ELSE @)]

-----------------------------------------------------------------------------
(* A TDX pass.                                                             *)

FreqsOf(scope) ==
    CASE scope = "daily" -> <<"day">>
      [] scope \in {"full", "new"} -> <<"week", "day", "min">>
      [] scope = "day" -> <<"day">>
      [] scope \in {"week", "min"} -> <<"day", scope>>

At(c, step) == pass[c].at = step
Goes(c, p) == pass' = [pass EXCEPT ![c] = p]

Begin(c, scope) ==
    /\ At(c, "idle")
    /\ Goes(c, [NoPass EXCEPT !.at = IF scope \in {"daily", "full"} THEN "front" ELSE "raw",
                              !.scope = scope, !.todo = FreqsOf(scope)])
    /\ SameFaults /\ UNCHANGED <<worldVars, tables, thread>>

(* What the bridge answers for a frequency, at the base of the day.        *)
Answers(f) ==
    [d \in (IF f = "week" THEN WeekEnds(1..today) ELSE 1..today) |-> BaseAt(today)]

(* _sync_all_symbols_from_tdx_local: of the front-adjusted days only those *)
(* after the last adjusted day are taken.                                  *)
FrontDays(c) ==
    /\ At(c, "front")
    /\ \E answer \in {None} \cup (IF Bridge THEN {Answers("day")} ELSE {}) :
          LET last == LastOf(DOMAIN legacy["tdx"]["day"])
              rows == Restrict(answer, {d \in DOMAIN answer : d > last}) IN
          /\ Adjusts("tdx", "day", rows)
          /\ Goes(c, [pass[c] EXCEPT !.at = "raw", !.updated = rows # None])
    /\ SameFaults /\ UNCHANGED <<worldVars, raw, thread>>

(* What the files have.  Today's bar is derived from the minutes when the  *)
(* day file does not have it.                                              *)
DayRows(derived) ==
    1..dayFile \cup (IF derived /\ minFile = today THEN {today} ELSE {})

(* Mutant: the minutes that are still forming count as a day.              *)
FileRowsForming(f, scope) ==
    CASE f = "day" -> DayRows(scope \in {"daily", "full", "new"})
      [] f = "week" -> WeekEnds(DayRows(scope \in {"daily", "full", "new"}))
      [] f = "min" -> 1..(minFile + 1)

(* The bars of a frequency in the files.                                   *)
FileRows(f, scope) ==
    CASE f = "day" -> DayRows(scope \in {"daily", "full", "new"})
      [] f = "week" -> WeekEnds(DayRows(scope \in {"daily", "full", "new"}))
      [] f = "min" -> 1..minFile

(* A pass takes what comes after the last raw bar, unless it is of today;  *)
(* the synchronisation of a new symbol and the bootstrap take all.         *)
NewRows(f, scope) ==
    LET last == LastOf(raw[f]) IN
    IF scope \notin {"daily", "full"} THEN FileRows(f, scope)
    ELSE IF last >= today THEN {} ELSE {d \in FileRows(f, scope) : d > last}

(* A new symbol asks the bridge first, for every frequency.                *)
RawBars(c) ==
    LET p == pass[c]
        f == Head(p.todo)
        rows == NewRows(f, p.scope)
        rest == [p EXCEPT !.todo = Tail(@)] IN
    /\ At(c, "raw") /\ p.todo # <<>>
    /\ \/ /\ Stores(f, rows)
          /\ Goes(c, [rest EXCEPT !.updated = @ \/ rows # {}])
          /\ SameFaults /\ UNCHANGED <<adjusted, legacy>>
       \/ /\ p.scope = "new" /\ Bridge
          /\ Adjusts("tdx", f, Answers(f))
          /\ Goes(c, rest)
          /\ SameFaults /\ UNCHANGED raw
       \/ /\ Goes(c, rest) /\ Fault /\ UNCHANGED tables
    /\ UNCHANGED <<worldVars, thread>>

(* _qfq_stale_freqs, _day_qfq_is_stale                                     *)
Stale(f) == LastOf(raw[f]) > LastOf(DOMAIN legacy["tdx"][f])
Target(f, scope) ==
    /\ f \in {"week", "min"} /\ f \in ToSet(FreqsOf(scope))
    /\ scope \notin {"daily", "full"} \/ Stale(f)
Targets(scope) ==
    (IF Target("week", scope) THEN <<"week">> ELSE <<>>)
        \o (IF Target("min", scope) THEN <<"min">> ELSE <<>>)

(* Mutant: a pass that brought nothing rebuilds nothing.                   *)
RebuildsUpdated(c) == pass[c].updated \/ pass[c].scope \notin {"daily", "full"}

Rebuilds(c) ==
    \/ pass[c].updated \/ pass[c].scope \notin {"daily", "full"}
    \/ Targets(pass[c].scope) # <<>> \/ Stale("day")

CheckFactors(c) ==
    /\ At(c, "raw") /\ pass[c].todo = <<>>
    /\ Goes(c, IF Rebuilds(c)
               THEN [pass[c] EXCEPT !.at = "rebuild", !.todo = Targets(pass[c].scope)]
               ELSE NoPass)
    /\ SameFaults /\ UNCHANGED <<worldVars, tables, thread>>

(* build_qfq_day_rows_from_gbbq_events: all raw days, at the base of the   *)
(* last of them.                                                           *)
Built == [d \in raw["day"] |-> BaseAt(LastOf(raw["day"]))]

(* rebuild_tdx_qfq_from_existing_factors: the days are built again when    *)
(* the factor of one is missing, which takes the gbbq file; without every  *)
(* factor nothing is rebuilt.                                              *)
ReadFactors(c) ==
    LET known == legacy["tdx"]["day"]
        missing == raw["day"] \ DOMAIN known IN
    /\ At(c, "rebuild")
    /\ \/ /\ missing # {} /\ SameFaults
          /\ Goes(c, [pass[c] EXCEPT !.at = "write", !.factors = Built,
                                     !.todo = <<"day">> \o @])
       \/ /\ missing # {} /\ Fault /\ Goes(c, NoPass)
       \/ /\ missing = {} /\ SameFaults
          /\ LET factors == Restrict(known, raw["day"]) IN
             Goes(c, IF factors = None THEN NoPass
                     ELSE [pass[c] EXCEPT !.at = "write", !.factors = factors])
    /\ UNCHANGED <<worldVars, tables, thread>>

(* The bars of a frequency, scaled by the factors of their days.           *)
Scaled(f, factors) ==
    CASE f = "day" -> factors
      [] f = "week" -> Weekly(factors)
      [] f = "min" -> Restrict(factors, raw["min"] \cap DOMAIN factors)

WriteAdjusted(c) ==
    /\ At(c, "write") /\ pass[c].todo # <<>>
    /\ LET f == Head(pass[c].todo) IN Adjusts("tdx", f, Scaled(f, pass[c].factors))
    /\ Goes(c, [pass[c] EXCEPT !.todo = Tail(@)])
    /\ SameFaults /\ UNCHANGED <<worldVars, raw, thread>>

EndPass(c) ==
    /\ At(c, "write") /\ pass[c].todo = <<>>
    /\ Goes(c, NoPass)
    /\ SameFaults /\ UNCHANGED <<worldVars, tables, thread>>

(* A statement raises: the lake is locked for longer than its timeout.     *)
RebuildRaises(c) ==
    /\ pass[c].at \in {"rebuild", "write"} /\ Fault
    /\ Goes(c, NoPass)
    /\ UNCHANGED <<worldVars, tables, thread>>

PassStep(c) ==
    \/ FrontDays(c) \/ RawBars(c) \/ CheckFactors(c)
    \/ ReadFactors(c) \/ WriteAdjusted(c) \/ EndPass(c)

-----------------------------------------------------------------------------
(* A BaoStock thread.                                                      *)

Does(t, step) == thread[t].at = step
Becomes(t, r) == thread' = [thread EXCEPT ![t] = r]

(* Mutant: the nightly refresh fetches the last days only.                 *)
NightlyRecent(t) ==
    /\ t = "night" /\ Does(t, "idle")
    /\ Becomes(t, [NoFetch EXCEPT !.at = "days", !.todo = <<"week", "day", "min">>,
                                  !.from = IF today > Recent THEN today - Recent ELSE 1])
    /\ SameFaults /\ UNCHANGED <<worldVars, tables, pass>>

(* refresh_symbol_qfq of one frequency after the other.  The adjusted bars *)
(* leave no mark in kline_sync_meta: it always fetches the whole history.  *)
Nightly(t) ==
    /\ t = "night" /\ Does(t, "idle")
    /\ Becomes(t, [NoFetch EXCEPT !.at = "days", !.todo = <<"week", "day", "min">>])
    /\ SameFaults /\ UNCHANGED <<worldVars, tables, pass>>

(* fetch_klines_quick, by a chart that finds old bars, or too few; for     *)
(* ensure_klines_cached the whole history follows.                         *)
Old(f) == LastOf(DOMAIN legacy["baostock"][f]) < today
Quick(t, f, full) ==
    /\ t # "night" /\ Does(t, "idle") /\ Old(f)
    /\ Becomes(t, [NoFetch EXCEPT !.at = "days", !.todo = <<f>>, !.full = full,
                                  !.from = IF today > Recent THEN today - Recent ELSE 1])
    /\ SameFaults /\ UNCHANGED <<worldVars, tables, pass>>

(* After a frequency: the next one, or the whole history.                  *)
After(t) ==
    LET r == thread[t] IN
    IF r.full THEN [r EXCEPT !.at = "days", !.from = 1, !.full = FALSE, !.days = None,
                             !.bars = None]
    ELSE IF Len(r.todo) = 1 THEN NoFetch
    ELSE [r EXCEPT !.at = "days", !.todo = Tail(@), !.days = None, !.bars = None]

(* _query_raw_chunks: a chunk that fails is an empty one.                  *)
Received(from) == {(from..published) \ lost : lost \in {{}} \cup {{d} : d \in from..published}}

(* build_qfq_day_rows: from the last day back, by the change of each day;  *)
(* a missing day breaks the chain.                                         *)
Chained(D) ==
    [d \in D |-> IF d..LastOf(D) \subseteq D THEN BaseAt(LastOf(D)) ELSE Torn]

FetchDays(t) ==
    /\ Does(t, "days")
    /\ \E D \in Received(thread[t].from) :
          /\ IF D = thread[t].from..published THEN SameFaults ELSE Fault
          /\ Becomes(t, IF D = {} THEN After(t)
                        ELSE [thread[t] EXCEPT !.at = "day", !.days = Chained(D)])
    /\ UNCHANGED <<worldVars, tables, pass>>

(* rebuild_symbol_qfq: the days are always written, then what was asked    *)
(* for.                                                                    *)
WriteDays(t) ==
    /\ Does(t, "day")
    /\ Adjusts("baostock", "day", thread[t].days)
    /\ Becomes(t, CASE Head(thread[t].todo) = "day" -> After(t)
                    [] Head(thread[t].todo) = "week" -> [thread[t] EXCEPT !.at = "week"]
                    [] Head(thread[t].todo) = "min" -> [thread[t] EXCEPT !.at = "minutes"])
    /\ SameFaults /\ UNCHANGED <<worldVars, raw, pass>>

WriteWeeks(t) ==
    /\ Does(t, "week")
    /\ Adjusts("baostock", "week", Weekly(thread[t].days))
    /\ Becomes(t, After(t))
    /\ SameFaults /\ UNCHANGED <<worldVars, raw, pass>>

(* normalize_minute_rows: minutes of a day without a factor are dropped.   *)
FetchMinutes(t) ==
    /\ Does(t, "minutes")
    /\ \E D \in Received(thread[t].from) :
          /\ IF D = thread[t].from..published THEN SameFaults ELSE Fault
          /\ Becomes(t, [thread[t] EXCEPT !.at = "min", !.bars =
                            Restrict(thread[t].days, D \cap DOMAIN thread[t].days)])
    /\ UNCHANGED <<worldVars, tables, pass>>

WriteMinutes(t) ==
    /\ Does(t, "min")
    /\ Adjusts("baostock", "min", thread[t].bars)
    /\ Becomes(t, After(t))
    /\ SameFaults /\ UNCHANGED <<worldVars, raw, pass>>

ThreadStep(t) ==
    FetchDays(t) \/ WriteDays(t) \/ WriteWeeks(t) \/ FetchMinutes(t) \/ WriteMinutes(t)

-----------------------------------------------------------------------------
(* The world.                                                              *)

LakeStops ==
    /\ Fault
    /\ pass' = [c \in Callers |-> NoPass] /\ thread' = [t \in Threads |-> NoFetch]
    /\ UNCHANGED <<worldVars, tables>>

NextDay ==
    /\ today < MaxDay /\ today' = today + 1
    /\ SameFaults /\ UNCHANGED <<dayFile, minFile, published, tables, pass, thread>>

MinutesCome ==
    /\ minFile < today /\ minFile' = today
    /\ SameFaults /\ UNCHANGED <<today, dayFile, published, tables, pass, thread>>

DaysCome ==
    /\ dayFile < today /\ dayFile' = today
    /\ SameFaults /\ UNCHANGED <<today, minFile, published, tables, pass, thread>>

Publish ==
    /\ published < today /\ published' = today
    /\ SameFaults /\ UNCHANGED <<today, dayFile, minFile, tables, pass, thread>>

World == NextDay \/ MinutesCome \/ DaysCome \/ Publish

-----------------------------------------------------------------------------
(* Which bars structure is computed from.                                  *)

Usable(f, rows) == rows # None /\ (f = "day" \/ Cardinality(DOMAIN rows) >= Enough)

HasDayFactor == None \notin {adjusted["tdx"]["day"], legacy["tdx"]["day"]}

(* resolve_structure_source_policy: what TDX bars must be, besides usable. *)
TdxUsable(f, rows) ==
    /\ Usable(f, rows) /\ (f = "day" \/ HasDayFactor)
    /\ LastOf(DOMAIN rows) >= LastOf(raw[f])
    /\ LastOf(DOMAIN rows) >= LastOf(DOMAIN adjusted["baostock"][f] \cup
                                 DOMAIN legacy["baostock"][f])

(* query_structure_klines: the bars of the first candidate that is usable, *)
(* or else of the last candidate.                                          *)
Served(f) ==
    CASE TdxUsable(f, adjusted["tdx"][f]) -> adjusted["tdx"][f]
      [] Usable(f, adjusted["baostock"][f]) -> adjusted["baostock"][f]
      [] TdxUsable(f, legacy["tdx"][f]) -> legacy["tdx"][f]
      [] OTHER -> legacy["baostock"][f]

(* signature_for_level: a level without bars is bootstrapped.              *)
Bootstrap(c, f) == Served(f) = None /\ Begin(c, f)

Starts(c) == \E scope \in {"daily", "full", "new"} : Begin(c, scope)

LakeNext ==
    \/ \E c \in Callers :
          \/ Starts(c) \/ \E f \in Freqs : Bootstrap(c, f)
          \/ PassStep(c) \/ RebuildRaises(c)
    \/ \E t \in Threads :
          \/ Nightly(t) \/ \E f \in Freqs, full \in BOOLEAN : Quick(t, f, full)
          \/ ThreadStep(t)
    \/ World \/ LakeStops

LakeSpec == LakeInit /\ [][LakeNext]_lakeVars
-----------------------------------------------------------------------------
(* What must be true.                                                      *)

(* The bars of TDX that a level can be computed from are on one base: no   *)
(* ex-right day shows as a move of the price.  The weeks of adjusted_bars  *)
(* are left out: see OneRowPerWeek.                                        *)
OnOneBase(rows) == \A d, e \in DOMAIN rows : rows[d] = rows[e]
TdxOnOneBase ==
    \A f \in Freqs :
        OnOneBase(legacy["tdx"][f]) /\ (f # "week" => OnOneBase(adjusted["tdx"][f]))

(* The tables are of their types, and TDX bars of a level on one base      *)
(* (rebuild_tdx_qfq_from_existing_factors, upsert_adjusted_bars).          *)
LakeSound == LakeTypeOK /\ TdxOnOneBase

(* BaoStock bars that were torn apart, by a quick fetch after an ex-right  *)
(* day or by a missing answer, come on one base again.                     *)
BaoStockHeals == []<>(\A f \in {"day", "min"} : OnOneBase(adjusted["baostock"][f]))

(* The days that have come with the files of TDX are served in the end, on *)
(* every level with enough bars of days that are there.                    *)
Complete(f) ==
    \/ LastOf(DOMAIN Served(f)) >= Min({dayFile, minFile})
    \/ f # "day" /\ Cardinality(raw[f] \cap raw["day"]) < Enough
PublishedIsServed == []<>(\A f \in Freqs : Complete(f))

(* "For tracked symbols we can safely derive the missing raw day row ...   *)
(* and keep the formal snapshot chain moving" (tdx_minute_service.py:322): *)
(* no day of the files is missing between the others.                      *)
ChainHasEveryDay == []<>(1..Min({dayFile, minFile}) \subseteq DOMAIN Served("day"))

(* "The data lake must still expose exactly one row per ISO trading week"  *)
(* (kline_lake.py:1254).                                                   *)
OneRowPerWeek ==
    \A d, e \in DOMAIN Served("week") : WeekOf[d] = WeekOf[e] => d = e
=============================================================================
