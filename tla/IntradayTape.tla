----------------------------- MODULE IntradayTape -----------------------------
(***************************************************************************)
(* The tape of today's minutes of one symbol, made of quotes               *)
(* (services/intraday_observation_service.py).                             *)
(*   - The sampler, the pages and the chat take quotes; each is folded     *)
(*     into the bar of its minute in memory, and the bar is written to     *)
(*     the intraday lake.                                                  *)
(*   - A TDX pass stores official bars and then hides the rows of the day  *)
(*     in the intraday lake.                                               *)
(*   - The coach reads the tape: memory over official bars over the lake;  *)
(*     the page draws the lake over the official bars, and the bar of the  *)
(*     moment from a cache of its own.                                     *)
(* A request goes on after other requests have had their turn wherever it  *)
(* awaits or runs in a pool thread.  Volumes, and days before today, are   *)
(* left out.                                                               *)
(***************************************************************************)
EXTENDS Integers, Sequences, FiniteSets, FiniteSetsExt

CONSTANTS
    LastMinute,     \* the minutes of the day are 1..LastMinute
    GroupOf,        \* minute -> the 5-minute bar it belongs to
    Quotes,         \* the prices of quotes
    Requesters,     \* requests that may be at work at a time
    Pages,          \* those of them that draw a page
    Threads,        \* some of them run in a thread of their own
    Midday,         \* official bars may come before the end of the day
    OutOfOrder,     \* a quote may be of an earlier minute than the last one
    MaxQuotes,      \* bound: quotes
    MaxFaults,      \* bound: writes to the intraday lake that fail
    MaxRestarts     \* bound: restarts of the server

ASSUME TapeBounds ==
    /\ {LastMinute, MaxQuotes, MaxFaults, MaxRestarts} \subseteq Nat
    /\ Pages \subseteq Requesters /\ Quotes \subseteq Nat \ {0} /\ Quotes # {}
    /\ GroupOf \in [1..LastMinute -> Nat]

VARIABLES
    clock,          \* the minute it is, LastMinute + 1 after the close
    memory,         \* _LIVE_1M_BY_SYMBOL: minute -> bar
    live,           \* _LIVE_1M_BARS: the bar of the moment on the page
    preview,        \* intraday_bars: minute -> row
    official,       \* klines of TDX: adjustflag -> minutes
    hiding,         \* a TDX pass is between its bars and the hiding of rows
    request,        \* caller -> its request
    chart,          \* what the page drew last: minute -> bar
    taken,          \* history: the quotes, [minute, price]
    born,           \* history: how many of them an earlier process took
    faults,         \* history: see MaxFaults
    restarts        \* history: see MaxRestarts

tapeVars ==
    <<clock, memory, live, preview, official, hiding, request, chart, taken, born, faults,
      restarts>>
history == <<taken, born, faults, restarts>>

Minutes == 1..LastMinute
Closing == LastMinute + 1
Adjustflags == {"2", "3"}
NoRows == [m \in {} |-> 0]

MinuteBars ==
    [open : Quotes, high : Quotes, low : Quotes, close : Quotes, samples : Nat,
     forming : BOOLEAN]
PreviewRows == [bar : MinuteBars, hidden : BOOLEAN]

(* An official bar is complete; its prices are TDX's: one of them stands   *)
(* for all.                                                                *)
OfficialBar ==
    LET tdx == CHOOSE p \in Quotes : TRUE
    IN  [open |-> tdx, high |-> tdx, low |-> tdx, close |-> tdx, samples |-> 0,
         forming |-> FALSE]

Idle == [at |-> "idle", minute |-> 0, price |-> 0, rows |-> NoRows,
         base |-> NoRows]

-----------------------------------------------------------------------------
(* A quote and the bars in memory. *)

FirstOf(price) ==
    [open |-> price, high |-> price, low |-> price, close |-> price, samples |-> 1,
     forming |-> TRUE]

Folded(bar, price) ==
    [bar EXCEPT !.high = Max({@, price}), !.low = Min({@, price}), !.close = price,
                !.samples = @ + 1, !.forming = TRUE]

(* Mutant: a quote makes the bar of its minute anew.                       *)
IngestedAnew(bars, minute, price) ==
    [m \in DOMAIN bars \cup {minute} |->
        IF m # minute THEN [bars[m] EXCEPT !.forming = FALSE] ELSE FirstOf(price)]

(* _ingest_quote: the bars of the other minutes close, that of the minute  *)
(* of the quote is made or goes on.                                        *)
Ingested(bars, minute, price) ==
    [m \in DOMAIN bars \cup {minute} |->
        IF m # minute THEN [bars[m] EXCEPT !.forming = FALSE]
        ELSE IF m \in DOMAIN bars THEN Folded(bars[m], price)
        ELSE FirstOf(price)]

Overlaid(below, above) ==
    [m \in DOMAIN below \cup DOMAIN above |->
        IF m \in DOMAIN above THEN above[m] ELSE below[m]]

(* query_intraday_bars                                                     *)
Visible ==
    [m \in {k \in DOMAIN preview : ~preview[k].hidden} |-> preview[m].bar]

OfficialOf(minutes) == [m \in minutes |-> OfficialBar]

(* _today_lake_1m_rows, and the bars in memory over it.                    *)
TodayInLake == Overlaid(Visible, OfficialOf(UNION {official[a] : a \in Adjustflags}))
Tape == Overlaid(TodayInLake, memory)

(* _query_tdx_display_klines: the adjusted bars, unless the raw ones go    *)
(* further.  Then _merge_m1_display_rows.                                  *)
Displayed ==
    IF official["2"] # {} /\ official["3"] # {} /\ Max(official["3"]) > Max(official["2"])
    THEN official["3"]
    ELSE IF official["2"] # {} THEN official["2"] ELSE official["3"]

PageRows == Overlaid(OfficialOf(Displayed), Visible)

(* _resample_today of the closed minutes: a 5-minute bar of the minutes    *)
(* that are there, the last one only if its last minute is there.          *)
ClosedMinutes == {m \in DOMAIN Tape : ~Tape[m].forming}
MinutesOf(group) == {m \in Minutes : GroupOf[m] = group}
ClosedGroups ==
    {g \in {GroupOf[m] : m \in ClosedMinutes} :
        \/ Max(MinutesOf(g)) \in ClosedMinutes
        \/ \E m \in ClosedMinutes : GroupOf[m] > g}
-----------------------------------------------------------------------------
TapeInit ==
    /\ clock = 1
    /\ memory = NoRows /\ live = NoRows /\ preview = NoRows
    /\ official = [a \in Adjustflags |-> {}] /\ hiding = FALSE
    /\ request = [c \in Requesters |-> Idle]
    /\ chart = NoRows
    /\ taken = <<>> /\ born = 0 /\ faults = 0 /\ restarts = 0

Is(c, at) == request[c].at = at
Becomes(c, r) == request' = [request EXCEPT ![c] = r]

MinutePasses ==
    /\ clock < Closing
    /\ clock' = clock + 1
    /\ UNCHANGED <<memory, live, preview, official, hiding, request, chart, history>>

(* The page reads its rows, then awaits the quote.                         *)
PageReads(c) ==
    /\ Is(c, "idle") /\ c \in Pages
    /\ Becomes(c, [Idle EXCEPT !.at = "quote", !.base = PageRows])
    /\ UNCHANGED <<clock, memory, live, preview, official, hiding, chart, history>>

(* There is no quote, or it is not of a trading minute.                    *)
NoQuote(c) ==
    /\ Is(c, "quote")
    /\ chart' = request[c].base
    /\ Becomes(c, Idle)
    /\ UNCHANGED <<clock, memory, live, preview, official, hiding, history>>

LastTaken == IF taken = <<>> THEN 1 ELSE Max({taken[k].minute : k \in DOMAIN taken})

(* tick awaits the bridge and no more: the quotes of a round are folded in *)
(* one after the other, as is that of a page, unless the loop is not the   *)
(* only thread.                                                            *)
LoopIsFree == \A c \in Requesters : Is(c, "idle") \/ Is(c, "quote")

(* A quote is taken: the bars are copied from memory and the quote is      *)
(* folded in.  The requests of the event loop do not await before it is    *)
(* stored and written.  After the close quotes go on to be of the last     *)
(* minute.                                                                 *)
Take(c, minute, price) ==
    /\ Is(c, IF c \in Pages THEN "quote" ELSE "idle")
    /\ minute <= clock /\ (OutOfOrder \/ minute >= LastTaken)
    /\ Threads \/ LoopIsFree
    /\ Len(taken) < MaxQuotes
    /\ Becomes(c, [request[c] EXCEPT !.at = "store", !.minute = minute, !.price = price,
                                     !.rows = Ingested(memory, minute, price)])
    /\ taken' = Append(taken, [minute |-> minute, price |-> price])
    /\ UNCHANGED <<clock, memory, live, preview, official, hiding, chart, born, faults,
                   restarts>>

Store(c) ==
    /\ Is(c, "store")
    /\ memory' = request[c].rows
    /\ Becomes(c, [request[c] EXCEPT !.at = "persist"])
    /\ UNCHANGED <<clock, live, preview, official, hiding, chart, history>>

Written(bar) == [bar |-> bar, hidden |-> FALSE]

(* _persist_live_1m_row writes the bar of the quote's minute only, and     *)
(* swallows an error.                                                      *)
Persist(c) ==
    LET r == request[c]
    IN  /\ Is(c, "persist")
        /\ \/ /\ preview' = Overlaid(preview, [m \in {r.minute} |-> Written(r.rows[m])])
              /\ UNCHANGED faults
           \/ /\ faults < MaxFaults
              /\ faults' = faults + 1
              /\ UNCHANGED preview
        /\ Becomes(c, IF c \in Pages THEN [r EXCEPT !.at = "show"] ELSE Idle)
        /\ UNCHANGED <<clock, memory, live, official, hiding, chart, taken, born, restarts>>

(* append_live_quote_1m_bar: the bar of the moment from the cache, from    *)
(* the last row if it is of the same minute, and from the quote.           *)
(* Mutant: the last row seeds the bar whatever its minute is.              *)
DrawnFromLast(r) ==
    LET own == IF r.minute \in DOMAIN live THEN {live[r.minute]} ELSE {}
        row == IF r.base # NoRows THEN {r.base[Max(DOMAIN r.base)]} ELSE {}
        prices == (UNION {{b.high, b.low} : b \in own \cup row}) \cup {r.price}
    IN  [open |-> r.price, high |-> Max(prices), low |-> Min(prices), close |-> r.price,
         samples |-> 0, forming |-> TRUE]

Drawn(r) ==
    LET later == \E m \in DOMAIN r.base : m > r.minute
        own == IF r.minute \in DOMAIN live THEN {live[r.minute]} ELSE {}
        row == IF r.minute \in DOMAIN r.base /\ ~later THEN {r.base[r.minute]} ELSE {}
        prices == (UNION {{b.high, b.low} : b \in own \cup row}) \cup {r.price}
        first == IF own # {} THEN own ELSE row
    IN  [open |-> IF first = {} THEN r.price ELSE (CHOOSE b \in first : TRUE).open,
         high |-> Max(prices), low |-> Min(prices), close |-> r.price, samples |-> 0,
         forming |-> TRUE]

Show(c) ==
    LET r == request[c]
        bar == [m \in {r.minute} |-> Drawn(r)]
    IN  /\ Is(c, "show")
        /\ IF clock = Closing
           THEN chart' = r.base /\ UNCHANGED live
           ELSE /\ live' = bar
                /\ chart' = IF \E m \in DOMAIN r.base : m > r.minute THEN r.base
                            ELSE Overlaid(r.base, bar)
        /\ Becomes(c, Idle)
        /\ UNCHANGED <<clock, memory, preview, official, hiding, history>>
-----------------------------------------------------------------------------
(* Official bars of today: adjusted ones of the bridge at any time, raw    *)
(* ones of the local files after the close.                                *)
StoreOfficial(adjustflag, last) ==
    /\ ~hiding
    /\ clock = Closing \/ (Midday /\ adjustflag = "2" /\ last < clock)
    /\ clock = Closing => last = LastMinute
    /\ official' = [official EXCEPT ![adjustflag] = 1..last]
    /\ hiding' = TRUE
    /\ UNCHANGED <<clock, memory, live, preview, request, chart, history>>

(* mark_intraday_replaced_by_official: all rows of the day.                *)
Replaced(rows) == [m \in DOMAIN rows |-> [rows[m] EXCEPT !.hidden = TRUE]]

(* mark_intraday_replaced_for_official_rows                                *)
HideRows ==
    /\ hiding
    /\ hiding' = FALSE
    /\ preview' = Replaced(preview)
    /\ UNCHANGED <<clock, memory, live, official, request, chart, history>>

(* What a process holds is gone, the two lakes stay.                       *)
Restart ==
    /\ restarts < MaxRestarts
    /\ restarts' = restarts + 1
    /\ memory' = NoRows /\ live' = NoRows /\ hiding' = FALSE
    /\ request' = [c \in Requesters |-> Idle]
    /\ born' = Len(taken)
    /\ UNCHANGED <<clock, preview, official, chart, taken, faults>>

TapeNext ==
    \/ MinutePasses
    \/ \E c \in Requesters :
          \/ PageReads(c) \/ NoQuote(c) \/ Store(c) \/ Persist(c) \/ Show(c)
          \/ \E m \in Minutes, p \in Quotes : Take(c, m, p)
    \/ \E a \in Adjustflags, last \in Minutes : StoreOfficial(a, last)
    \/ HideRows
    \/ Restart

TapeSpec == TapeInit /\ [][TapeNext]_tapeVars
-----------------------------------------------------------------------------
(* Properties. *)

TapeTypeOK ==
    /\ clock \in 1..Closing
    /\ \A rows \in {memory, live, chart} :
          DOMAIN rows \subseteq Minutes /\ \A m \in DOMAIN rows : rows[m] \in MinuteBars
    /\ DOMAIN preview \subseteq Minutes /\ \A m \in DOMAIN preview : preview[m] \in PreviewRows
    /\ Cardinality(DOMAIN live) <= 1
    /\ \A c \in Requesters : request[c].at \in {"idle", "quote", "store", "persist", "show"}

(* The quotes of a minute, from the given one on, and their prices.        *)
TakenOf(m, first) == {k \in first .. Len(taken) : taken[k].minute = m}
PricesOf(ks) == {taken[k].price : k \in ks}

Settled == \A c \in Requesters : request[c].at \notin {"store", "persist"}

(* A bar made of these quotes in their order.                              *)
MadeOf(bar, ks) ==
    /\ bar.open = taken[Min(ks)].price /\ bar.close = taken[Max(ks)].price
    /\ bar.high = Max(PricesOf(ks)) /\ bar.low = Min(PricesOf(ks))
    /\ bar.samples = Cardinality(ks)

(* The bars in memory are those of all quotes that this process took:      *)
(* none is lost between the sampler and the page, and only the bar of the  *)
(* latest minute is open.                                                  *)
MemoryIsFold ==
    LET minutes == {taken[k].minute : k \in born + 1 .. Len(taken)}
    IN  Settled =>
            /\ DOMAIN memory = minutes
            /\ \A m \in minutes :
                  /\ MadeOf(memory[m], TakenOf(m, born + 1))
                  /\ memory[m].forming <=> m = Max(minutes)

(* The intraday lake has the prices of every bar in memory, as long as no  *)
(* write to it failed.                                                     *)
LakeShowsMemory ==
    Settled /\ faults = 0 =>
        \A m \in DOMAIN memory :
            /\ m \in DOMAIN preview
            /\ [preview[m].bar EXCEPT !.forming = FALSE] = [memory[m] EXCEPT !.forming = FALSE]

(* A bar of a minute has no price that was not quoted in that minute, and  *)
(* its open and close lie between its low and its high.                    *)
Quoted(m, bar) ==
    /\ {bar.open, bar.high, bar.low, bar.close} \subseteq PricesOf(TakenOf(m, 1))
    /\ {bar.open, bar.close} \subseteq bar.low..bar.high

(* Whatever is lost, repeated or read too early: every bar is TDX's or has *)
(* the prices of its minute.                                               *)
PricesWereQuoted ==
    /\ \A rows \in {memory, live, chart} : \A m \in DOMAIN rows :
          rows[m] = OfficialBar \/ Quoted(m, rows[m])
    /\ \A m \in DOMAIN preview : Quoted(m, preview[m].bar)

(* A minute of the tape is hidden only where an official bar has its       *)
(* place.                                                                  *)
HiddenIsReplaced ==
    \A m \in DOMAIN preview : preview[m].hidden => \E a \in Adjustflags : m \in official[a]

(* The tape: rows of their types, prices that were quoted, minutes hidden  *)
(* only behind official bars, and memory and lake made of all quotes that  *)
(* were taken (_ingest_quote, mark_intraday_replaced_by_official).         *)
TapeSound ==
    TapeTypeOK /\ PricesWereQuoted /\ HiddenIsReplaced /\ MemoryIsFold /\ LakeShowsMemory

(* "Persist the live preview 1m row so restart can continue today's tape"  *)
(* (_persist_live_1m_row): a minute before the last one that was written   *)
(* is closed in the tape, so that the closed 5-minute bars go on over a    *)
(* restart.                                                                *)
FinishedIsClosed ==
    Settled => \A m \in DOMAIN preview : m < Max(DOMAIN preview) => m \in ClosedMinutes
=============================================================================
