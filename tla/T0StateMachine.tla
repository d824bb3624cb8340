--------------------------- MODULE T0StateMachine ---------------------------
(***************************************************************************)
(* One T0StateMachine object driven by its callers: tick() on every price, *)
(* force_sweep() at the end of the day.  Each branch of tick() is an       *)
(* action; a tick that is the first of a new day resets the machine and    *)
(* goes on in the same call, so every branch starts from AtTick.           *)
(***************************************************************************)
EXTENDS Integers, T0Machine

CONSTANTS
    Market,         \* the tick arguments that can occur (their date is replaced)
    T0Qty,          \* the quantity the object is built with, in lots
    MaxTrades       \* bound: no position is opened beyond this many trades a day

ASSUME MarketAssumption == Market \subseteq TickInputs
ASSUME T0QtyAssumption == T0Qty \in Lots
ASSUME MaxTradesAssumption == MaxTrades \in Nat

VARIABLES
    machine,        \* the object
    signal,         \* the signal of the last call
    today,          \* the date in the caller's timestamp
    round_trips     \* history: positions closed today, by window

vars == <<machine, signal, today, round_trips>>

Fills == {"BUY_LONG", "SELL_LONG", "STOP_LONG", "SELL_SHORT", "BUY_SHORT",
          "SWEEP_LONG"}
Signals == Fills \cup {"", "REDUCE_LOCK", "RAISED"}

NoTrips == [w \in Windows |-> 0]

TypeOK ==
    /\ machine \in Machines
    /\ signal \in Signals
    /\ today \in Dates
    /\ round_trips \in [Windows -> Nat]

Init ==
    /\ today \in {d \in Dates : \A e \in Dates : d <= e}
    /\ machine = Fresh(today, T0Qty)
    /\ signal = ""
    /\ round_trips = NoTrips

-----------------------------------------------------------------------------
(* The history follows the machine's day, not the calendar's.              *)
TripsAt(i) == IF machine.trade_date = i.date THEN round_trips ELSE NoTrips

CountTrip(trips, m) ==
    [w \in Windows |->
        IF w = <<m.entry_pivot_id, m.entry_direction>> THEN trips[w] + 1
                                                       ELSE trips[w]]

Opens(i, after, fill) ==
    /\ machine' = after
    /\ signal' = fill
    /\ round_trips' = TripsAt(i)
    /\ UNCHANGED today

Closes(i, m, after, fill) ==
    /\ machine' = after
    /\ signal' = fill
    /\ round_trips' = CountTrip(TripsAt(i), m)
    /\ UNCHANGED today

Stays(i, after) ==
    /\ machine' = after
    /\ signal' = ""
    /\ round_trips' = TripsAt(i)
    /\ UNCHANGED today

OpenLong(i) ==
    LET m == AtTick(machine, i)
    IN  /\ CanOpenLong(m, i) /\ m.daily_trades < MaxTrades
        /\ Opens(i, OpenedLong(m, i), "BUY_LONG")

OpenShort(i) ==
    LET m == AtTick(machine, i)
    IN  /\ CanOpenShort(m, i) /\ m.daily_trades < MaxTrades
        /\ Opens(i, OpenedShort(m, i), "SELL_SHORT")

StopLong(i) ==
    LET m == AtTick(machine, i)
    IN  CanStopLong(m, i) /\ Closes(i, m, StoppedLong(m, i), "STOP_LONG")

(* The reason of a take-profit formats "self._target_price or pivot_zg",   *)
(* and the target is already None there: without a pivot the call raises   *)
(* after it has changed the object, and its result is lost.                *)
TakeProfit(i) ==
    LET m == AtTick(machine, i)
    IN  /\ CanTakeProfit(m, i)
        /\ Closes(i, m, TookProfit(m, i),
                  IF i.pivot = NoPivot THEN "RAISED" ELSE "SELL_LONG")

(* The same for a cover at the target, which formats pivot_zd.             *)
CoverAtTarget(i) ==
    LET m == AtTick(machine, i)
    IN  /\ CanCoverAtTarget(m, i)
        /\ Closes(i, m, Covered(m, i),
                  IF i.pivot = NoPivot THEN "RAISED" ELSE "BUY_SHORT")

CoverEarly(i) ==
    LET m == AtTick(machine, i)
    IN  CanCoverEarly(m, i) /\ Closes(i, m, Covered(m, i), "BUY_SHORT")

RiskLock(i) ==
    LET m == AtTick(machine, i)
    IN  m.state = "IDLE" /\ RiskBreached(m, i) /\ Stays(i, Locked(m))

(* IDLE, and the tick opens nothing.                                       *)
Watch(i) ==
    LET m == AtTick(machine, i)
    IN  /\ m.state = "IDLE" /\ ~RiskBreached(m, i)
        /\ ~CanOpenLong(m, i) /\ ~CanOpenShort(m, i)
        /\ Stays(i, IF Permitted(m, i) THEN Drifted(m, i) ELSE m)

(* A position that is kept, or a locked day.                               *)
Hold(i) ==
    LET m == AtTick(machine, i)
    IN  /\ m.state # "IDLE"
        /\ ~CanStopLong(m, i) /\ ~CanTakeProfit(m, i)
        /\ ~CanCoverAtTarget(m, i) /\ ~CanCoverEarly(m, i)
        /\ Stays(i, m)

Tick(i) ==
    \/ OpenLong(i) \/ OpenShort(i)
    \/ StopLong(i) \/ TakeProfit(i)
    \/ CoverAtTarget(i) \/ CoverEarly(i)
    \/ RiskLock(i) \/ Watch(i) \/ Hold(i)

Inputs == {[a EXCEPT !.date = today] : a \in Market}

ForceSweepLong(price) ==
    /\ machine.state = "POSITION_LONG"
    /\ machine' = SweptLong(machine, price)
    /\ signal' = "SWEEP_LONG"
    /\ UNCHANGED <<today, round_trips>>

ForceSweepShort ==
    /\ machine.state = "POSITION_SHORT"
    /\ machine' = ReduceLocked(machine)
    /\ signal' = "REDUCE_LOCK"
    /\ round_trips' = CountTrip(round_trips, machine)
    /\ UNCHANGED today

(* Midnight passes between two calls.                                      *)
NewDay ==
    /\ today' \in {d \in Dates : d > today /\ \A e \in Dates : e > today => d <= e}
    /\ UNCHANGED <<machine, signal, round_trips>>

Next ==
    \/ \E i \in Inputs : Tick(i)
    \/ \E i \in Market : ForceSweepLong(i.price)
    \/ ForceSweepShort
    \/ NewDay

Spec == Init /\ [][Next]_vars

-----------------------------------------------------------------------------
(* Properties.                                                             *)

(* One window, one trade: whatever the order of take-profits, stops,       *)
(* covers and write-offs, the positions closed today in one identified     *)
(* window and direction are at most one.  (A long closed by force_sweep is *)
(* not marked, and not counted.)                                           *)
OneRoundTripPerWindow == \A w \in Windows : round_trips[w] <= 1

(* The record that refuses a second trade is exactly the history of the    *)
(* windows closed, and an open position's own window is not yet in it:     *)
(* the inductive strengthening of OneRoundTripPerWindow.                   *)
MarksTrips(trips, m) ==
    /\ \A w \in Windows : trips[w] = IF w \in m.traded_pivot_ids THEN 1 ELSE 0
    /\ m.state \in {"POSITION_LONG", "POSITION_SHORT"} =>
          <<m.entry_pivot_id, m.entry_direction>> \notin m.traded_pivot_ids

WindowsRecorded == MarksTrips(round_trips, machine)

(* A position is always bracketed by the prices that end it: a long enters *)
(* below its target and above its catastrophic stop, with the edge that    *)
(* paid for two round trips of the configured quantity; a short enters     *)
(* above its target and carries no stop, also after the branches that      *)
(* leave old stops and targets behind; a flat machine forgets its entry.   *)
LongBracket(m) ==
    /\ m.entry_price < m.target_price
    /\ 0 < m.stop_catastrophic
    /\ m.stop_catastrophic < 1000 * m.entry_price
    /\ m.entry_direction = "LONG"

ShortBracket(m) ==
    /\ 0 < m.target_price
    /\ m.target_price < m.entry_price
    /\ m.stop_catastrophic = 0 /\ m.stop_structural = 0
    /\ m.entry_direction = "SHORT"

Vacant(m) == m.entry_price = 0 /\ m.entry_direction = ""

Bracketed(m) ==
    /\ m.state = "POSITION_LONG" => LongBracket(m)
    /\ m.state = "POSITION_SHORT" => ShortBracket(m)
    /\ m.state \in {"IDLE", "LOCKDOWN"} => Vacant(m)

PositionBracketed == Bracketed(machine)

(* The object keeps the life cycle its docstring draws: see T0Lifecycle.   *)
(* A window is a pair of an id and a direction; the empty id names none.   *)
OpenWindow ==
    IF machine.state \in {"POSITION_LONG", "POSITION_SHORT"}
    THEN <<machine.entry_pivot_id, machine.entry_direction>>
    ELSE <<NoId, "">>

Lifecycle == INSTANCE T0Lifecycle
    WITH Identified <- Windows, Anonymous <- {NoId} \X Sides,
         NoWindow <- <<NoId, "">>,
         phase <- machine.state, window <- OpenWindow,
         completed <- machine.traded_pivot_ids, day <- machine.trade_date

KeepsLifecycle == Lifecycle!LifecycleSpec
=============================================================================
