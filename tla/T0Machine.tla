------------------------------ MODULE T0Machine ------------------------------
(***************************************************************************)
(* The T+0 state machine of server/engines/t0/t0_state_machine.py as       *)
(* values: the fields of one T0StateMachine object form a record, the      *)
(* arguments of one tick() call another, and each branch of tick() and     *)
(* force_sweep() is a pair of operators, the condition under which the     *)
(* branch is taken and the record it leaves behind.  T0StateMachine.tla    *)
(* turns them into actions; T0Engine.tla applies them to the object in the *)
(* engine's memory and to the copy restored from the state cache.          *)
(*                                                                         *)
(* Prices are ticks, quantities lots, money 1e-5 yuan (T0Friction), stop   *)
(* prices thousandths of a tick.  0 stands for None in a price field: the  *)
(* code tests these fields for truth, which treats the two alike.          *)
(***************************************************************************)
EXTENDS Integers, T0Friction

CONSTANTS
    Dates,          \* trading days, ordered by <
    WindowIds,      \* ids of 5-minute pivot windows
    NoId            \* the empty pivot id

ASSUME DatesAssumption == Dates \subseteq Nat
ASSUME NoIdAssumption == NoId \notin WindowIds

Directions == {"LONG_ONLY", "SHORT_ONLY", "OBSERVE_ONLY", "BOTH"}
Sides == {"LONG", "SHORT"}
Windows == WindowIds \X Sides
Ids == WindowIds \cup {NoId}
EntryDirections == Sides \cup {""}
Lots == Nat \ {0}
Prices == Nat \ {0}
T0States == {"IDLE", "POSITION_LONG", "POSITION_SHORT", "LOCKDOWN"}
NoLimit == -1       \* daily_loss_limit is None

(* The serialized fields of a T0StateMachine that outlive a tick.          *)
Machines ==
    [ state : T0States, trade_date : Dates, t0_qty : Lots,
      entry_price : Nat, target_price : Nat,
      stop_structural : Int, stop_catastrophic : Int,
      current_open_qty : Lots,
      entry_pivot_id : Ids, entry_direction : EntryDirections,
      traded_pivot_ids : SUBSET Windows,
      zd_touch_count : Nat, last_pivot_zd : Nat,
      daily_pnl : Int, daily_trades : Nat, daily_stop_count : Nat ]

Pivots == [id : Ids, zd : Nat, zg : Nat]
NoPivot == [id |-> NoId, zd |-> 0, zg |-> 0]

(* The arguments of tick(), with the filters the machine reads only as     *)
(* yes or no already evaluated: the fractal that the last three 1-minute   *)
(* bars confirm (a bottom and a top exclude each other), whether the       *)
(* strokes veto a long, whether the short quality filter is clear.  size   *)
(* is the policy multiplier in percent, available the sellable base.       *)
TickInputs ==
    [ date : Dates, price : Prices, pivot : Pivots, atr : Nat,
      fractal : {"none", "bottom", "top"}, bi_veto : BOOLEAN,
      short_clear : BOOLEAN, direction : Directions, size : 0..100,
      t0_qty : Lots, available : Nat, loss_limit : Nat \cup {NoLimit} ]

(* A machine just built, or reset for day d: __init__ and reset_daily.     *)
Fresh(d, qty) ==
    [ state |-> "IDLE", trade_date |-> d, t0_qty |-> qty,
      entry_price |-> 0, target_price |-> 0,
      stop_structural |-> 0, stop_catastrophic |-> 0,
      current_open_qty |-> qty, entry_pivot_id |-> NoId, entry_direction |-> "",
      traded_pivot_ids |-> {}, zd_touch_count |-> 0, last_pivot_zd |-> 0,
      daily_pnl |-> 0, daily_trades |-> 0, daily_stop_count |-> 0 ]

(* Mutant: a new day that forgets to clear the traded windows.             *)
AtTickKeepingWindows(m, i) ==
    IF m.trade_date = i.date THEN [m EXCEPT !.t0_qty = i.t0_qty]
    ELSE [Fresh(i.date, i.t0_qty) EXCEPT !.traded_pivot_ids = m.traded_pivot_ids]

(* What tick() works on: the caller has assigned t0_qty, and the first     *)
(* tick of another day resets the machine before anything else.            *)
AtTick(m, i) ==
    IF m.trade_date = i.date THEN [m EXCEPT !.t0_qty = i.t0_qty]
                             ELSE Fresh(i.date, i.t0_qty)

-----------------------------------------------------------------------------
(* Quantities.                                                             *)

Smaller(a, b) == IF a <= b THEN a ELSE b
AtLeastOne(a) == IF a >= 1 THEN a ELSE 1

ScaledQty(base, size) ==
    IF base < 1 \/ size <= 0 THEN 0
    ELSE Smaller(base, AtLeastOne((base * size) \div 100))

ShortAvailableQty(i) == Smaller(i.t0_qty, i.available)

(* Half on the first touch of a ZD, in full afterwards.                    *)
LongQty(touches, i) ==
    LET full == ScaledQty(i.t0_qty, i.size)
    IN  IF touches = 1 /\ full >= 1 THEN AtLeastOne(full \div 2) ELSE full

-----------------------------------------------------------------------------
(* The IDLE branches.                                                      *)

HasPivot(p) == p.zd # 0 /\ p.zg > p.zd

RiskBreached(m, i) ==
    \/ i.loss_limit # NoLimit /\ m.daily_pnl <= -i.loss_limit
    \/ m.daily_stop_count >= 2

(* The guards that come before the trigger zones.                          *)
Permitted(m, i) ==
    /\ m.state = "IDLE" /\ ~RiskBreached(m, i)
    /\ HasPivot(i.pivot)
    /\ GridViable(i.pivot.zg - i.pivot.zd, i.price, i.t0_qty)
    /\ i.direction # "OBSERVE_ONLY" /\ i.size > 0

(* A new ZD restarts the count of touches.                                 *)
Drifted(m, i) ==
    IF m.last_pivot_zd = i.pivot.zd THEN m
    ELSE [m EXCEPT !.zd_touch_count = 0, !.last_pivot_zd = i.pivot.zd]

(* A touch of the ZD counts when a bottom fractal confirms it.             *)
Touched(m, i) == [Drifted(m, i) EXCEPT !.zd_touch_count = @ + 1]

InLongZone(i) == 1000 * i.price <= 1005 * i.pivot.zd
InShortZone(i) == ~InLongZone(i) /\ 1000 * i.price >= 995 * i.pivot.zg

(* _pivot_already_traded: without an id the key names the ZD, and nothing  *)
(* is ever recorded under such a key.                                      *)
AlreadyTraded(m, i, side) == <<i.pivot.id, side>> \in m.traded_pivot_ids

CanOpenLong(m, i) ==
    /\ Permitted(m, i) /\ InLongZone(i)
    /\ i.direction \in {"LONG_ONLY", "BOTH"}
    /\ ~AlreadyTraded(m, i, "LONG")
    /\ EnoughEdge(i.pivot.zg - i.price, i.price, i.t0_qty)
    /\ ~i.bi_veto
    /\ i.fractal = "bottom"
    /\ LongQty(Touched(m, i).zd_touch_count, i) >= 1

CanOpenShort(m, i) ==
    /\ Permitted(m, i) /\ InShortZone(i)
    /\ i.direction \in {"SHORT_ONLY", "BOTH"}
    /\ ~AlreadyTraded(m, i, "SHORT")
    /\ EnoughEdge(i.price - i.pivot.zd, i.price, i.t0_qty)
    /\ i.short_clear
    /\ ScaledQty(ShortAvailableQty(i), i.size) >= 1
    /\ i.fractal = "top"

Entered(m, i, side, target, qty) ==
    [m EXCEPT !.entry_price = i.price, !.target_price = target,
              !.entry_pivot_id = i.pivot.id, !.entry_direction = side,
              !.current_open_qty = qty, !.daily_trades = @ + 1]

OpenedLong(m, i) ==
    LET d == Touched(m, i)
    IN  [Entered(d, i, "LONG", i.pivot.zg, LongQty(d.zd_touch_count, i)) EXCEPT
            !.state = "POSITION_LONG",
            !.stop_structural = IF i.atr > 0
                                THEN 1000 * i.pivot.zd - 1200 * i.atr
                                ELSE 995 * i.pivot.zd,
            !.stop_catastrophic = 970 * i.price]

(* Mutant: the stops of an earlier long stay.                              *)
OpenedShortKeepingStops(m, i) ==
    [Entered(Drifted(m, i), i, "SHORT", i.pivot.zd,
             ScaledQty(ShortAvailableQty(i), i.size)) EXCEPT
        !.state = "POSITION_SHORT"]

OpenedShort(m, i) ==
    [Entered(Drifted(m, i), i, "SHORT", i.pivot.zd,
             ScaledQty(ShortAvailableQty(i), i.size)) EXCEPT
        !.state = "POSITION_SHORT",
        !.stop_structural = 0, !.stop_catastrophic = 0]

Locked(m) == [m EXCEPT !.state = "LOCKDOWN"]

-----------------------------------------------------------------------------
(* The position branches.                                                  *)

StopHit(m, price) ==
    \/ m.stop_catastrophic # 0 /\ 1000 * price <= m.stop_catastrophic
    \/ m.stop_structural # 0 /\ 1000 * price <= m.stop_structural

CanStopLong(m, i) == m.state = "POSITION_LONG" /\ StopHit(m, i.price)

CanTakeProfit(m, i) ==
    /\ m.state = "POSITION_LONG" /\ ~StopHit(m, i.price)
    /\ m.target_price # 0 /\ i.price >= m.target_price

CanCoverAtTarget(m, i) ==
    m.state = "POSITION_SHORT" /\ m.target_price # 0 /\ i.price <= m.target_price

(* The smart cover: below the sale price, on a confirmed bottom.           *)
CanCoverEarly(m, i) ==
    /\ m.state = "POSITION_SHORT" /\ ~CanCoverAtTarget(m, i)
    /\ m.entry_price # 0 /\ i.price < m.entry_price
    /\ i.fractal = "bottom"

(* Mutant: the window is marked without looking at its id.                 *)
MarkedAnyway(m) == m.traded_pivot_ids \cup {<<m.entry_pivot_id, m.entry_direction>>}

(* _mark_entry_pivot_traded: only a position with a pivot id is marked.    *)
Marked(m) ==
    IF m.entry_pivot_id = NoId \/ m.entry_direction = "" THEN m.traded_pivot_ids
    ELSE m.traded_pivot_ids \cup {<<m.entry_pivot_id, m.entry_direction>>}

LongNet(m, price) ==
    Gross(price - m.entry_price, m.current_open_qty)
        - SellCost(price, m.current_open_qty)
ShortNet(m, price) ==
    Gross(m.entry_price - price, m.current_open_qty)
        - BuyCost(price, m.current_open_qty)

(* Mutant: the open quantity is cleared like the other fields.             *)
FlatWithoutQty(m, state) ==
    [m EXCEPT !.state = state, !.entry_price = 0, !.entry_pivot_id = NoId,
              !.entry_direction = "", !.current_open_qty = 0]

(* What every exit clears.                                                 *)
Flat(m, state) ==
    [m EXCEPT !.state = state, !.entry_price = 0, !.entry_pivot_id = NoId,
              !.entry_direction = "", !.current_open_qty = m.t0_qty]

(* Mutant: a stop that does not lock the day.                              *)
StoppedLongUnlocked(m, i) ==
    [Flat(m, "IDLE") EXCEPT !.daily_pnl = @ + LongNet(m, i.price),
                            !.daily_stop_count = @ + 1,
                            !.traded_pivot_ids = Marked(m)]

StoppedLong(m, i) ==
    [Flat(m, "LOCKDOWN") EXCEPT !.daily_pnl = @ + LongNet(m, i.price),
                                !.daily_stop_count = @ + 1,
                                !.traded_pivot_ids = Marked(m)]

(* Mutant: a take-profit that leaves the state as it was.                  *)
TookProfitStillLong(m, i) ==
    [Flat(m, "POSITION_LONG") EXCEPT !.daily_pnl = @ + LongNet(m, i.price),
                                     !.target_price = 0,
                                     !.traded_pivot_ids = Marked(m)]

TookProfit(m, i) ==
    [Flat(m, "IDLE") EXCEPT !.daily_pnl = @ + LongNet(m, i.price),
                            !.target_price = 0,
                            !.traded_pivot_ids = Marked(m)]

(* Mutant: a cover that does not mark its window.                          *)
CoveredUnmarked(m, i) ==
    [Flat(m, "IDLE") EXCEPT !.daily_pnl = @ + ShortNet(m, i.price),
                            !.target_price = 0]

Covered(m, i) ==
    [Flat(m, "IDLE") EXCEPT !.daily_pnl = @ + ShortNet(m, i.price),
                            !.target_price = 0,
                            !.traded_pivot_ids = Marked(m)]

-----------------------------------------------------------------------------
(* force_sweep: a long is sold and its window is not marked; a short is    *)
(* written off as a reduction of the base position, at no trade.           *)

SweptLong(m, price) ==
    [Flat(m, "IDLE") EXCEPT !.daily_pnl = @ + LongNet(m, price),
                            !.daily_trades = @ + 1]

(* Mutant: a write-off that does not mark its window.                      *)
ReduceLockedUnmarked(m) ==
    [Flat(m, "IDLE") EXCEPT !.target_price = 0,
                            !.stop_structural = 0, !.stop_catastrophic = 0]

ReduceLocked(m) ==
    [Flat(m, "IDLE") EXCEPT !.target_price = 0,
                            !.stop_structural = 0, !.stop_catastrophic = 0,
                            !.traded_pivot_ids = Marked(m)]
=============================================================================
