------------------------------ MODULE PaperReplay ------------------------------
(***************************************************************************)
(* A paper replay of the intraday T strategy (engines/execution/paper_*.py *)
(* and engines/decision/intraday_t_*.py).  A holder of a base position     *)
(* trades Qty shares around it: a first leg in one direction, a second leg *)
(* back, decided bar by bar from the features of the structure, filled at  *)
(* the open of the next bar by a simulated account.                        *)
(*                                                                         *)
(* Step is one iteration of the loop of replay_intraday_t_steps: the       *)
(* parent context follows the features, evaluate_intraday_t decides, the   *)
(* window guard may take the decision back, the risk checks and the next   *)
(* bar fill or refuse the order, and account, parent and state move on.    *)
(* SaveResult writes the finished replay to the store.                     *)
(*                                                                         *)
(* Prices and costs are whole numbers; the average cost and the realised   *)
(* profit of the ledger (which no decision reads) are left out.            *)
(***************************************************************************)
EXTENDS Integers, Sequences, FiniteSets

CONSTANTS
    Qty,            \* default_t_qty
    Base,           \* protected_base_qty
    StartCash, StartTotal, StartAvailable, StartPrice,
    MaxPerDay,      \* max_trades_per_day
    MaxAmount,      \* max_single_order_amount
    Freshness,      \* event_freshness_bars
    Timeout,        \* buyback_timeout_bars
    MinGap,         \* min_second_leg_bars
    Confirm,        \* first_leg_confirmation_bars; 0: off
    SecondConfirm,  \* second_leg_confirmation_bars
    MinRemaining,   \* min_bars_before_window_end_for_first_leg
    MinEdge,        \* min_expected_edge_after_cost; 0: off
    ObserveOnly,    \* observe_only
    AutoParent,     \* auto_parent_context
    MaxCycles,      \* parent_max_cycles
    Slip,           \* slippage per share
    MinFee, Tax,    \* the least commission; stamp tax of a sale
    Zd, Zg,         \* the centre of the structure
    Atr,            \* the average range times expected_edge_atr_multiple
    BarPrices, Ages,   \* prices of events and bars; bars since the event
    Legs,           \* ids of parent legs
    Allows,         \* the first side a leg allows, "none" without a direction
    Bars            \* the bars of the replay

ASSUME PaperAssumption ==
    /\ {Qty, Bars} \subseteq Nat \ {0}
    /\ {Base, StartCash, StartTotal, StartAvailable, StartPrice} \subseteq Nat
    /\ {Slip, MinFee, Tax} \subseteq Nat
    /\ StartAvailable <= StartTotal
    /\ BarPrices \subseteq Nat \ {0}
    /\ Legs \subseteq Nat \ {0}
    /\ Allows \in [Legs -> {"BUY", "SELL", "none"}]
    /\ {ObserveOnly, AutoParent} \subseteq BOOLEAN
    /\ MaxCycles \in Int /\ Ages \subseteq Int

VARIABLES
    account,    \* [cash, total, available, last, trades]
    stage,      \* the IntradayTState
    parent,     \* the parent context, NoParent without one
    stay,       \* history: how often the context has come to another leg
    bar,        \* index of the next step
    fills,      \* the replay's fills, the refused ones too
    saved       \* paper_fills rows once stored: intent serial -> row

paperVars == <<account, stage, parent, stay, bar, fills, saved>>

TradeSides == {"BUY", "SELL"}
Opposite(side) == IF side = "BUY" THEN "SELL" ELSE "BUY"
NoLeg == 0
NoParent == [leg |-> NoLeg, allowed |-> "none", used |-> 0, consumed |-> {}]

(***************************************************************************)
(* IntradayTFeatures, as far as the strategy reads them: the side, age and *)
(* price of the latest event ("none": there is no event, and its age is    *)
(* 999999), whether the divergence points the same way and is strong       *)
(* enough, where the bar closes, whether the main path allows a first leg, *)
(* and the leg of the parent level, whose id names its direction.          *)
(***************************************************************************)
Features ==
    {f \in [stale: BOOLEAN, side: TradeSides \cup {"none"}, agrees: BOOLEAN, age: Ages,
            event: BarPrices, price: BarPrices, path: BOOLEAN, leg: Legs] :
        f.side = "none" => f.age > Freshness /\ ~f.agrees}

(* The signal: an event and a divergence that agree.                        *)
Trigger(f) == IF f.agrees THEN f.side ELSE "none"

(* The key of the event: its side and the bar it happened at.               *)
EventKeys(f) == IF f.side = "none" THEN {} ELSE {<<f.side, bar - f.age>>}

(* A next bar: it trades, has no volume, or is locked at a limit.           *)
NextBars == [kind: {"trades", "idle", "limit_up", "limit_down"}, open: BarPrices]

-----------------------------------------------------------------------------
(***************************************************************************)
(* Costs and the expected edge.                                            *)
(***************************************************************************)
Abs(x) == IF x < 0 THEN -x ELSE x
Least(a, b) == IF a < b THEN a ELSE b

FillPrice(side, open) == IF side = "BUY" THEN open + Slip ELSE open - Slip
CostOf(side) == MinFee + (IF side = "SELL" THEN Tax ELSE 0)

(* A first leg must promise more than a round trip costs: the way to the    *)
(* other border of the centre, no further than the average range.           *)
EdgeOk(f) ==
    LET target == IF f.side = "SELL" THEN Zd ELSE Zg
        reach  == Abs(f.price - target) * Qty
        gross  == IF Atr > 0 THEN Least(reach, Atr * Qty) ELSE reach
    IN  MinEdge = 0 \/ gross - (CostOf("BUY") + CostOf("SELL") + 2 * Slip * Qty) >= MinEdge

(* Sell first not far below the upper border, buy first not far above the   *)
(* lower one: a quarter of the centre's height.                             *)
PlaceOk(f) ==
    IF f.side = "SELL" THEN 4 * (f.price - Zg) >= -(Zg - Zd)
                          ELSE 4 * (f.price - Zd) <= Zg - Zd

-----------------------------------------------------------------------------
(***************************************************************************)
(* The parent context.                                                     *)
(***************************************************************************)
(* Mutant: the consumed events are forgotten with every bar.                *)
ParentOfForgets(f) ==
    IF ~AutoParent \/ Allows[f.leg] = "none" THEN parent
    ELSE [leg |-> f.leg, allowed |-> Allows[f.leg],
          used |-> IF parent.leg = f.leg THEN parent.used ELSE 0, consumed |-> {}]

(* parent_context_from_features: budget and consumed events go on while the *)
(* id stays the same and start afresh with another one, also with one that  *)
(* the context has left before.                                             *)
ParentOf(f) ==
    IF ~AutoParent \/ Allows[f.leg] = "none" THEN parent
    ELSE [leg |-> f.leg, allowed |-> Allows[f.leg],
          used |-> IF parent.leg = f.leg THEN parent.used ELSE 0,
          consumed |-> IF parent.leg = f.leg THEN parent.consumed ELSE {}]

StayOf(f) == IF ParentOf(f).leg = parent.leg THEN stay ELSE stay + 1

ParentBlocks(side, f, p) ==
    /\ p # NoParent
    /\ \/ side # p.allowed
       \/ MaxCycles > 0 /\ p.used >= MaxCycles
       \/ EventKeys(f) \cap p.consumed # {}

-----------------------------------------------------------------------------
(***************************************************************************)
(* The decision.  Order(side) carries an intent; Pending(f) the first leg  *)
(* that waits for confirmation; the others leave the state as it is but    *)
(* for the count of bars.                                                  *)
(***************************************************************************)
NoT == [waiting |-> FALSE, first |-> "none", bars |-> 0,
         pending |-> "none", event |-> 0, since |-> 0]

NoOrder == [kind |-> "watch", side |-> "none"]
Order(side) == [kind |-> "order", side |-> side]
Held(side) == [kind |-> "pending", side |-> side]

SellableT == IF account.available > Base THEN account.available - Base ELSE 0

(* Mutant: all that is available counts as sellable.                        *)
AffordableBase(side) ==
    IF side = "SELL" THEN account.available >= Qty ELSE account.cash >= account.last * Qty

Affordable(side) ==
    IF side = "SELL" THEN SellableT >= Qty ELSE account.cash >= account.last * Qty

(* The exits of the position plan: back on the opposite signal, once the    *)
(* gap has passed and the event has stood its bars; by force at the timeout.*)
ExitDue(f) ==
    \/ /\ Trigger(f) = Opposite(stage.first)
       /\ stage.bars >= MinGap
       /\ f.age >= SecondConfirm
       /\ f.age <= Freshness
    \/ stage.bars >= Timeout

Confirmed(f) ==
    /\ stage.since >= Confirm
    /\ IF stage.pending = "SELL" THEN f.price < stage.event ELSE f.price > stage.event

ConfirmPending(f) ==
    IF stage.since <= Freshness /\ Confirmed(f) /\ Affordable(stage.pending)
    THEN Order(stage.pending) ELSE NoOrder

(* A new first leg.  The parent's direction is asked twice: of the features *)
(* by the event, of the context by the block.                               *)
FirstLeg(f, p) ==
    IF /\ f.agrees
       /\ f.path
       /\ Allows[f.leg] \in {"none", f.side}
       /\ PlaceOk(f)
       /\ EdgeOk(f)
       /\ ~ParentBlocks(f.side, f, p)
       /\ Affordable(f.side)
    THEN IF Confirm > 0 THEN Held(f.side)
         ELSE IF ObserveOnly THEN NoOrder ELSE Order(f.side)
    ELSE NoOrder

(* evaluate_intraday_t *)
Evaluate(f, p) ==
    IF f.stale \/ Base = 0 THEN NoOrder
    ELSE IF stage.waiting THEN IF ExitDue(f) THEN Order(Opposite(stage.first)) ELSE NoOrder
    ELSE IF f.age > Freshness THEN NoOrder
    ELSE IF Confirm > 0 /\ stage.pending # "none" THEN ConfirmPending(f)
    ELSE FirstLeg(f, p)

(* _apply_first_leg_window_guard: no first leg near the end of the replay.  *)
Decision(f, p) ==
    LET d == Evaluate(f, p)
    IN  IF d.kind = "order" /\ ~stage.waiting /\ Bars - bar < MinRemaining THEN NoOrder ELSE d

-----------------------------------------------------------------------------
(***************************************************************************)
(* The account.                                                            *)
(***************************************************************************)
(* evaluate_paper_risk; the duplicate key cannot fail, its serial and its   *)
(* time grow.                                                               *)
RiskOk(side) ==
    /\ account.trades < MaxPerDay
    /\ account.last * Qty <= MaxAmount
    /\ Affordable(side)

Fillable(side, nb) ==
    /\ nb.kind # "idle"
    /\ ~(side = "BUY" /\ nb.kind = "limit_up")
    /\ ~(side = "SELL" /\ nb.kind = "limit_down")

(* apply_paper_fill: what is bought today cannot be sold today.             *)
Traded(side, price) ==
    IF side = "BUY"
    THEN [cash |-> account.cash - price * Qty - CostOf("BUY"),
          total |-> account.total + Qty, available |-> account.available,
          last |-> price, trades |-> account.trades + 1]
    ELSE [cash |-> account.cash + price * Qty - CostOf("SELL"),
          total |-> account.total - Qty,
          available |-> IF account.available > Qty THEN account.available - Qty ELSE 0,
          last |-> price, trades |-> account.trades + 1]

-----------------------------------------------------------------------------
(***************************************************************************)
(* One iteration.                                                          *)
(***************************************************************************)
(* Without auto_parent_context the caller's context stays, or none does.    *)
PaperInit ==
    /\ account = [cash |-> StartCash, total |-> StartTotal,
                  available |-> StartAvailable, last |-> StartPrice, trades |-> 0]
    /\ stage = NoT
    /\ \/ parent = NoParent
       \/ /\ ~AutoParent
          /\ \E l \in Legs, s \in TradeSides :
                parent = [NoParent EXCEPT !.leg = l, !.allowed = s]
    /\ stay = IF parent = NoParent THEN 0 ELSE 1
    /\ bar = 1
    /\ fills = <<>>
    /\ saved = [serial \in {} |-> 0]

(* The decision has no order: the bars of an open or pending leg count on.  *)
Watches(f, d) ==
    /\ d.kind # "order"
    /\ stage' = IF d.kind = "pending"
            THEN [NoT EXCEPT !.pending = d.side, !.event = f.event, !.since = 1]
            ELSE IF stage.pending # "none" THEN [stage EXCEPT !.since = @ + 1]
            ELSE IF stage.waiting THEN [stage EXCEPT !.bars = @ + 1]
            ELSE stage
    /\ UNCHANGED <<account, fills>>
    /\ parent' = ParentOf(f)

(* What the replay notes of a fill, with the event and the stay it happened *)
(* at, and whether it waited for confirmation (history).                    *)
Fill(f, side, price, filled) ==
    [serial |-> account.trades + 1, side |-> side, price |-> price, filled |-> filled,
     events |-> EventKeys(f), stay |-> StayOf(f), planned |-> stage.pending # "none"]

(* A step without a next bar: the order is lost, and the bar not counted.   *)
NoBar(f, d) ==
    /\ d.kind = "order"
    /\ UNCHANGED <<account, stage, fills>>
    /\ parent' = ParentOf(f)

(* The risk checks or the bar refuse the order: it is recorded, and the     *)
(* state waits as it was, without counting the bar.                         *)
Refused(f, d, nb) ==
    /\ d.kind = "order"
    /\ ~(RiskOk(d.side) /\ Fillable(d.side, nb))
    /\ fills' = Append(fills, Fill(f, d.side, 0, FALSE))
    /\ UNCHANGED <<account, stage>>
    /\ parent' = ParentOf(f)

(* Mutant: the cycle is charged when it opens.                              *)
AdvanceFirst(p, f) ==
    IF p = NoParent THEN p
    ELSE [p EXCEPT !.consumed = @ \cup EventKeys(f),
                   !.used = IF stage.waiting THEN @ ELSE @ + 1]

(* _advance_parent_context: the event at hand counts as consumed, and a     *)
(* second leg uses up a cycle of the parent of now.                         *)
Advance(p, f) ==
    IF p = NoParent THEN p
    ELSE [p EXCEPT !.consumed = @ \cup EventKeys(f),
                   !.used = IF stage.waiting THEN @ + 1 ELSE @]

(* The order is filled.                                                     *)
Filled(f, d, nb) ==
    LET price == FillPrice(d.side, nb.open)
    IN  /\ d.kind = "order"
        /\ RiskOk(d.side)
        /\ Fillable(d.side, nb)
        /\ account' = Traded(d.side, price)
        /\ fills' = Append(fills, Fill(f, d.side, price, TRUE))
        /\ stage' = IF stage.waiting THEN NoT
                ELSE [NoT EXCEPT !.waiting = TRUE, !.first = d.side]
        /\ parent' = Advance(ParentOf(f), f)

Step ==
    /\ bar <= Bars
    /\ \E f \in Features :
           /\ stay' = StayOf(f)
           /\ LET d == Decision(f, ParentOf(f))
              IN  \/ Watches(f, d)
                  \/ NoBar(f, d)
                  \/ \E nb \in NextBars : Refused(f, d, nb) \/ Filled(f, d, nb)
    /\ bar' = bar + 1
    /\ UNCHANGED saved

(* save_replay_result: INSERT OR IGNORE, one row per id; the id of a fill   *)
(* is the count of trades at its order.                                     *)
SaveResult ==
    /\ bar = Bars + 1
    /\ saved' = [serial \in {fills[i].serial : i \in DOMAIN fills} |->
                    fills[CHOOSE i \in DOMAIN fills :
                              /\ fills[i].serial = serial
                              /\ \A j \in 1..(i - 1) : fills[j].serial # serial]]
    /\ bar' = bar + 1
    /\ UNCHANGED <<account, stage, parent, stay, fills>>

PaperNext == Step \/ SaveResult

PaperSpec == PaperInit /\ [][PaperNext]_paperVars

-----------------------------------------------------------------------------
(***************************************************************************)
(* The metrics: filled legs are paired by their places.                    *)
(***************************************************************************)
(* Mutant: refused orders are paired too.                                   *)
FilledLegsAll == DOMAIN fills

FilledLegs == {i \in DOMAIN fills : fills[i].filled}

(* The legs that opened a cycle: the first, the third, ...                  *)
LegPlace(i) == Cardinality({k \in FilledLegs : k <= i})
Opening == {i \in FilledLegs : LegPlace(i) % 2 = 1}

Greatest(S) == CHOOSE k \in S : \A m \in S : m <= k
LegBefore(i) == Greatest({k \in FilledLegs : k < i})

(* _closed_t_pnl of one pair: the spread less the costs of both legs.       *)
CyclePnl(first, second) ==
    IF first.side = second.side THEN 0
    ELSE (IF first.side = "SELL" THEN first.price - second.price
                                 ELSE second.price - first.price) * Qty
         - CostOf("BUY") - CostOf("SELL")

Gain(i) ==
    IF i \in FilledLegs \ Opening THEN CyclePnl(fills[LegBefore(i)], fills[i]) ELSE 0

Total(amounts) ==
    LET sum[n \in 0..Len(amounts)] == IF n = 0 THEN 0 ELSE sum[n - 1] + amounts[n]
    IN  sum[Len(amounts)]

NetPnl == Total([i \in DOMAIN fills |-> Gain(i)])

-----------------------------------------------------------------------------
(***************************************************************************)
(* Properties.                                                             *)
(***************************************************************************)
AccountRecords == [cash: Int, total: Int, available: Int, last: Int, trades: Nat]

StageRecords ==
    [waiting: BOOLEAN, first: TradeSides \cup {"none"}, bars: Nat,
     pending: TradeSides \cup {"none"}, event: Int, since: Nat]

PaperTypeOK == account \in AccountRecords /\ stage \in StageRecords

(* Whatever bars, refusals and limits come, the position a T leaves behind  *)
(* is the one it found: flat, the account holds what it began with; between *)
(* the legs Qty more or less.                                               *)
CycleBack ==
    account.total =
        StartTotal + (IF ~stage.waiting THEN 0 ELSE IF stage.first = "BUY" THEN Qty ELSE -Qty)

(* No sequence of legs sells the protected base: what is left for sale is   *)
(* untouched or covers it.                                                  *)
BaseProtected == account.available = StartAvailable \/ account.available >= Base

(* A T is either open or planned, not both, and neither without its side.   *)
OneStage ==
    /\ stage.waiting <=> stage.first # "none"
    /\ stage.waiting => stage.pending = "none"

(* The position comes back, the base is kept, the stages exclude each other, *)
(* and the records are of their types: together this is inductive.          *)
PositionKept == PaperTypeOK /\ CycleBack /\ BaseProtected /\ OneStage

(* The profit of the metrics, taken from legs paired by their places, is    *)
(* the money the account gained, whenever no T is open.                     *)
PnlIsCash == ~stage.waiting => account.cash = StartCash + NetPnl

(* The T's of one stay at a parent leg: those opened in it, and the one     *)
(* that was carried into it and closed there.                               *)
CyclesOf(s) ==
    {i \in Opening : fills[i].stay = s}
        \cup {LegBefore(k) : k \in {i \in FilledLegs \ Opening : fills[i].stay = s}}

(* As long as the replay stays at a parent leg, the T's that open or close  *)
(* there keep to the budget, also one that was opened under another leg.    *)
CyclesInBudget ==
    MaxCycles > 0 => \A s \in 1..stay : Cardinality(CyclesOf(s)) <= MaxCycles

(* An event that a filled leg has used opens no further T in the same stay, *)
(* but after bars of confirmation.                                          *)
EventOpensOnce ==
    \A i \in FilledLegs, j \in Opening :
        /\ i < j /\ fills[i].stay = fills[j].stay /\ fills[j].stay > 0
        /\ ~fills[j].planned
        => fills[i].events \cap fills[j].events = {}

(* The replays end without a second leg left behind: the metrics agree     *)
(* with the cash, a stay at a parent leg has no more T's than the budget,  *)
(* and no event opens two of them (replay_intraday_t_steps,                *)
(* build_replay_metrics).                                                  *)
PaperSound == PnlIsCash /\ CyclesInBudget /\ EventOpensOnce
================================================================================
