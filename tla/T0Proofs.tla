------------------------------- MODULE T0Proofs -------------------------------
(***************************************************************************)
(* Proofs about the T+0 coach, for every set of tick arguments, every      *)
(* quantity and every number of days, windows and restarts; about the      *)
(* decision engine, and about the paper account that replays a day.        *)
(*                                                                         *)
(* First the machine of T0StateMachine: the lemmas say of each operator of *)
(* T0Machine what it preserves, the theorems apply them branch by branch,  *)
(* and the machine is shown to implement the life cycle of T0Lifecycle.    *)
(* Then T0Engine: the two workers, the cache row and the ledger, for every *)
(* choice of the events of the environment but those a theorem excludes.   *)
(*                                                                         *)
(* Then the level chain's deduction, for every triple of structure facts   *)
(* of the shapes the code makes: any prices, edges, points and words.      *)
(* Last the position of a paper replay, for every quantity, base, price,   *)
(* window and configuration.  PositionKept is inductive: that the total    *)
(* comes back needs the side of the open leg (OneStage), and that a second *)
(* leg goes back needs the decision (DecisionKinds).                       *)
(* PaperInv adds the money, the legs of the parent and the events: the     *)
(* metrics are sums over the fills, and the cash is their sum and what the *)
(* open leg brought.                                                       *)
(***************************************************************************)
EXTENDS T0Engine, LevelChain, PaperReplay, NaturalsInduction, WellFoundedInduction,
        SequenceTheorems, FiniteSetTheorems, TLAPS

-----------------------------------------------------------------------------
(* Members of the named sets, so that the leaves below leave them folded.  *)

LEMMA Members ==
    /\ NoId \in Ids /\ WindowIds \subseteq Ids
    /\ "" \in EntryDirections /\ "LONG" \in EntryDirections /\ "SHORT" \in EntryDirections
    /\ "IDLE" \in T0States /\ "LOCKDOWN" \in T0States
    /\ "POSITION_LONG" \in T0States /\ "POSITION_SHORT" \in T0States
BY DEF Ids, EntryDirections, Sides, T0States

LEMMA LotsAreNaturals ==
    /\ \A n \in Lots : n \in Nat /\ n >= 1
    /\ \A n \in Prices : n \in Nat /\ n >= 1
    /\ \A n \in Nat : n >= 1 => n \in Lots
BY DEF Lots, Prices

(* The fields of a record, each in its own set.                            *)
LEMMA MachineFields ==
    ASSUME NEW m \in Machines
    PROVE  /\ m.state \in T0States /\ m.trade_date \in Dates
           /\ m.t0_qty \in Lots /\ m.current_open_qty \in Lots
           /\ m.entry_price \in Nat /\ m.target_price \in Nat
           /\ m.stop_structural \in Int /\ m.stop_catastrophic \in Int
           /\ m.entry_pivot_id \in Ids
           /\ m.entry_direction \in EntryDirections
           /\ m.traded_pivot_ids \in SUBSET Windows
           /\ m.zd_touch_count \in Nat /\ m.last_pivot_zd \in Nat
           /\ m.daily_pnl \in Int /\ m.daily_trades \in Nat
           /\ m.daily_stop_count \in Nat
BY DEF Machines

LEMMA InputFields ==
    ASSUME NEW i \in TickInputs
    PROVE  /\ i.date \in Dates /\ i.price \in Prices /\ i.atr \in Nat
           /\ i.pivot.id \in Ids
           /\ i.pivot.zd \in Nat /\ i.pivot.zg \in Nat
           /\ i.size \in 0..100 /\ i.t0_qty \in Lots /\ i.available \in Nat
<1>1. i.pivot \in Pivots
  BY DEF TickInputs
<1>2. /\ i.date \in Dates /\ i.price \in Prices /\ i.atr \in Nat
      /\ i.size \in 0..100 /\ i.t0_qty \in Lots /\ i.available \in Nat
  BY DEF TickInputs
<1> QED
  BY <1>1, <1>2 DEF Pivots

-----------------------------------------------------------------------------
(* Money and quantities are integers.                                      *)

LEMMA CostsAreIntegers ==
    ASSUME NEW price \in Int, NEW lots \in Int
    PROVE  /\ BuyCost(price, lots) \in Int
           /\ SellCost(price, lots) \in Int
           /\ Gross(price, lots) \in Int
<1>1. price * lots \in Int
  OBVIOUS
<1>2. BuyCost(price, lots) \in Int
  BY <1>1 DEF BuyCost, Larger, MinCommission, CommissionRate, TransferRate, Slippage
<1>3. SellCost(price, lots) \in Int
  BY <1>1, <1>2 DEF SellCost, StampRate
<1>4. Gross(price, lots) \in Int
  BY <1>1 DEF Gross
<1> QED
  BY <1>2, <1>3, <1>4

(* An exit's net result is an integer.                                     *)
LEMMA NetIsInteger ==
    ASSUME NEW m \in Machines, NEW price \in Nat
    PROVE  LongNet(m, price) \in Int /\ ShortNet(m, price) \in Int
<1> DEFINE q == m.current_open_qty
           e == m.entry_price
           up == price - e
           down == e - price
<1>1. q \in Int /\ e \in Int /\ price \in Int
  BY MachineFields, LotsAreNaturals
<1>2. up \in Int /\ down \in Int
  BY <1>1
<1> HIDE DEF q, up, down
<1>3. Gross(up, q) \in Int /\ Gross(down, q) \in Int
  BY <1>1, <1>2, CostsAreIntegers
<1>4. SellCost(price, q) \in Int /\ BuyCost(price, q) \in Int
  BY <1>1, CostsAreIntegers
<1>5. LongNet(m, price) = Gross(up, q) - SellCost(price, q)
  BY DEF LongNet, q, up
<1>6. ShortNet(m, price) = Gross(down, q) - BuyCost(price, q)
  BY DEF ShortNet, q, down
<1> QED
  BY <1>3, <1>4, <1>5, <1>6

(* A scaled quantity is a number of lots, never more than its base.        *)
LEMMA ScaledQtyBound ==
    ASSUME NEW base \in Nat, NEW size \in 0..100
    PROVE  ScaledQty(base, size) \in Nat /\ ScaledQty(base, size) <= base
<1>1. base * size \in Nat
  OBVIOUS
<1>2. (base * size) \div 100 \in Int
  BY <1>1
<1>3. CASE base < 1 \/ size <= 0
  BY <1>3 DEF ScaledQty
<1>4. CASE ~(base < 1 \/ size <= 0)
  BY <1>2, <1>4 DEF ScaledQty, Smaller, AtLeastOne
<1> QED
  BY <1>3, <1>4

LEMMA LongQtyType ==
    ASSUME NEW touches \in Nat, NEW i \in TickInputs
    PROVE  LongQty(touches, i) \in Nat
<1>1. i.t0_qty \in Nat /\ i.size \in 0..100
  BY InputFields, LotsAreNaturals
<1>2. ScaledQty(i.t0_qty, i.size) \in Nat
  BY <1>1, ScaledQtyBound
<1>3. \A n \in Nat : n \div 2 \in Int
  OBVIOUS
<1> QED
  BY <1>2, <1>3 DEF LongQty, AtLeastOne

-----------------------------------------------------------------------------
(* What each operator does to a well-formed record.                        *)

LEMMA FreshType ==
    ASSUME NEW d \in Dates, NEW q \in Lots
    PROVE  Fresh(d, q) \in Machines
<1>1. {} \in SUBSET Windows /\ 0 \in Nat /\ 0 \in Int
  OBVIOUS
<1> QED
  BY <1>1, Members DEF Fresh, Machines

LEMMA AtTickType ==
    ASSUME NEW m \in Machines, NEW i \in TickInputs
    PROVE  AtTick(m, i) \in Machines
<1>1. i.date \in Dates /\ i.t0_qty \in Lots
  BY InputFields
<1>2. [m EXCEPT !.t0_qty = i.t0_qty] \in Machines
  BY <1>1 DEF Machines
<1> QED
  BY <1>1, <1>2, FreshType DEF AtTick

LEMMA DriftedType ==
    ASSUME NEW m \in Machines, NEW i \in TickInputs
    PROVE  Drifted(m, i) \in Machines
<1>1. i.pivot.zd \in Nat
  BY InputFields
<1>2. [m EXCEPT !.zd_touch_count = 0, !.last_pivot_zd = i.pivot.zd] \in Machines
  BY <1>1 DEF Machines
<1> QED
  BY <1>2 DEF Drifted

LEMMA TouchedType ==
    ASSUME NEW m \in Machines, NEW i \in TickInputs
    PROVE  Touched(m, i) \in Machines
<1> DEFINE d == Drifted(m, i)
           touches == d.zd_touch_count + 1
<1>1. d \in Machines
  BY DriftedType
<1>2. d.zd_touch_count \in Nat
  BY <1>1, MachineFields
<1>3. touches \in Nat
  BY <1>2
<1>4. Touched(m, i) = [d EXCEPT !.zd_touch_count = touches]
  BY DEF Touched
<1> HIDE DEF d, touches
<1> QED
  BY <1>1, <1>3, <1>4 DEF Machines

LEMMA EnteredType ==
    ASSUME NEW m \in Machines, NEW i \in TickInputs, NEW side \in EntryDirections,
           NEW target \in Nat, NEW qty \in Lots
    PROVE  Entered(m, i, side, target, qty) \in Machines
<1> DEFINE p == i.price
           id == i.pivot.id
           trades == m.daily_trades + 1
<1>1. p \in Nat /\ id \in Ids
  BY InputFields, LotsAreNaturals
<1>2. m.daily_trades \in Nat
  BY MachineFields
<1>3. trades \in Nat
  BY <1>2
<1>4. Entered(m, i, side, target, qty) =
        [m EXCEPT !.entry_price = p, !.target_price = target,
                  !.entry_pivot_id = id, !.entry_direction = side,
                  !.current_open_qty = qty, !.daily_trades = trades]
  BY DEF Entered
<1> HIDE DEF p, id, trades
<1> QED
  BY ZenonT(60), <1>1, <1>3, <1>4 DEF Machines

(* The three fields that Opened* assign after Entered.                     *)
LEMMA StopsType ==
    ASSUME NEW m \in Machines, NEW state \in T0States, NEW stop \in Int, NEW floor \in Int
    PROVE  [m EXCEPT !.state = state, !.stop_structural = stop,
                     !.stop_catastrophic = floor] \in Machines
BY DEF Machines

LEMMA OpenedLongType ==
    ASSUME NEW m \in Machines, NEW i \in TickInputs, CanOpenLong(m, i)
    PROVE  OpenedLong(m, i) \in Machines
<1> DEFINE d == Touched(m, i)
           qty == LongQty(d.zd_touch_count, i)
           zd == i.pivot.zd
           zg == i.pivot.zg
           atr == i.atr
           p == i.price
           e == Entered(d, i, "LONG", zg, qty)
           stop == IF atr > 0 THEN 1000 * zd - 1200 * atr ELSE 995 * zd
           floor == 970 * p
           state == "POSITION_LONG"
<1>1. d \in Machines
  BY TouchedType
<1>2. d.zd_touch_count \in Nat
  BY <1>1, MachineFields
<1>3. qty \in Lots
  <2>1. qty \in Nat
    BY <1>2, LongQtyType
  <2>2. qty >= 1
    BY DEF CanOpenLong
  <2> QED
    BY <2>1, <2>2, LotsAreNaturals
<1>4. zg \in Nat /\ zd \in Nat /\ atr \in Nat /\ p \in Nat
  BY InputFields, LotsAreNaturals
<1>5. e \in Machines
  BY <1>1, <1>3, <1>4, EnteredType, Members
<1>6. stop \in Int /\ floor \in Int
  BY <1>4
<1>7. OpenedLong(m, i) = [e EXCEPT !.state = state, !.stop_structural = stop,
                                   !.stop_catastrophic = floor]
  BY DEF OpenedLong
<1>8. state \in T0States
  BY Members
<1> HIDE DEF e, stop, floor, state
<1>9. [e EXCEPT !.state = state, !.stop_structural = stop,
                !.stop_catastrophic = floor] \in Machines
  BY ONLY <1>5, <1>6, <1>8, StopsType
<1> QED
  BY <1>7, <1>9

LEMMA OpenedShortType ==
    ASSUME NEW m \in Machines, NEW i \in TickInputs, CanOpenShort(m, i)
    PROVE  OpenedShort(m, i) \in Machines
<1> DEFINE d == Drifted(m, i)
           base == ShortAvailableQty(i)
           qty == ScaledQty(base, i.size)
           zd == i.pivot.zd
           e == Entered(d, i, "SHORT", zd, qty)
           state == "POSITION_SHORT"
           none == 0
<1>1. d \in Machines /\ zd \in Nat
  BY DriftedType, InputFields
<1>2. qty \in Lots
  <2>1. i.t0_qty \in Nat /\ i.available \in Nat /\ i.size \in 0..100
    BY InputFields, LotsAreNaturals
  <2>2. base \in Nat
    BY <2>1 DEF ShortAvailableQty, Smaller
  <2>3. qty \in Nat
    BY <2>1, <2>2, ScaledQtyBound
  <2>4. qty >= 1
    BY DEF CanOpenShort
  <2> QED
    BY <2>3, <2>4, LotsAreNaturals
<1>3. e \in Machines
  BY <1>1, <1>2, EnteredType, Members
<1>4. OpenedShort(m, i) = [e EXCEPT !.state = state, !.stop_structural = none,
                                    !.stop_catastrophic = none]
  BY DEF OpenedShort
<1>5. none \in Int
  OBVIOUS
<1>6. state \in T0States
  BY Members
<1> HIDE DEF e, state, none
<1>7. [e EXCEPT !.state = state, !.stop_structural = none,
                !.stop_catastrophic = none] \in Machines
  BY ONLY <1>3, <1>5, <1>6, StopsType
<1> QED
  BY <1>4, <1>7

LEMMA LockedType ==
    ASSUME NEW m \in Machines
    PROVE  Locked(m) \in Machines
<1> DEFINE state == "LOCKDOWN"
<1>1. state \in T0States /\ Locked(m) = [m EXCEPT !.state = state]
  BY Members DEF Locked
<1> HIDE DEF state
<1> QED
  BY <1>1 DEF Machines

LEMMA MarkedType ==
    ASSUME NEW m \in Machines
    PROVE  Marked(m) \in SUBSET Windows
<1>1. /\ m.entry_pivot_id \in Ids /\ m.entry_direction \in EntryDirections
      /\ m.traded_pivot_ids \in SUBSET Windows
  BY MachineFields
<1>2. CASE m.entry_pivot_id = NoId \/ m.entry_direction = ""
  BY <1>1, <1>2 DEF Marked
<1>3. CASE ~(m.entry_pivot_id = NoId \/ m.entry_direction = "")
  <2>1. m.entry_pivot_id \in WindowIds /\ m.entry_direction \in Sides
    BY <1>1, <1>3 DEF Ids, EntryDirections
  <2>2. <<m.entry_pivot_id, m.entry_direction>> \in Windows
    BY <2>1 DEF Windows
  <2> QED
    BY <1>1, <1>3, <2>2 DEF Marked
<1> QED
  BY <1>2, <1>3

LEMMA FlatType ==
    ASSUME NEW m \in Machines, NEW state \in T0States
    PROVE  Flat(m, state) \in Machines
<1>1. m.t0_qty \in Lots
  BY MachineFields
<1> QED
  BY <1>1, Members DEF Flat, Machines

(* An exit: a flat record with the result booked and the marks replaced.   *)
LEMMA StoppedLongType ==
    ASSUME NEW m \in Machines, NEW i \in TickInputs
    PROVE  StoppedLong(m, i) \in Machines
<1> DEFINE f == Flat(m, "LOCKDOWN")
           net == LongNet(m, i.price)
           marks == Marked(m)
           pnl == f.daily_pnl + net
           stops == f.daily_stop_count + 1
<1>1. f \in Machines
  BY FlatType, Members
<1>2. net \in Int
  BY InputFields, LotsAreNaturals, NetIsInteger
<1>3. marks \in SUBSET Windows
  BY MarkedType
<1>4. f.daily_pnl \in Int /\ f.daily_stop_count \in Nat
  BY <1>1, MachineFields
<1>5. StoppedLong(m, i) = [f EXCEPT !.daily_pnl = pnl, !.daily_stop_count = stops,
                                    !.traded_pivot_ids = marks]
  BY DEF StoppedLong
<1> HIDE DEF f, net, marks
<1>6. pnl \in Int /\ stops \in Nat
  BY <1>2, <1>4
<1> HIDE DEF pnl, stops
<1> QED
  BY ZenonT(60), <1>1, <1>3, <1>5, <1>6 DEF Machines

LEMMA TookProfitType ==
    ASSUME NEW m \in Machines, NEW i \in TickInputs
    PROVE  TookProfit(m, i) \in Machines
<1> DEFINE f == Flat(m, "IDLE")
           net == LongNet(m, i.price)
           marks == Marked(m)
           pnl == f.daily_pnl + net
           none == 0
<1>1. f \in Machines
  BY FlatType, Members
<1>2. net \in Int
  BY InputFields, LotsAreNaturals, NetIsInteger
<1>3. marks \in SUBSET Windows
  BY MarkedType
<1>4. f.daily_pnl \in Int
  BY <1>1, MachineFields
<1>5. TookProfit(m, i) = [f EXCEPT !.daily_pnl = pnl, !.target_price = none,
                                   !.traded_pivot_ids = marks]
  BY DEF TookProfit
<1> HIDE DEF f, net, marks
<1>6. pnl \in Int /\ none \in Nat
  BY <1>2, <1>4
<1> HIDE DEF pnl, none
<1> QED
  BY <1>1, <1>3, <1>5, <1>6 DEF Machines

LEMMA CoveredType ==
    ASSUME NEW m \in Machines, NEW i \in TickInputs
    PROVE  Covered(m, i) \in Machines
<1> DEFINE f == Flat(m, "IDLE")
           net == ShortNet(m, i.price)
           marks == Marked(m)
           pnl == f.daily_pnl + net
           none == 0
<1>1. f \in Machines
  BY FlatType, Members
<1>2. net \in Int
  BY InputFields, LotsAreNaturals, NetIsInteger
<1>3. marks \in SUBSET Windows
  BY MarkedType
<1>4. f.daily_pnl \in Int
  BY <1>1, MachineFields
<1>5. Covered(m, i) = [f EXCEPT !.daily_pnl = pnl, !.target_price = none,
                                !.traded_pivot_ids = marks]
  BY DEF Covered
<1> HIDE DEF f, net, marks
<1>6. pnl \in Int /\ none \in Nat
  BY <1>2, <1>4
<1> HIDE DEF pnl, none
<1> QED
  BY <1>1, <1>3, <1>5, <1>6 DEF Machines

LEMMA SweptLongType ==
    ASSUME NEW m \in Machines, NEW price \in Nat
    PROVE  SweptLong(m, price) \in Machines
<1> DEFINE f == Flat(m, "IDLE")
           net == LongNet(m, price)
           pnl == f.daily_pnl + net
           trades == f.daily_trades + 1
<1>1. f \in Machines
  BY FlatType, Members
<1>2. net \in Int
  BY NetIsInteger
<1>3. f.daily_pnl \in Int /\ f.daily_trades \in Nat
  BY <1>1, MachineFields
<1>4. SweptLong(m, price) = [f EXCEPT !.daily_pnl = pnl, !.daily_trades = trades]
  BY DEF SweptLong
<1> HIDE DEF f, net
<1>5. pnl \in Int /\ trades \in Nat
  BY <1>2, <1>3
<1> HIDE DEF pnl, trades
<1> QED
  BY <1>1, <1>4, <1>5 DEF Machines

LEMMA ReduceLockedType ==
    ASSUME NEW m \in Machines
    PROVE  ReduceLocked(m) \in Machines
<1> DEFINE f == Flat(m, "IDLE")
           marks == Marked(m)
           none == 0
<1>1. f \in Machines
  BY FlatType, Members
<1>2. marks \in SUBSET Windows
  BY MarkedType
<1>3. ReduceLocked(m) = [f EXCEPT !.target_price = none, !.stop_structural = none,
                                  !.stop_catastrophic = none,
                                  !.traded_pivot_ids = marks]
  BY DEF ReduceLocked
<1>4. none \in Nat /\ none \in Int
  OBVIOUS
<1> HIDE DEF f, marks, none
<1> QED
  BY ZenonT(60), <1>1, <1>2, <1>3, <1>4 DEF Machines

-----------------------------------------------------------------------------
(* Which fields each operator leaves and which it assigns.                 *)

LEMMA FlatFields ==
    ASSUME NEW m \in Machines, NEW state \in T0States
    PROVE  /\ Flat(m, state).state = state
           /\ Flat(m, state).entry_price = 0
           /\ Flat(m, state).entry_direction = ""
           /\ Flat(m, state).trade_date = m.trade_date
           /\ Flat(m, state).traded_pivot_ids = m.traded_pivot_ids
BY DEF Flat, Machines

LEMMA FreshFields ==
    ASSUME NEW d \in Dates, NEW q \in Lots
    PROVE  /\ Fresh(d, q).state = "IDLE" /\ Fresh(d, q).entry_price = 0
           /\ Fresh(d, q).entry_direction = "" /\ Fresh(d, q).traded_pivot_ids = {}
BY DEF Fresh

LEMMA DriftedFields ==
    ASSUME NEW m \in Machines, NEW i \in TickInputs
    PROVE  /\ Drifted(m, i).traded_pivot_ids = m.traded_pivot_ids
           /\ Touched(m, i).traded_pivot_ids = m.traded_pivot_ids
           /\ Drifted(m, i).state = m.state
           /\ Drifted(m, i).entry_price = m.entry_price
           /\ Drifted(m, i).entry_direction = m.entry_direction
<1> DEFINE d == Drifted(m, i)
           zd == i.pivot.zd
<1>1. \/ d = m
      \/ d = [m EXCEPT !.zd_touch_count = 0, !.last_pivot_zd = zd]
  BY DEF Drifted
<1>2. d \in Machines
  BY DriftedType
<1>3. Touched(m, i) = [d EXCEPT !.zd_touch_count = @ + 1]
  BY DEF Touched
<1> HIDE DEF d, zd
<1>4. /\ d.traded_pivot_ids = m.traded_pivot_ids
      /\ d.state = m.state
      /\ d.entry_price = m.entry_price
      /\ d.entry_direction = m.entry_direction
  BY <1>1 DEF Machines
<1>5. Touched(m, i).traded_pivot_ids = d.traded_pivot_ids
  BY <1>2, <1>3 DEF Machines
<1> QED
  BY <1>4, <1>5 DEF d

LEMMA EnteredFields ==
    ASSUME NEW m \in Machines, NEW i \in TickInputs, NEW side, NEW target, NEW qty
    PROVE  LET e == Entered(m, i, side, target, qty)
           IN  /\ e.entry_price = i.price /\ e.target_price = target
               /\ e.entry_pivot_id = i.pivot.id /\ e.entry_direction = side
               /\ e.traded_pivot_ids = m.traded_pivot_ids
BY DEF Entered, Machines

(* The three fields assigned after Entered disturb no other.               *)
LEMMA StopsFields ==
    ASSUME NEW m \in Machines, NEW state, NEW stop, NEW floor
    PROVE  LET o == [m EXCEPT !.state = state, !.stop_structural = stop,
                              !.stop_catastrophic = floor]
           IN  /\ o.state = state /\ o.stop_structural = stop
               /\ o.stop_catastrophic = floor
               /\ o.entry_price = m.entry_price /\ o.target_price = m.target_price
               /\ o.entry_pivot_id = m.entry_pivot_id
               /\ o.entry_direction = m.entry_direction
               /\ o.traded_pivot_ids = m.traded_pivot_ids
BY DEF Machines

LEMMA ExitFields ==
    ASSUME NEW m \in Machines, NEW i \in TickInputs
    PROVE  /\ StoppedLong(m, i).state = "LOCKDOWN"
           /\ TookProfit(m, i).state = "IDLE"
           /\ Covered(m, i).state = "IDLE"
           /\ \A o \in {StoppedLong(m, i), TookProfit(m, i), Covered(m, i)} :
                 /\ o.traded_pivot_ids = Marked(m)
                 /\ o.entry_price = 0 /\ o.entry_direction = ""
<1> DEFINE stopped == Flat(m, "LOCKDOWN")
           flat == Flat(m, "IDLE")
<1>1. stopped \in Machines /\ flat \in Machines
  BY FlatType, Members
<1>2. /\ stopped.state = "LOCKDOWN" /\ flat.state = "IDLE"
      /\ stopped.entry_price = 0 /\ stopped.entry_direction = ""
      /\ flat.entry_price = 0 /\ flat.entry_direction = ""
  BY FlatFields, Members
<1>3. StoppedLong(m, i) =
        [stopped EXCEPT !.daily_pnl = @ + LongNet(m, i.price),
                        !.daily_stop_count = @ + 1, !.traded_pivot_ids = Marked(m)]
  BY DEF StoppedLong
<1>4. TookProfit(m, i) =
        [flat EXCEPT !.daily_pnl = @ + LongNet(m, i.price), !.target_price = 0,
                     !.traded_pivot_ids = Marked(m)]
  BY DEF TookProfit
<1>5. Covered(m, i) =
        [flat EXCEPT !.daily_pnl = @ + ShortNet(m, i.price), !.target_price = 0,
                     !.traded_pivot_ids = Marked(m)]
  BY DEF Covered
<1> HIDE DEF stopped, flat
<1>6. /\ StoppedLong(m, i).state = "LOCKDOWN"
      /\ StoppedLong(m, i).traded_pivot_ids = Marked(m)
      /\ StoppedLong(m, i).entry_price = 0 /\ StoppedLong(m, i).entry_direction = ""
  BY <1>1, <1>2, <1>3 DEF Machines
<1>7. /\ TookProfit(m, i).state = "IDLE"
      /\ TookProfit(m, i).traded_pivot_ids = Marked(m)
      /\ TookProfit(m, i).entry_price = 0 /\ TookProfit(m, i).entry_direction = ""
  BY <1>1, <1>2, <1>4 DEF Machines
<1>8. /\ Covered(m, i).state = "IDLE"
      /\ Covered(m, i).traded_pivot_ids = Marked(m)
      /\ Covered(m, i).entry_price = 0 /\ Covered(m, i).entry_direction = ""
  BY <1>1, <1>2, <1>5 DEF Machines
<1> QED
  BY <1>6, <1>7, <1>8

LEMMA OpenedLongFields ==
    ASSUME NEW m \in Machines, NEW i \in TickInputs, CanOpenLong(m, i)
    PROVE  LET o == OpenedLong(m, i)
           IN  /\ o.state = "POSITION_LONG"
               /\ o.entry_price = i.price /\ o.target_price = i.pivot.zg
               /\ o.stop_catastrophic = 970 * i.price
               /\ o.entry_pivot_id = i.pivot.id /\ o.entry_direction = "LONG"
               /\ o.traded_pivot_ids = m.traded_pivot_ids
<1> DEFINE d == Touched(m, i)
           qty == LongQty(d.zd_touch_count, i)
           e == Entered(d, i, "LONG", i.pivot.zg, qty)
           stop == IF i.atr > 0 THEN 1000 * i.pivot.zd - 1200 * i.atr
                                ELSE 995 * i.pivot.zd
           o == OpenedLong(m, i)
<1>1. d \in Machines
  BY TouchedType
<1>2. e \in Machines
  <2>1. qty \in Nat
    BY <1>1, MachineFields, LongQtyType
  <2>2. qty \in Lots
    BY <2>1, LotsAreNaturals DEF CanOpenLong
  <2> QED
    BY <1>1, <2>2, EnteredType, InputFields, Members
<1>3. o = [e EXCEPT !.state = "POSITION_LONG", !.stop_structural = stop,
                    !.stop_catastrophic = 970 * i.price]
  BY DEF OpenedLong
<1>4. /\ e.entry_price = i.price /\ e.target_price = i.pivot.zg
      /\ e.entry_pivot_id = i.pivot.id /\ e.entry_direction = "LONG"
      /\ e.traded_pivot_ids = d.traded_pivot_ids
  BY <1>1, EnteredFields
<1>5. d.traded_pivot_ids = m.traded_pivot_ids
  BY DriftedFields
<1> HIDE DEF d, qty, e, stop, o
<1>6. /\ o.state = "POSITION_LONG" /\ o.stop_catastrophic = 970 * i.price
      /\ o.entry_price = e.entry_price /\ o.target_price = e.target_price
      /\ o.entry_pivot_id = e.entry_pivot_id
      /\ o.entry_direction = e.entry_direction
      /\ o.traded_pivot_ids = e.traded_pivot_ids
  BY <1>2, <1>3, StopsFields
<1> QED
  BY <1>4, <1>5, <1>6 DEF o

LEMMA OpenedShortFields ==
    ASSUME NEW m \in Machines, NEW i \in TickInputs, CanOpenShort(m, i)
    PROVE  LET o == OpenedShort(m, i)
           IN  /\ o.state = "POSITION_SHORT"
               /\ o.entry_price = i.price /\ o.target_price = i.pivot.zd
               /\ o.stop_structural = 0 /\ o.stop_catastrophic = 0
               /\ o.entry_pivot_id = i.pivot.id /\ o.entry_direction = "SHORT"
               /\ o.traded_pivot_ids = m.traded_pivot_ids
<1> DEFINE d == Drifted(m, i)
           qty == ScaledQty(ShortAvailableQty(i), i.size)
           e == Entered(d, i, "SHORT", i.pivot.zd, qty)
           o == OpenedShort(m, i)
<1>1. d \in Machines
  BY DriftedType
<1>2. e \in Machines
  <2>1. ShortAvailableQty(i) \in Nat
    BY InputFields, LotsAreNaturals DEF ShortAvailableQty, Smaller
  <2>2. qty \in Nat
    BY <2>1, InputFields, ScaledQtyBound
  <2>3. qty \in Lots
    BY <2>2, LotsAreNaturals DEF CanOpenShort
  <2> QED
    BY <1>1, <2>3, EnteredType, InputFields, Members
<1>3. o = [e EXCEPT !.state = "POSITION_SHORT", !.stop_structural = 0,
                    !.stop_catastrophic = 0]
  BY DEF OpenedShort
<1>4. /\ e.entry_price = i.price /\ e.target_price = i.pivot.zd
      /\ e.entry_pivot_id = i.pivot.id /\ e.entry_direction = "SHORT"
      /\ e.traded_pivot_ids = d.traded_pivot_ids
  BY <1>1, EnteredFields
<1>5. d.traded_pivot_ids = m.traded_pivot_ids
  BY DriftedFields
<1> HIDE DEF d, qty, e, o
<1>6. /\ o.state = "POSITION_SHORT"
      /\ o.stop_structural = 0 /\ o.stop_catastrophic = 0
      /\ o.entry_price = e.entry_price /\ o.target_price = e.target_price
      /\ o.entry_pivot_id = e.entry_pivot_id
      /\ o.entry_direction = e.entry_direction
      /\ o.traded_pivot_ids = e.traded_pivot_ids
  BY <1>2, <1>3, StopsFields
<1> QED
  BY <1>4, <1>5, <1>6 DEF o

LEMMA SweepFields ==
    ASSUME NEW m \in Machines, NEW price \in Nat
    PROVE  /\ SweptLong(m, price).state = "IDLE"
           /\ SweptLong(m, price).entry_price = 0
           /\ SweptLong(m, price).entry_direction = ""
           /\ SweptLong(m, price).traded_pivot_ids = m.traded_pivot_ids
           /\ ReduceLocked(m).state = "IDLE"
           /\ ReduceLocked(m).entry_price = 0
           /\ ReduceLocked(m).entry_direction = ""
           /\ ReduceLocked(m).traded_pivot_ids = Marked(m)
<1> DEFINE flat == Flat(m, "IDLE")
<1>1. flat \in Machines
  BY FlatType, Members
<1>2. /\ flat.state = "IDLE" /\ flat.entry_price = 0 /\ flat.entry_direction = ""
      /\ flat.traded_pivot_ids = m.traded_pivot_ids
  BY FlatFields, Members
<1>3. SweptLong(m, price) =
        [flat EXCEPT !.daily_pnl = @ + LongNet(m, price), !.daily_trades = @ + 1]
  BY DEF SweptLong
<1>4. ReduceLocked(m) =
        [flat EXCEPT !.target_price = 0, !.stop_structural = 0,
                     !.stop_catastrophic = 0, !.traded_pivot_ids = Marked(m)]
  BY DEF ReduceLocked
<1> HIDE DEF flat
<1>5. /\ SweptLong(m, price).state = "IDLE"
      /\ SweptLong(m, price).entry_price = 0
      /\ SweptLong(m, price).entry_direction = ""
      /\ SweptLong(m, price).traded_pivot_ids = m.traded_pivot_ids
  BY <1>1, <1>2, <1>3 DEF Machines
<1>6. /\ ReduceLocked(m).state = "IDLE"
      /\ ReduceLocked(m).entry_price = 0
      /\ ReduceLocked(m).entry_direction = ""
      /\ ReduceLocked(m).traded_pivot_ids = Marked(m)
  BY <1>1, <1>2, <1>4 DEF Machines
<1> QED
  BY <1>5, <1>6

-----------------------------------------------------------------------------
(* The arguments of a step and the history it starts from.                 *)

LEMMA InputsType ==
    ASSUME NEW i \in Inputs, today \in Dates
    PROVE  i \in TickInputs
<1>1. PICK a \in Market : i = [a EXCEPT !.date = today]
  BY DEF Inputs
<1>2. a \in TickInputs
  BY MarketAssumption
<1> QED
  BY <1>1, <1>2 DEF TickInputs

LEMMA CountTripType ==
    ASSUME NEW trips \in [Windows -> Nat], NEW m
    PROVE  CountTrip(trips, m) \in [Windows -> Nat]
BY DEF CountTrip

LEMMA HistoryType ==
    ASSUME TypeOK, NEW i \in TickInputs
    PROVE  TripsAt(i) \in [Windows -> Nat]
BY DEF TypeOK, TripsAt, NoTrips

LEMMA SignalsMembers ==
    /\ \A fill \in Fills : fill \in Signals
    /\ "" \in Signals /\ "REDUCE_LOCK" \in Signals /\ "RAISED" \in Signals
    /\ "BUY_LONG" \in Signals /\ "SELL_LONG" \in Signals /\ "STOP_LONG" \in Signals
    /\ "SELL_SHORT" \in Signals /\ "BUY_SHORT" \in Signals /\ "SWEEP_LONG" \in Signals
BY DEF Signals, Fills

(* The three shapes of a tick's effect keep the types.                     *)
LEMMA EffectType ==
    ASSUME TypeOK, NEW i \in TickInputs, NEW after \in Machines,
           NEW fill \in Signals, NEW m,
           Opens(i, after, fill) \/ Closes(i, m, after, fill) \/ Stays(i, after)
    PROVE  TypeOK'
<1>1. TripsAt(i) \in [Windows -> Nat]
  BY HistoryType
<1>2. CountTrip(TripsAt(i), m) \in [Windows -> Nat]
  BY <1>1, CountTripType
<1>3. today' \in Dates /\ machine' \in Machines
  BY DEF TypeOK, Opens, Closes, Stays
<1>4. signal' \in Signals
  BY SignalsMembers DEF Opens, Closes, Stays
<1>5. round_trips' \in [Windows -> Nat]
  BY <1>1, <1>2 DEF Opens, Closes, Stays
<1> QED
  BY <1>3, <1>4, <1>5 DEF TypeOK

LEMMA TickType ==
    ASSUME TypeOK, NEW i \in TickInputs, Tick(i)
    PROVE  TypeOK'
<1> DEFINE m == AtTick(machine, i)
<1>1. m \in Machines
  BY AtTickType DEF TypeOK
<1>2. CASE OpenLong(i)
  <2>1. CanOpenLong(m, i) /\ Opens(i, OpenedLong(m, i), "BUY_LONG")
    BY <1>2 DEF OpenLong
  <2> QED
    BY <1>1, <2>1, OpenedLongType, EffectType, SignalsMembers
<1>3. CASE OpenShort(i)
  <2> DEFINE o == OpenedShort(m, i)
  <2>1. CanOpenShort(m, i) /\ Opens(i, o, "SELL_SHORT")
    BY <1>3 DEF OpenShort
  <2>2. o \in Machines
    BY <1>1, <2>1, OpenedShortType
  <2> QED
    BY <2>1, <2>2, EffectType, SignalsMembers
<1>4. CASE StopLong(i)
  BY <1>1, <1>4, StoppedLongType, EffectType, SignalsMembers DEF StopLong
<1>5. CASE TakeProfit(i)
  <2>1. \E fill \in Signals : Closes(i, m, TookProfit(m, i), fill)
    BY <1>5, SignalsMembers DEF TakeProfit
  <2> QED
    BY <1>1, <2>1, TookProfitType, EffectType
<1>6. CASE CoverAtTarget(i)
  <2>1. \E fill \in Signals : Closes(i, m, Covered(m, i), fill)
    BY <1>6, SignalsMembers DEF CoverAtTarget
  <2> QED
    BY <1>1, <2>1, CoveredType, EffectType
<1>7. CASE CoverEarly(i)
  BY <1>1, <1>7, CoveredType, EffectType, SignalsMembers DEF CoverEarly
<1>8. CASE RiskLock(i)
  BY <1>1, <1>8, LockedType, EffectType, SignalsMembers DEF RiskLock
<1>9. CASE Watch(i)
  <2>1. \E after \in Machines : Stays(i, after)
    BY <1>1, <1>9, DriftedType DEF Watch
  <2> QED
    BY <2>1, EffectType, SignalsMembers
<1>10. CASE Hold(i)
  BY <1>1, <1>10, EffectType, SignalsMembers DEF Hold
<1> QED
  BY <1>2, <1>3, <1>4, <1>5, <1>6, <1>7, <1>8, <1>9, <1>10 DEF Tick

(* Type correctness, for any market of well-formed tick arguments: no      *)
(* branch of tick() or force_sweep() opens a position of no lots, or       *)
(* leaves a field outside its range.                                       *)
THEOREM TypeCorrect == Spec => []TypeOK
<1>1. Init => TypeOK
  <2> SUFFICES ASSUME Init PROVE TypeOK
    OBVIOUS
  <2>1. today \in Dates
    BY DEF Init
  <2>2. machine \in Machines
    BY <2>1, FreshType, T0QtyAssumption DEF Init
  <2> QED
    BY <2>1, <2>2, SignalsMembers DEF Init, TypeOK, NoTrips
<1>2. TypeOK /\ [Next]_vars => TypeOK'
  <2> SUFFICES ASSUME TypeOK, [Next]_vars PROVE TypeOK'
    OBVIOUS
  <2>1. ASSUME NEW i \in Inputs, Tick(i) PROVE TypeOK'
    BY <2>1, InputsType, TickType DEF TypeOK
  <2>2. ASSUME NEW i \in Market, ForceSweepLong(i.price) PROVE TypeOK'
    <3>1. i.price \in Nat
      BY MarketAssumption, InputFields, LotsAreNaturals
    <3>2. SweptLong(machine, i.price) \in Machines
      BY <3>1, SweptLongType DEF TypeOK
    <3> QED
      BY <2>2, <3>2, SignalsMembers DEF ForceSweepLong, TypeOK
  <2>3. CASE ForceSweepShort
    <3>1. ReduceLocked(machine) \in Machines
      BY ReduceLockedType DEF TypeOK
    <3>2. CountTrip(round_trips, machine) \in [Windows -> Nat]
      BY CountTripType DEF TypeOK
    <3> QED
      BY <2>3, <3>1, <3>2, SignalsMembers DEF ForceSweepShort, TypeOK
  <2>4. CASE NewDay
    BY <2>4 DEF NewDay, TypeOK
  <2>5. CASE UNCHANGED vars
    BY <2>5 DEF vars, TypeOK
  <2> QED
    BY <2>1, <2>2, <2>3, <2>4, <2>5 DEF Next
<1> QED
  BY <1>1, <1>2, PTL DEF Spec

-----------------------------------------------------------------------------
(* One window, one trade.                                                  *)

(* A machine that keeps its marks, is flat or opens in a window not marked *)
(* stays in step with an unchanged history.                                *)
LEMMA MarksKept ==
    ASSUME NEW trips, NEW m, NEW after, MarksTrips(trips, m),
           after.traded_pivot_ids = m.traded_pivot_ids,
           \/ after.state \notin {"POSITION_LONG", "POSITION_SHORT"}
           \/ <<after.entry_pivot_id, after.entry_direction>> \notin m.traded_pivot_ids
    PROVE  MarksTrips(trips, after)
BY DEF MarksTrips

(* An exit marks its window exactly when the history counts it.            *)
LEMMA MarksClosed ==
    ASSUME NEW trips \in [Windows -> Nat], NEW m \in Machines, NEW after,
           MarksTrips(trips, m), m.state \in {"POSITION_LONG", "POSITION_SHORT"},
           after.traded_pivot_ids = Marked(m),
           after.state \notin {"POSITION_LONG", "POSITION_SHORT"}
    PROVE  MarksTrips(CountTrip(trips, m), after)
<1> DEFINE open == <<m.entry_pivot_id, m.entry_direction>>
<1>1. open \notin m.traded_pivot_ids
  BY DEF MarksTrips
<1>2. m.entry_pivot_id \in Ids /\ m.entry_direction \in EntryDirections
  BY MachineFields
<1>3. SUFFICES \A w \in Windows :
                  CountTrip(trips, m)[w] = IF w \in Marked(m) THEN 1 ELSE 0
  BY DEF MarksTrips
<1>4. TAKE w \in Windows
<1>5. trips[w] = IF w \in m.traded_pivot_ids THEN 1 ELSE 0
  BY DEF MarksTrips
<1>6. CASE m.entry_pivot_id = NoId \/ m.entry_direction = ""
  <2>1. open \notin Windows
    BY <1>6, NoIdAssumption DEF Windows, Sides
  <2>2. CountTrip(trips, m)[w] = trips[w]
    BY <2>1 DEF CountTrip
  <2> QED
    BY <1>5, <1>6, <2>2 DEF Marked
<1>7. CASE ~(m.entry_pivot_id = NoId \/ m.entry_direction = "")
  <2>1. Marked(m) = m.traded_pivot_ids \cup {open}
    BY <1>7 DEF Marked
  <2>2. CASE w = open
    <3>1. CountTrip(trips, m)[w] = trips[w] + 1
      BY <2>2 DEF CountTrip
    <3>2. trips[w] = 0
      BY <1>1, <1>5, <2>2
    <3> QED
      BY <2>1, <2>2, <3>1, <3>2
  <2>3. CASE w # open
    <3>1. CountTrip(trips, m)[w] = trips[w]
      BY <2>3 DEF CountTrip
    <3> QED
      BY <1>5, <2>1, <2>3, <3>1
  <2> QED
    BY <2>2, <2>3
<1> QED
  BY <1>6, <1>7

(* The reset of a new day clears the marks together with the history.      *)
LEMMA MarksAtTick ==
    ASSUME TypeOK, WindowsRecorded, NEW i \in TickInputs
    PROVE  MarksTrips(TripsAt(i), AtTick(machine, i))
<1>1. CASE machine.trade_date = i.date
  <2> DEFINE q == i.t0_qty
             m == [machine EXCEPT !.t0_qty = q]
  <2>1. AtTick(machine, i) = m /\ TripsAt(i) = round_trips
    BY <1>1 DEF AtTick, TripsAt
  <2>2. machine \in Machines
    BY DEF TypeOK
  <2> HIDE DEF q
  <2>3. /\ m.traded_pivot_ids = machine.traded_pivot_ids /\ m.state = machine.state
        /\ m.entry_pivot_id = machine.entry_pivot_id
        /\ m.entry_direction = machine.entry_direction
    BY <2>2 DEF Machines
  <2> QED
    BY <2>1, <2>3 DEF WindowsRecorded, MarksTrips
<1>2. CASE machine.trade_date # i.date
  <2>1. AtTick(machine, i) = Fresh(i.date, i.t0_qty) /\ TripsAt(i) = NoTrips
    BY <1>2 DEF AtTick, TripsAt
  <2>2. /\ AtTick(machine, i).traded_pivot_ids = {}
        /\ AtTick(machine, i).state = "IDLE"
    <3> DEFINE d == i.date
               q == i.t0_qty
    <3>1. d \in Dates /\ q \in Lots
      BY InputFields
    <3>2. AtTick(machine, i) = Fresh(d, q)
      BY <2>1
    <3> HIDE DEF d, q
    <3>3. Fresh(d, q).traded_pivot_ids = {} /\ Fresh(d, q).state = "IDLE"
      BY <3>1, FreshFields
    <3> QED
      BY <3>2, <3>3, Zenon
  <2>3. \A w \in Windows : TripsAt(i)[w] = 0
    BY <2>1 DEF NoTrips
  <2> QED
    BY <2>2, <2>3 DEF MarksTrips
<1> QED
  BY <1>1, <1>2

LEMMA TickMarks ==
    ASSUME TypeOK, WindowsRecorded, NEW i \in TickInputs, Tick(i)
    PROVE  WindowsRecorded'
<1> DEFINE m == AtTick(machine, i)
           trips == TripsAt(i)
<1>1. m \in Machines /\ trips \in [Windows -> Nat] /\ MarksTrips(trips, m)
  BY AtTickType, HistoryType, MarksAtTick DEF TypeOK
<1>2. CASE OpenLong(i)
  <2> DEFINE o == OpenedLong(m, i)
  <2>1. CanOpenLong(m, i) /\ machine' = o /\ round_trips' = trips
    BY <1>2 DEF OpenLong, Opens
  <2>2. /\ o.traded_pivot_ids = m.traded_pivot_ids
        /\ o.entry_pivot_id = i.pivot.id /\ o.entry_direction = "LONG"
    BY <1>1, <2>1, OpenedLongFields
  <2>3. <<i.pivot.id, "LONG">> \notin m.traded_pivot_ids
    BY <2>1 DEF CanOpenLong, AlreadyTraded
  <2> HIDE DEF o, m, trips
  <2> QED
    BY <1>1, <2>1, <2>2, <2>3, MarksKept DEF WindowsRecorded
<1>3. CASE OpenShort(i)
  <2> DEFINE o == OpenedShort(m, i)
  <2>1. CanOpenShort(m, i) /\ machine' = o /\ round_trips' = trips
    BY <1>3 DEF OpenShort, Opens
  <2>2. /\ o.traded_pivot_ids = m.traded_pivot_ids
        /\ o.entry_pivot_id = i.pivot.id /\ o.entry_direction = "SHORT"
    BY <1>1, <2>1, OpenedShortFields
  <2>3. <<i.pivot.id, "SHORT">> \notin m.traded_pivot_ids
    BY <2>1 DEF CanOpenShort, AlreadyTraded
  <2> HIDE DEF o, m, trips
  <2> QED
    BY <1>1, <2>1, <2>2, <2>3, MarksKept DEF WindowsRecorded
<1>4. ASSUME NEW after \in {StoppedLong(m, i), TookProfit(m, i), Covered(m, i)},
             machine' = after, round_trips' = CountTrip(trips, m),
             m.state \in {"POSITION_LONG", "POSITION_SHORT"}
      PROVE  WindowsRecorded'
  <2>1. /\ after.traded_pivot_ids = Marked(m)
        /\ after.state \notin {"POSITION_LONG", "POSITION_SHORT"}
    BY <1>1, ExitFields
  <2> HIDE DEF m, trips
  <2> QED
    BY <1>1, <1>4, <2>1, MarksClosed DEF WindowsRecorded
<1>5. CASE StopLong(i)
  BY <1>4, <1>5 DEF StopLong, CanStopLong, Closes
<1>6. CASE TakeProfit(i)
  BY <1>4, <1>6 DEF TakeProfit, CanTakeProfit, Closes
<1>7. CASE CoverAtTarget(i)
  BY <1>4, <1>7 DEF CoverAtTarget, CanCoverAtTarget, Closes
<1>8. CASE CoverEarly(i)
  BY <1>4, <1>8 DEF CoverEarly, CanCoverEarly, Closes
<1>9. CASE RiskLock(i)
  <2>1. machine' = Locked(m) /\ round_trips' = trips
    BY <1>9 DEF RiskLock, Stays
  <2>2. Locked(m).traded_pivot_ids = m.traded_pivot_ids /\ Locked(m).state = "LOCKDOWN"
    BY <1>1 DEF Locked, Machines
  <2> HIDE DEF m, trips
  <2> QED
    BY <1>1, <2>1, <2>2, MarksKept DEF WindowsRecorded
<1>10. CASE Watch(i)
  <2>1. /\ machine' = m \/ machine' = Drifted(m, i)
        /\ round_trips' = trips /\ m.state = "IDLE"
    BY <1>10 DEF Watch, Stays
  <2>2. Drifted(m, i).traded_pivot_ids = m.traded_pivot_ids /\ Drifted(m, i).state = m.state
    BY <1>1, DriftedFields
  <2> HIDE DEF m, trips
  <2> QED
    BY <1>1, <2>1, <2>2, MarksKept DEF WindowsRecorded
<1>11. CASE Hold(i)
  BY <1>1, <1>11 DEF Hold, Stays, WindowsRecorded
<1> QED
  BY <1>2, <1>3, <1>5, <1>6, <1>7, <1>8, <1>9, <1>10, <1>11 DEF Tick

(* The marks of the machine are the history of its day, for any market,    *)
(* any number of windows and days.                                         *)
THEOREM WindowsAreRecorded == Spec => []WindowsRecorded
<1>1. Init => WindowsRecorded
  <2> SUFFICES ASSUME Init PROVE WindowsRecorded
    OBVIOUS
  <2>1. machine.traded_pivot_ids = {} /\ machine.state = "IDLE"
    BY DEF Init, Fresh
  <2>2. \A w \in Windows : round_trips[w] = 0
    BY DEF Init, NoTrips
  <2> QED
    BY <2>1, <2>2 DEF WindowsRecorded, MarksTrips
<1>2. TypeOK /\ WindowsRecorded /\ [Next]_vars => WindowsRecorded'
  <2> SUFFICES ASSUME TypeOK, WindowsRecorded, [Next]_vars PROVE WindowsRecorded'
    OBVIOUS
  <2>1. machine \in Machines /\ round_trips \in [Windows -> Nat]
    BY DEF TypeOK
  <2>2. ASSUME NEW i \in Inputs, Tick(i) PROVE WindowsRecorded'
    BY <2>2, InputsType, TickMarks DEF TypeOK
  <2>3. ASSUME NEW i \in Market, ForceSweepLong(i.price) PROVE WindowsRecorded'
    <3> DEFINE after == SweptLong(machine, i.price)
    <3>1. i.price \in Nat
      BY MarketAssumption, InputFields, LotsAreNaturals
    <3>2. after.traded_pivot_ids = machine.traded_pivot_ids /\ after.state = "IDLE"
      BY <2>1, <3>1, SweepFields
    <3>3. machine' = after /\ round_trips' = round_trips
      BY <2>3 DEF ForceSweepLong
    <3> HIDE DEF after
    <3> QED
      BY <3>2, <3>3, MarksKept DEF WindowsRecorded
  <2>4. CASE ForceSweepShort
    <3> DEFINE after == ReduceLocked(machine)
    <3>1. after.traded_pivot_ids = Marked(machine) /\ after.state = "IDLE"
      BY <2>1, SweepFields
    <3>2. /\ machine' = after /\ round_trips' = CountTrip(round_trips, machine)
          /\ machine.state = "POSITION_SHORT"
      BY <2>4 DEF ForceSweepShort
    <3> HIDE DEF after
    <3> QED
      BY <2>1, <3>1, <3>2, MarksClosed DEF WindowsRecorded
  <2>5. CASE NewDay
    BY <2>5 DEF NewDay, WindowsRecorded
  <2>6. CASE UNCHANGED vars
    BY <2>6 DEF vars, WindowsRecorded
  <2> QED
    BY <2>2, <2>3, <2>4, <2>5, <2>6 DEF Next
<1> QED
  BY <1>1, <1>2, TypeCorrect, PTL DEF Spec

(* One window, one trade.                                                  *)
THEOREM OneWindowOneTrade == Spec => []OneRoundTripPerWindow
<1>1. WindowsRecorded => OneRoundTripPerWindow
  BY DEF WindowsRecorded, MarksTrips, OneRoundTripPerWindow
<1> QED
  BY <1>1, WindowsAreRecorded, PTL

-----------------------------------------------------------------------------
(* A position is bracketed.                                                *)

(* The costs are not negative, so an edge that pays them is positive.      *)
LEMMA EdgeIsPositive ==
    ASSUME NEW edge \in Int, NEW price \in Nat, NEW lots \in Nat,
           EnoughEdge(edge, price, lots)
    PROVE  edge > 0
<1> DEFINE amount == price * lots
<1>1. amount \in Nat
  OBVIOUS
<1> HIDE DEF amount
<1>2. BuyCost(price, lots) \in Nat
  BY <1>1 DEF BuyCost, Larger, MinCommission, CommissionRate, TransferRate, Slippage, amount
<1>3. SellCost(price, lots) \in Nat
  BY <1>1, <1>2 DEF SellCost, StampRate, amount
<1>4. Gross(edge, lots) > 0
  <2>1. Gross(edge, lots) \in Int
    BY CostsAreIntegers
  <2>2. Gross(edge, lots) > 2 * (BuyCost(price, lots) + SellCost(price, lots))
    BY DEF EnoughEdge, RoundTripCost
  <2> QED
    BY <1>2, <1>3, <2>1, <2>2
<1>5. edge * lots \in Int /\ edge * lots > 0
  BY <1>4 DEF Gross
<1> QED
  BY <1>5

(* A branch that leaves the machine flat leaves nothing of its entry.      *)
LEMMA FlatIsBracketed ==
    ASSUME NEW m \in Machines, m.state \in {"IDLE", "LOCKDOWN"},
           m.entry_price = 0, m.entry_direction = ""
    PROVE  Bracketed(m)
BY DEF Bracketed, LongBracket, ShortBracket, Vacant

LEMMA AtTickBracketed ==
    ASSUME TypeOK, PositionBracketed, NEW i \in TickInputs
    PROVE  Bracketed(AtTick(machine, i))
<1>1. CASE machine.trade_date = i.date
  <2> DEFINE q == i.t0_qty
             m == [machine EXCEPT !.t0_qty = q]
  <2>1. AtTick(machine, i) = m
    BY <1>1 DEF AtTick
  <2>2. machine \in Machines
    BY DEF TypeOK
  <2> HIDE DEF q
  <2>3. /\ m.state = machine.state /\ m.entry_price = machine.entry_price
        /\ m.target_price = machine.target_price
        /\ m.stop_catastrophic = machine.stop_catastrophic
        /\ m.stop_structural = machine.stop_structural
        /\ m.entry_direction = machine.entry_direction
    BY <2>2 DEF Machines
  <2>4. /\ machine.entry_price \in Nat /\ machine.target_price \in Nat
        /\ machine.stop_catastrophic \in Int /\ machine.stop_structural \in Int
    BY <2>2, MachineFields
  <2> HIDE DEF m
  <2>5. LongBracket(machine) => LongBracket(m)
    BY <2>3, <2>4 DEF LongBracket
  <2>6. ShortBracket(machine) => ShortBracket(m)
    BY <2>3, <2>4 DEF ShortBracket
  <2>7. Vacant(machine) => Vacant(m)
    BY <2>3, <2>4 DEF Vacant
  <2>8. Bracketed(m)
    BY <2>3, <2>5, <2>6, <2>7 DEF PositionBracketed, Bracketed
  <2> QED
    BY <2>1, <2>8
<1>2. CASE machine.trade_date # i.date
  <2> DEFINE m == Fresh(i.date, i.t0_qty)
  <2>1. AtTick(machine, i) = m
    BY <1>2 DEF AtTick
  <2>2. m.state = "IDLE" /\ m.entry_price = 0 /\ m.entry_direction = ""
    <3>1. i.date \in Dates /\ i.t0_qty \in Lots
      BY InputFields
    <3> QED
      BY <3>1, FreshFields
  <2> HIDE DEF m
  <2>3. m \in Machines
    BY <2>1, AtTickType DEF TypeOK
  <2>4. Bracketed(m)
    BY <2>2, <2>3, FlatIsBracketed
  <2> QED
    BY <2>1, <2>4
<1> QED
  BY <1>1, <1>2

LEMMA TickBracketed ==
    ASSUME TypeOK, PositionBracketed, NEW i \in TickInputs, Tick(i)
    PROVE  PositionBracketed'
<1> DEFINE m == AtTick(machine, i)
<1>1. m \in Machines /\ Bracketed(m)
  BY AtTickType, AtTickBracketed DEF TypeOK
<1>2. CASE OpenLong(i)
  <2> DEFINE o == OpenedLong(m, i)
             p == i.price
             zg == i.pivot.zg
  <2>1. CanOpenLong(m, i) /\ machine' = o
    BY <1>2 DEF OpenLong, Opens
  <2>2. /\ o.state = "POSITION_LONG" /\ o.entry_direction = "LONG"
        /\ o.entry_price = p /\ o.target_price = zg /\ o.stop_catastrophic = 970 * p
    BY <1>1, <2>1, OpenedLongFields
  <2>3. p \in Nat /\ p >= 1 /\ zg \in Nat /\ i.t0_qty \in Nat
    BY InputFields, LotsAreNaturals
  <2>4. EnoughEdge(zg - p, p, i.t0_qty)
    BY <2>1 DEF CanOpenLong
  <2> HIDE DEF o, p, zg
  <2>5. zg - p > 0
    BY <2>3, <2>4, EdgeIsPositive
  <2>6. p < zg /\ 0 < 970 * p /\ 970 * p < 1000 * p
    BY <2>3, <2>5
  <2>7. Bracketed(o)
    BY <2>2, <2>3, <2>6 DEF Bracketed, LongBracket, ShortBracket, Vacant
  <2> QED
    BY <2>1, <2>7 DEF PositionBracketed
<1>3. CASE OpenShort(i)
  <2> DEFINE o == OpenedShort(m, i)
             p == i.price
             zd == i.pivot.zd
  <2>1. CanOpenShort(m, i) /\ machine' = o
    BY <1>3 DEF OpenShort, Opens
  <2>2. /\ o.state = "POSITION_SHORT" /\ o.entry_direction = "SHORT"
        /\ o.entry_price = p /\ o.target_price = zd
        /\ o.stop_structural = 0 /\ o.stop_catastrophic = 0
    BY <1>1, <2>1, OpenedShortFields
  <2>3. p \in Nat /\ zd \in Nat /\ i.t0_qty \in Nat
    BY InputFields, LotsAreNaturals
  <2>4. EnoughEdge(p - zd, p, i.t0_qty) /\ zd # 0
    BY <2>1 DEF CanOpenShort, Permitted, HasPivot
  <2> HIDE DEF o, p, zd
  <2>5. p - zd > 0
    BY <2>3, <2>4, EdgeIsPositive
  <2>6. 0 < zd /\ zd < p
    BY <2>3, <2>4, <2>5
  <2>7. Bracketed(o)
    BY <2>2, <2>3, <2>6 DEF Bracketed, LongBracket, ShortBracket, Vacant
  <2> QED
    BY <2>1, <2>7 DEF PositionBracketed
<1>4. ASSUME NEW after \in {StoppedLong(m, i), TookProfit(m, i), Covered(m, i)},
             machine' = after
      PROVE  PositionBracketed'
  <2>1. /\ after.state \in {"IDLE", "LOCKDOWN"}
        /\ after.entry_price = 0 /\ after.entry_direction = ""
    BY <1>1, ExitFields
  <2>2. after \in Machines
    BY <1>1, StoppedLongType, TookProfitType, CoveredType
  <2>3. Bracketed(after)
    BY <2>1, <2>2, FlatIsBracketed
  <2> QED
    BY <1>4, <2>3 DEF PositionBracketed
<1>5. CASE StopLong(i) \/ TakeProfit(i) \/ CoverAtTarget(i) \/ CoverEarly(i)
  BY <1>4, <1>5 DEF StopLong, TakeProfit, CoverAtTarget, CoverEarly, Closes
<1>6. CASE RiskLock(i)
  <2>1. machine' = Locked(m) /\ m.state = "IDLE"
    BY <1>6 DEF RiskLock, Stays
  <2>2. m.entry_price = 0 /\ m.entry_direction = ""
    BY <1>1, <2>1 DEF Bracketed, LongBracket, ShortBracket, Vacant
  <2>3. /\ Locked(m).state = "LOCKDOWN" /\ Locked(m).entry_price = m.entry_price
        /\ Locked(m).entry_direction = m.entry_direction
    BY <1>1 DEF Locked, Machines
  <2> DEFINE after == Locked(m)
  <2>4. after \in Machines
    BY <1>1, LockedType
  <2>5. /\ after.state \in {"IDLE", "LOCKDOWN"}
        /\ after.entry_price = 0 /\ after.entry_direction = ""
    BY <2>2, <2>3
  <2> HIDE DEF m, after
  <2>6. Bracketed(after)
    BY <2>4, <2>5, FlatIsBracketed
  <2> QED
    BY <2>1, <2>6 DEF PositionBracketed, after
<1>7. CASE Watch(i)
  <2>1. machine' \in {m, Drifted(m, i)} /\ m.state = "IDLE"
    BY <1>7 DEF Watch, Stays
  <2>2. m.entry_price = 0 /\ m.entry_direction = ""
    BY <1>1, <2>1 DEF Bracketed, LongBracket, ShortBracket, Vacant
  <2>3. /\ Drifted(m, i).state = m.state /\ Drifted(m, i).entry_price = m.entry_price
        /\ Drifted(m, i).entry_direction = m.entry_direction
    BY <1>1, DriftedFields
  <2> DEFINE after == Drifted(m, i)
  <2>4. after \in Machines
    BY <1>1, DriftedType
  <2>5. /\ after.state \in {"IDLE", "LOCKDOWN"}
        /\ after.entry_price = 0 /\ after.entry_direction = ""
    BY <2>1, <2>2, <2>3
  <2> HIDE DEF after
  <2>6. Bracketed(after)
    BY <2>4, <2>5, FlatIsBracketed
  <2> QED
    BY <1>1, <2>1, <2>6 DEF PositionBracketed, after
<1>8. CASE Hold(i)
  BY <1>1, <1>8 DEF Hold, Stays, PositionBracketed
<1> QED
  BY <1>2, <1>3, <1>5, <1>6, <1>7, <1>8 DEF Tick

(* Every position is bracketed, whatever pivots and prices the market      *)
(* brings and whatever earlier branches left in the fields.                *)
THEOREM PositionsAreBracketed == Spec => []PositionBracketed
<1>1. Init => PositionBracketed
  <2> SUFFICES ASSUME Init PROVE PositionBracketed
    OBVIOUS
  <2>1. /\ machine.state = "IDLE" /\ machine.entry_price = 0
        /\ machine.entry_direction = ""
    BY DEF Init, Fresh
  <2>2. machine \in Machines
    BY FreshType, T0QtyAssumption DEF Init
  <2> QED
    BY <2>1, <2>2, FlatIsBracketed DEF PositionBracketed
<1>2. TypeOK /\ PositionBracketed /\ [Next]_vars => PositionBracketed'
  <2> SUFFICES ASSUME TypeOK, PositionBracketed, [Next]_vars PROVE PositionBracketed'
    OBVIOUS
  <2>1. machine \in Machines
    BY DEF TypeOK
  <2>2. ASSUME NEW i \in Inputs, Tick(i) PROVE PositionBracketed'
    BY <2>2, InputsType, TickBracketed DEF TypeOK
  <2>3. ASSUME NEW i \in Market, ForceSweepLong(i.price) PROVE PositionBracketed'
    <3>1. i.price \in Nat
      BY MarketAssumption, InputFields, LotsAreNaturals
    <3> DEFINE after == SweptLong(machine, i.price)
    <3>2. /\ after \in Machines /\ after.state \in {"IDLE", "LOCKDOWN"}
          /\ after.entry_price = 0 /\ after.entry_direction = ""
      BY <2>1, <3>1, SweptLongType, SweepFields
    <3>3. machine' = after
      BY <2>3 DEF ForceSweepLong
    <3> HIDE DEF after
    <3>4. Bracketed(after)
      BY <3>2, FlatIsBracketed
    <3> QED
      BY <3>3, <3>4 DEF PositionBracketed
  <2>4. CASE ForceSweepShort
    <3> DEFINE after == ReduceLocked(machine)
    <3>1. /\ after \in Machines /\ after.state \in {"IDLE", "LOCKDOWN"}
          /\ after.entry_price = 0 /\ after.entry_direction = ""
      BY <2>1, ReduceLockedType, SweepFields
    <3>2. machine' = after
      BY <2>4 DEF ForceSweepShort
    <3> HIDE DEF after
    <3>3. Bracketed(after)
      BY <3>1, FlatIsBracketed
    <3> QED
      BY <3>2, <3>3 DEF PositionBracketed
  <2>5. CASE NewDay
    BY <2>5 DEF NewDay, PositionBracketed
  <2>6. CASE UNCHANGED vars
    BY <2>6 DEF vars, PositionBracketed
  <2> QED
    BY <2>2, <2>3, <2>4, <2>5, <2>6 DEF Next
<1> QED
  BY <1>1, <1>2, TypeCorrect, PTL DEF Spec

-----------------------------------------------------------------------------
(* The state machine keeps the life cycle of T0Lifecycle.  The mapping     *)
(* forgets the prices and the counts, and a tick that is the first of a    *)
(* day, a reset and a branch in one call, maps to one StartDay.            *)

OpenStates == {"POSITION_LONG", "POSITION_SHORT"}
AnyWindow == Windows \cup ({NoId} \X Sides)

(* The window of a machine, as OpenWindow.                                 *)
WindowOf(m) == IF m.state \in OpenStates THEN <<m.entry_pivot_id, m.entry_direction>> ELSE <<NoId, "">>

(* What AtTick leaves: the machine of the same day, or a fresh one.        *)
LEMMA AtTickFields ==
    ASSUME TypeOK, NEW i \in TickInputs
    PROVE  LET m == AtTick(machine, i)
           IN  \/ /\ m.trade_date = machine.trade_date /\ m.state = machine.state
                  /\ m.traded_pivot_ids = machine.traded_pivot_ids
                  /\ m.entry_pivot_id = machine.entry_pivot_id
                  /\ m.entry_direction = machine.entry_direction
               \/ /\ m.trade_date # machine.trade_date
                  /\ m.state = "IDLE" /\ m.traded_pivot_ids = {}
<1> DEFINE m == AtTick(machine, i)
           q == i.t0_qty
           d == i.date
<1>1. machine \in Machines
  BY DEF TypeOK
<1>2. CASE machine.trade_date = d
  <2>1. m = [machine EXCEPT !.t0_qty = q]
    BY <1>2 DEF AtTick
  <2> HIDE DEF m, q
  <2>2. /\ m.trade_date = machine.trade_date /\ m.state = machine.state
        /\ m.traded_pivot_ids = machine.traded_pivot_ids
        /\ m.entry_pivot_id = machine.entry_pivot_id
        /\ m.entry_direction = machine.entry_direction
    BY <1>1, <2>1 DEF Machines
  <2> QED
    BY <2>2 DEF m
<1>3. CASE machine.trade_date # d
  <2>1. m = Fresh(d, q)
    BY <1>3 DEF AtTick
  <2> HIDE DEF m, d, q
  <2>2. m.trade_date = d /\ m.state = "IDLE" /\ m.traded_pivot_ids = {}
    BY <2>1 DEF Fresh
  <2> QED
    BY <1>3, <2>2 DEF m
<1> QED
  BY <1>2, <1>3

(* No branch changes the date or, but for the entries, the window.         *)
LEMMA DriftedKeeps ==
    ASSUME NEW m \in Machines, NEW i \in TickInputs
    PROVE  /\ Drifted(m, i).trade_date = m.trade_date
           /\ Drifted(m, i).entry_pivot_id = m.entry_pivot_id
           /\ Touched(m, i).trade_date = m.trade_date
<1> DEFINE d == Drifted(m, i)
           zd == i.pivot.zd
<1>1. \/ d = m
      \/ d = [m EXCEPT !.zd_touch_count = 0, !.last_pivot_zd = zd]
  BY DEF Drifted
<1>2. d \in Machines
  BY DriftedType
<1>3. Touched(m, i) = [d EXCEPT !.zd_touch_count = @ + 1]
  BY DEF Touched
<1> HIDE DEF d, zd
<1>4. d.trade_date = m.trade_date /\ d.entry_pivot_id = m.entry_pivot_id
  BY <1>1 DEF Machines
<1>5. Touched(m, i).trade_date = d.trade_date
  BY <1>2, <1>3 DEF Machines
<1> QED
  BY <1>4, <1>5 DEF d

LEMMA EnteredDate ==
    ASSUME NEW m \in Machines, NEW i, NEW side, NEW target, NEW qty, NEW state,
           NEW stop, NEW floor
    PROVE  [Entered(m, i, side, target, qty) EXCEPT
               !.state = state, !.stop_structural = stop,
               !.stop_catastrophic = floor].trade_date = m.trade_date
<1> DEFINE price == i.price
           id == i.pivot.id
           trades == m.daily_trades + 1
           e == [m EXCEPT !.entry_price = price, !.target_price = target,
                          !.entry_pivot_id = id, !.entry_direction = side,
                          !.current_open_qty = qty, !.daily_trades = trades]
<1>1. Entered(m, i, side, target, qty) = e
  BY DEF Entered
<1> HIDE DEF price, id, trades
<1>2. [e EXCEPT !.state = state, !.stop_structural = stop,
                !.stop_catastrophic = floor].trade_date = m.trade_date
  BY DEF Machines
<1> QED
  BY <1>1, <1>2

LEMMA OpenedDate ==
    ASSUME NEW m \in Machines, NEW i \in TickInputs
    PROVE  /\ OpenedLong(m, i).trade_date = m.trade_date
           /\ OpenedShort(m, i).trade_date = m.trade_date
<1>1. OpenedLong(m, i).trade_date = Touched(m, i).trade_date
  BY TouchedType, EnteredDate DEF OpenedLong
<1>2. OpenedShort(m, i).trade_date = Drifted(m, i).trade_date
  BY DriftedType, EnteredDate DEF OpenedShort
<1> QED
  BY <1>1, <1>2, DriftedKeeps

LEMMA ExitDate ==
    ASSUME NEW m \in Machines, NEW i \in TickInputs
    PROVE  \A o \in {StoppedLong(m, i), TookProfit(m, i), Covered(m, i)} :
              o.trade_date = m.trade_date
<1> DEFINE stopped == Flat(m, "LOCKDOWN")
           flat == Flat(m, "IDLE")
<1>1. /\ stopped \in Machines /\ flat \in Machines
      /\ stopped.trade_date = m.trade_date /\ flat.trade_date = m.trade_date
  BY FlatType, FlatFields, Members
<1>2. StoppedLong(m, i) =
        [stopped EXCEPT !.daily_pnl = @ + LongNet(m, i.price),
                        !.daily_stop_count = @ + 1, !.traded_pivot_ids = Marked(m)]
  BY DEF StoppedLong
<1>3. TookProfit(m, i) =
        [flat EXCEPT !.daily_pnl = @ + LongNet(m, i.price), !.target_price = 0,
                     !.traded_pivot_ids = Marked(m)]
  BY DEF TookProfit
<1>4. Covered(m, i) =
        [flat EXCEPT !.daily_pnl = @ + ShortNet(m, i.price), !.target_price = 0,
                     !.traded_pivot_ids = Marked(m)]
  BY DEF Covered
<1> HIDE DEF stopped, flat
<1>5. StoppedLong(m, i).trade_date = m.trade_date
  BY <1>1, <1>2 DEF Machines
<1>6. TookProfit(m, i).trade_date = m.trade_date
  BY <1>1, <1>3 DEF Machines
<1>7. Covered(m, i).trade_date = m.trade_date
  BY <1>1, <1>4 DEF Machines
<1> QED
  BY <1>5, <1>6, <1>7

LEMMA SweepDate ==
    ASSUME NEW m \in Machines, NEW price \in Nat
    PROVE  /\ SweptLong(m, price).trade_date = m.trade_date
           /\ ReduceLocked(m).trade_date = m.trade_date
<1> DEFINE flat == Flat(m, "IDLE")
<1>1. flat \in Machines /\ flat.trade_date = m.trade_date
  BY FlatType, FlatFields, Members
<1>2. SweptLong(m, price) =
        [flat EXCEPT !.daily_pnl = @ + LongNet(m, price), !.daily_trades = @ + 1]
  BY DEF SweptLong
<1>3. ReduceLocked(m) =
        [flat EXCEPT !.target_price = 0, !.stop_structural = 0,
                     !.stop_catastrophic = 0, !.traded_pivot_ids = Marked(m)]
  BY DEF ReduceLocked
<1> HIDE DEF flat
<1>4. SweptLong(m, price).trade_date = m.trade_date
  BY <1>1, <1>2 DEF Machines
<1>5. ReduceLocked(m).trade_date = m.trade_date
  BY <1>1, <1>3 DEF Machines
<1> QED
  BY <1>4, <1>5

-----------------------------------------------------------------------------
(* The shapes of a step.                                                   *)

LEMMA OpeningMaps ==
    ASSUME TypeOK, NEW i \in TickInputs, NEW m, m = AtTick(machine, i), NEW o, machine' = o,
           m.state = "IDLE", o.state \in OpenStates,
           o.trade_date = m.trade_date, o.traded_pivot_ids = m.traded_pivot_ids,
           <<o.entry_pivot_id, o.entry_direction>> \in AnyWindow \ m.traded_pivot_ids
    PROVE  Lifecycle!LifecycleNext
<1>1. OpenWindow' = <<o.entry_pivot_id, o.entry_direction>>
  BY DEF OpenWindow, OpenStates
<1>2. CASE /\ m.trade_date = machine.trade_date /\ m.state = machine.state
           /\ m.traded_pivot_ids = machine.traded_pivot_ids
  <2>1. Lifecycle!Open
    BY <1>1, <1>2 DEF Lifecycle!Open, Lifecycle!Positions, OpenStates, AnyWindow
  <2> QED
    BY <2>1 DEF Lifecycle!LifecycleNext
<1>3. CASE m.trade_date # machine.trade_date /\ m.traded_pivot_ids = {}
  <2>1. Lifecycle!StartDay
    BY <1>1, <1>3 DEF Lifecycle!StartDay, Lifecycle!Positions, OpenStates, AnyWindow
  <2> QED
    BY <2>1 DEF Lifecycle!LifecycleNext
<1> QED
  BY <1>2, <1>3, AtTickFields

LEMMA StayingMaps ==
    ASSUME TypeOK, NEW i \in TickInputs, NEW m, m = AtTick(machine, i), NEW o, machine' = o,
           \/ o.state = m.state
           \/ m.state = "IDLE" /\ o.state = "LOCKDOWN",
           o.trade_date = m.trade_date, o.traded_pivot_ids = m.traded_pivot_ids,
           o.entry_pivot_id = m.entry_pivot_id, o.entry_direction = m.entry_direction
    PROVE  [Lifecycle!LifecycleNext]_(Lifecycle!lifecycleVars)
<1>1. OpenWindow' = WindowOf(o) /\ OpenWindow = WindowOf(machine)
  BY DEF OpenWindow, OpenStates, WindowOf
<1>2. CASE /\ m.trade_date = machine.trade_date /\ m.state = machine.state
           /\ m.traded_pivot_ids = machine.traded_pivot_ids
           /\ m.entry_pivot_id = machine.entry_pivot_id
           /\ m.entry_direction = machine.entry_direction
  <2>1. CASE o.state = m.state
    BY <1>1, <1>2, <2>1 DEF Lifecycle!lifecycleVars, WindowOf
  <2>2. CASE m.state = "IDLE" /\ o.state = "LOCKDOWN"
    BY <1>1, <1>2, <2>2 DEF Lifecycle!LifecycleNext, Lifecycle!Lock, WindowOf, OpenStates
  <2> QED
    BY <2>1, <2>2
<1>3. CASE m.trade_date # machine.trade_date /\ m.state = "IDLE" /\ m.traded_pivot_ids = {}
  BY <1>1, <1>3 DEF Lifecycle!LifecycleNext, Lifecycle!StartDay, WindowOf, OpenStates
<1> QED
  BY <1>2, <1>3, AtTickFields

(* A position that closes completes its window, if that has an id.         *)
LEMMA ClosingMaps ==
    ASSUME NEW m \in Machines, NEW o, machine' = o, m.state \in OpenStates,
           m.state = machine.state, m.trade_date = machine.trade_date,
           m.traded_pivot_ids = machine.traded_pivot_ids,
           m.entry_pivot_id = machine.entry_pivot_id,
           m.entry_direction = machine.entry_direction,
           \/ o.state = "IDLE"
           \/ m.state = "POSITION_LONG" /\ o.state = "LOCKDOWN",
           o.trade_date = m.trade_date, o.traded_pivot_ids = Marked(m)
    PROVE  Lifecycle!LifecycleNext
<1> DEFINE w == <<m.entry_pivot_id, m.entry_direction>>
<1>1. OpenWindow' = <<NoId, "">> /\ OpenWindow = w
  BY DEF OpenWindow, OpenStates
<1>2. Marked(m) = m.traded_pivot_ids \cup ({w} \cap Windows)
  <2>1. m.entry_pivot_id \in Ids /\ m.entry_direction \in EntryDirections
    BY MachineFields
  <2>2. w \in Windows <=> ~(m.entry_pivot_id = NoId \/ m.entry_direction = "")
    BY <2>1, NoIdAssumption DEF Windows, Ids, EntryDirections, Sides
  <2> QED
    BY <2>2 DEF Marked
<1> HIDE DEF w
<1>3. Lifecycle!Complete
  BY <1>1, <1>2 DEF Lifecycle!Complete, Lifecycle!Positions, OpenStates
<1> QED
  BY <1>3 DEF Lifecycle!LifecycleNext

LEMMA TickMaps ==
    ASSUME TypeOK, NEW i \in TickInputs, Tick(i)
    PROVE  [Lifecycle!LifecycleNext]_(Lifecycle!lifecycleVars)
<1> DEFINE m == AtTick(machine, i)
<1>1. m \in Machines /\ i.pivot.id \in Ids
  BY AtTickType, InputFields DEF TypeOK
<1>2. CASE OpenLong(i)
  <2> DEFINE o == OpenedLong(m, i)
  <2>1. CanOpenLong(m, i) /\ machine' = o
    BY <1>2 DEF OpenLong, Opens
  <2>2. /\ o.state = "POSITION_LONG" /\ o.traded_pivot_ids = m.traded_pivot_ids
        /\ o.entry_pivot_id = i.pivot.id /\ o.entry_direction = "LONG"
        /\ o.trade_date = m.trade_date
    BY <1>1, <2>1, OpenedLongFields, OpenedDate
  <2>3. /\ m.state = "IDLE"
        /\ <<i.pivot.id, "LONG">> \in AnyWindow \ m.traded_pivot_ids
    BY <1>1, <2>1
       DEF CanOpenLong, Permitted, AlreadyTraded, AnyWindow, Windows, Ids, Sides
  <2> HIDE DEF o, m
  <2> QED
    BY <2>1, <2>2, <2>3, OpeningMaps DEF m, OpenStates
<1>3. CASE OpenShort(i)
  <2> DEFINE o == OpenedShort(m, i)
  <2>1. CanOpenShort(m, i) /\ machine' = o
    BY <1>3 DEF OpenShort, Opens
  <2>2. /\ o.state = "POSITION_SHORT" /\ o.traded_pivot_ids = m.traded_pivot_ids
        /\ o.entry_pivot_id = i.pivot.id /\ o.entry_direction = "SHORT"
        /\ o.trade_date = m.trade_date
    BY <1>1, <2>1, OpenedShortFields, OpenedDate
  <2>3. /\ m.state = "IDLE"
        /\ <<i.pivot.id, "SHORT">> \in AnyWindow \ m.traded_pivot_ids
    BY <1>1, <2>1
       DEF CanOpenShort, Permitted, AlreadyTraded, AnyWindow, Windows, Ids, Sides
  <2> HIDE DEF o, m
  <2> QED
    BY <2>1, <2>2, <2>3, OpeningMaps DEF m, OpenStates
<1>4. ASSUME NEW o \in {StoppedLong(m, i), TookProfit(m, i), Covered(m, i)},
             machine' = o, m.state \in OpenStates,
             o.state = "IDLE" \/ m.state = "POSITION_LONG"
      PROVE  Lifecycle!LifecycleNext
  <2>1. /\ o.state \in {"IDLE", "LOCKDOWN"} /\ o.traded_pivot_ids = Marked(m)
        /\ o.trade_date = m.trade_date
    BY ZenonT(60), <1>1, ExitFields, ExitDate
  <2>2. /\ m.trade_date = machine.trade_date /\ m.state = machine.state
        /\ m.traded_pivot_ids = machine.traded_pivot_ids
        /\ m.entry_pivot_id = machine.entry_pivot_id
        /\ m.entry_direction = machine.entry_direction
    BY <1>4, AtTickFields DEF OpenStates
  <2> HIDE DEF m
  <2> QED
    BY <1>1, <1>4, <2>1, <2>2, ClosingMaps
<1>5. CASE StopLong(i)
  BY <1>4, <1>5 DEF StopLong, CanStopLong, Closes, OpenStates
<1>6. CASE TakeProfit(i)
  BY <1>4, <1>6 DEF TakeProfit, CanTakeProfit, Closes, OpenStates
<1>7. CASE CoverAtTarget(i) \/ CoverEarly(i)
  <2>1. machine' = Covered(m, i) /\ m.state = "POSITION_SHORT"
    BY <1>7 DEF CoverAtTarget, CanCoverAtTarget, CoverEarly, CanCoverEarly, Closes
  <2>2. Covered(m, i).state = "IDLE"
    BY <1>1, ExitFields
  <2> QED
    BY <1>4, <2>1, <2>2 DEF OpenStates
<1>8. CASE RiskLock(i)
  <2> DEFINE o == Locked(m)
  <2>1. machine' = o /\ m.state = "IDLE"
    BY <1>8 DEF RiskLock, Stays
  <2>2. /\ o.state = "LOCKDOWN" /\ o.traded_pivot_ids = m.traded_pivot_ids
        /\ o.trade_date = m.trade_date /\ o.entry_pivot_id = m.entry_pivot_id
        /\ o.entry_direction = m.entry_direction
    BY <1>1 DEF Locked, Machines
  <2> HIDE DEF m, o
  <2> QED
    BY <2>1, <2>2, StayingMaps DEF m
<1>9. CASE Watch(i)
  <2>1. machine' = m \/ machine' = Drifted(m, i)
    BY <1>9 DEF Watch, Stays
  <2>2. /\ Drifted(m, i).state = m.state
        /\ Drifted(m, i).traded_pivot_ids = m.traded_pivot_ids
        /\ Drifted(m, i).trade_date = m.trade_date
        /\ Drifted(m, i).entry_pivot_id = m.entry_pivot_id
        /\ Drifted(m, i).entry_direction = m.entry_direction
    BY <1>1, DriftedFields, DriftedKeeps
  <2> HIDE DEF m
  <2> QED
    BY <2>1, <2>2, StayingMaps DEF m
<1>10. CASE Hold(i)
  <2>1. machine' = m
    BY <1>10 DEF Hold, Stays
  <2> HIDE DEF m
  <2> QED
    BY <2>1, StayingMaps DEF m
<1> QED
  BY <1>2, <1>3, <1>5, <1>6, <1>7, <1>8, <1>9, <1>10 DEF Tick

LEMMA SweepMaps ==
    ASSUME TypeOK, NEW price \in Nat, ForceSweepLong(price) \/ ForceSweepShort
    PROVE  Lifecycle!LifecycleNext
<1>1. machine \in Machines
  BY DEF TypeOK
<1>2. CASE ForceSweepLong(price)
  <2> DEFINE o == SweptLong(machine, price)
  <2>1. machine' = o /\ machine.state = "POSITION_LONG"
    BY <1>2 DEF ForceSweepLong
  <2>2. /\ o.state = "IDLE" /\ o.traded_pivot_ids = machine.traded_pivot_ids
        /\ o.trade_date = machine.trade_date
    BY <1>1, SweepFields, SweepDate
  <2> HIDE DEF o
  <2>3. Lifecycle!SweepOut
    BY <2>1, <2>2 DEF Lifecycle!SweepOut, OpenWindow
  <2> QED
    BY <2>3 DEF Lifecycle!LifecycleNext
<1>3. CASE ForceSweepShort
  <2> DEFINE o == ReduceLocked(machine)
  <2>1. machine' = o /\ machine.state = "POSITION_SHORT"
    BY <1>3 DEF ForceSweepShort
  <2>2. /\ o.state = "IDLE" /\ o.traded_pivot_ids = Marked(machine)
        /\ o.trade_date = machine.trade_date
    BY <1>1, SweepFields, SweepDate
  <2> HIDE DEF o
  <2> QED
    BY <1>1, <2>1, <2>2, ClosingMaps DEF OpenStates
<1> QED
  BY <1>2, <1>3

(* The object refines the life cycle its docstring draws: whatever the     *)
(* market brings, at most one position is open, it was opened in a window  *)
(* not completed before, and a locked day opens nothing.                   *)
THEOREM LifecycleIsKept == Spec => KeepsLifecycle
<1>1. Init => Lifecycle!LifecycleInit
  <2> SUFFICES ASSUME Init PROVE Lifecycle!LifecycleInit
    OBVIOUS
  <2>1. machine.state = "IDLE" /\ machine.traded_pivot_ids = {}
    BY DEF Init, Fresh
  <2> QED
    BY <2>1 DEF Lifecycle!LifecycleInit, OpenWindow
<1>2. TypeOK /\ [Next]_vars => [Lifecycle!LifecycleNext]_(Lifecycle!lifecycleVars)
  <2> SUFFICES ASSUME TypeOK, [Next]_vars
               PROVE  [Lifecycle!LifecycleNext]_(Lifecycle!lifecycleVars)
    OBVIOUS
  <2>1. ASSUME NEW i \in Inputs, Tick(i)
        PROVE  [Lifecycle!LifecycleNext]_(Lifecycle!lifecycleVars)
    BY <2>1, InputsType, TickMaps DEF TypeOK
  <2>2. ASSUME NEW i \in Market, ForceSweepLong(i.price) PROVE Lifecycle!LifecycleNext
    <3>1. i.price \in Nat
      BY MarketAssumption, InputFields, LotsAreNaturals
    <3> QED
      BY <2>2, <3>1, SweepMaps
  <2>3. CASE ForceSweepShort
    <3>1. 0 \in Nat
      OBVIOUS
    <3> QED
      BY <2>3, <3>1, SweepMaps
  <2>4. CASE UNCHANGED machine
    BY <2>4 DEF Lifecycle!lifecycleVars, OpenWindow
  <2> QED
    BY <2>1, <2>2, <2>3, <2>4 DEF Next, NewDay, vars
<1> QED
  BY <1>1, <1>2, TypeCorrect, PTL DEF Spec, KeepsLifecycle, Lifecycle!LifecycleSpec


-----------------------------------------------------------------------------
(* The ledger as a set of keys, of which each is there once.               *)

Keys == BagToSet(ledger)
OneEach == IsABag(ledger) /\ \A k \in Keys : CopiesOf(k) = 1

LEMMA CopiesOfKey ==
    ASSUME OneEach, NEW k
    PROVE  /\ CopiesOf(k) \in {0, 1}
           /\ CopiesOf(k) > 0 <=> k \in Keys
  BY DEF OneEach, Keys, CopiesOf, BagIn, BagToSet

LEMMA RecordAdds ==
    ASSUME OneEach, NEW k, Record(k)
    PROVE  /\ OneEach'
           /\ Keys' = Keys \cup {k} \/ ("record_fails" \in Events /\ Keys' = Keys)
<1>1. ASSUME k \notin Keys, ledger' = ledger (+) SetToBag({k})
      PROVE  OneEach' /\ Keys' = Keys \cup {k}
  <2> DEFINE one == SetToBag({k})
             new(j) == (IF j \in DOMAIN ledger THEN ledger[j] ELSE 0)
                           + (IF j \in DOMAIN one THEN one[j] ELSE 0)
  <2>1. DOMAIN one = {k} /\ one[k] = 1
    BY DEF SetToBag
  <2>2. ledger' = [j \in DOMAIN ledger \cup DOMAIN one |-> new(j)]
    BY <1>1 DEF (+)
  <2> HIDE DEF one
  <2>3. \A j \in DOMAIN ledger : ledger[j] = 1
    BY DEF OneEach, Keys, BagIn, BagToSet, CopiesOf
  <2>4. k \notin DOMAIN ledger
    BY <1>1 DEF Keys, BagToSet
  <2>5. \A j \in DOMAIN ledger \cup {k} : new(j) = 1
    BY <2>1, <2>3, <2>4
  <2>6. ledger' = [j \in DOMAIN ledger \cup {k} |-> 1]
    BY <2>1, <2>2, <2>5
  <2> HIDE DEF new
  <2>7. Keys' = Keys \cup {k}
    BY <2>6 DEF Keys, BagToSet
  <2>8. IsABag(ledger')
    BY <2>6 DEF IsABag
  <2>9. \A j \in Keys' : CopiesOf(j)' = 1
    BY <2>6, <2>7 DEF Keys, BagIn, BagToSet, CopiesOf
  <2> QED
    BY <2>7, <2>8, <2>9 DEF OneEach
<1>2. ASSUME UNCHANGED ledger PROVE OneEach' /\ Keys' = Keys
  BY <1>2 DEF OneEach, Keys, CopiesOf
<1>3. CASE ledger' = Recorded(ledger, k)
  <2>1. CASE k \in Keys
    <3>1. ledger' = ledger
      BY <1>3, <2>1 DEF Recorded, BagIn, Keys
    <3> QED
      BY <1>2, <2>1, <3>1
  <2>2. CASE k \notin Keys
    <3>1. ledger' = ledger (+) SetToBag({k})
      BY <1>3, <2>2 DEF Recorded, BagIn, Keys
    <3> QED
      BY <1>1, <2>2, <3>1
  <2> QED
    BY <2>1, <2>2
<1> QED
  BY <1>2, <1>3 DEF Record

LEMMA SameLedger == ASSUME OneEach, UNCHANGED ledger PROVE OneEach' /\ Keys' = Keys
  BY DEF OneEach, Keys, CopiesOf

-----------------------------------------------------------------------------
(* What a tick does to the state, the count of trades and the signal.      *)

LEMMA DriftedTrades ==
    ASSUME NEW m \in Machines, NEW i \in TickInputs
    PROVE  /\ Drifted(m, i).daily_trades = m.daily_trades
           /\ Touched(m, i).daily_trades = m.daily_trades
<1> DEFINE d == Drifted(m, i)
           zd == i.pivot.zd
<1>1. d = m \/ d = [m EXCEPT !.zd_touch_count = 0, !.last_pivot_zd = zd]
  BY DEF Drifted
<1>2. d \in Machines
  BY DriftedType
<1>3. Touched(m, i) = [d EXCEPT !.zd_touch_count = @ + 1]
  BY DEF Touched
<1> HIDE DEF d, zd
<1>4. d.daily_trades = m.daily_trades
  BY <1>1 DEF Machines
<1>5. Touched(m, i).daily_trades = d.daily_trades
  BY <1>2, <1>3 DEF Machines
<1> QED
  BY <1>4, <1>5 DEF d

LEMMA EnteredTrades ==
    ASSUME NEW m \in Machines, NEW i, NEW side, NEW target, NEW qty, NEW state,
           NEW stop, NEW floor
    PROVE  [Entered(m, i, side, target, qty) EXCEPT
               !.state = state, !.stop_structural = stop,
               !.stop_catastrophic = floor].daily_trades = m.daily_trades + 1
<1> DEFINE price == i.price
           id == i.pivot.id
           trades == m.daily_trades + 1
           e == [m EXCEPT !.entry_price = price, !.target_price = target,
                          !.entry_pivot_id = id, !.entry_direction = side,
                          !.current_open_qty = qty, !.daily_trades = trades]
<1>1. Entered(m, i, side, target, qty) = e
  BY DEF Entered
<1> HIDE DEF price, id, trades
<1>2. [e EXCEPT !.state = state, !.stop_structural = stop,
                !.stop_catastrophic = floor].daily_trades = trades
  BY DEF Machines
<1> QED
  BY <1>1, <1>2 DEF trades

LEMMA OpenedTrades ==
    ASSUME NEW m \in Machines, NEW i \in TickInputs
    PROVE  /\ OpenedLong(m, i).daily_trades = m.daily_trades + 1
           /\ OpenedShort(m, i).daily_trades = m.daily_trades + 1
<1>1. OpenedLong(m, i).daily_trades = Touched(m, i).daily_trades + 1
  BY TouchedType, EnteredTrades DEF OpenedLong
<1>2. OpenedShort(m, i).daily_trades = Drifted(m, i).daily_trades + 1
  BY DriftedType, EnteredTrades DEF OpenedShort
<1> QED
  BY <1>1, <1>2, DriftedTrades

LEMMA ExitTrades ==
    ASSUME NEW m \in Machines, NEW i \in TickInputs
    PROVE  \A o \in {StoppedLong(m, i), TookProfit(m, i), Covered(m, i)} :
              o.daily_trades = m.daily_trades
<1> DEFINE stopped == Flat(m, "LOCKDOWN")
           flat == Flat(m, "IDLE")
<1>1. stopped \in Machines /\ flat \in Machines
  BY FlatType, Members
<1>2. stopped.daily_trades = m.daily_trades /\ flat.daily_trades = m.daily_trades
  BY DEF Flat, Machines
<1>3. StoppedLong(m, i) =
        [stopped EXCEPT !.daily_pnl = @ + LongNet(m, i.price),
                        !.daily_stop_count = @ + 1, !.traded_pivot_ids = Marked(m)]
  BY DEF StoppedLong
<1>4. TookProfit(m, i) =
        [flat EXCEPT !.daily_pnl = @ + LongNet(m, i.price), !.target_price = 0,
                     !.traded_pivot_ids = Marked(m)]
  BY DEF TookProfit
<1>5. Covered(m, i) =
        [flat EXCEPT !.daily_pnl = @ + ShortNet(m, i.price), !.target_price = 0,
                     !.traded_pivot_ids = Marked(m)]
  BY DEF Covered
<1> HIDE DEF stopped, flat
<1>6. StoppedLong(m, i).daily_trades = m.daily_trades
  BY <1>1, <1>2, <1>3 DEF Machines
<1>7. TookProfit(m, i).daily_trades = m.daily_trades
  BY <1>1, <1>2, <1>4 DEF Machines
<1>8. Covered(m, i).daily_trades = m.daily_trades
  BY <1>1, <1>2, <1>5 DEF Machines
<1> QED
  BY <1>6, <1>7, <1>8

(* The state and the count the machine has today; a machine of another day *)
(* begins anew.                                                            *)
StateToday == IF machine.trade_date = today THEN machine.state ELSE "IDLE"
TradesToday == IF machine.trade_date = today THEN machine.daily_trades ELSE 0

LEMMA AtTickToday ==
    ASSUME TypeOK, NEW i \in TickInputs, i.date = today
    PROVE  LET m == AtTick(machine, i)
           IN  m.trade_date = today /\ m.state = StateToday /\ m.daily_trades = TradesToday
<1> DEFINE m == AtTick(machine, i)
           q == i.t0_qty
<1>1. machine \in Machines
  BY DEF TypeOK
<1>2. CASE machine.trade_date = today
  <2>1. m = [machine EXCEPT !.t0_qty = q]
    BY <1>2 DEF AtTick
  <2> HIDE DEF m, q
  <2>2. /\ m.trade_date = machine.trade_date /\ m.state = machine.state
        /\ m.daily_trades = machine.daily_trades
    BY <1>1, <2>1 DEF Machines
  <2> QED
    BY <1>2, <2>2 DEF m, StateToday, TradesToday
<1>3. CASE machine.trade_date # today
  <2>1. m = Fresh(today, q)
    BY <1>3 DEF AtTick
  <2> HIDE DEF m, q
  <2>2. m.trade_date = today /\ m.state = "IDLE" /\ m.daily_trades = 0
    BY <2>1 DEF Fresh
  <2> QED
    BY <1>3, <2>2 DEF m, StateToday, TradesToday
<1> QED
  BY <1>2, <1>3

(* The fills of a tick, and what must have been for them to come about.    *)
Entry(fill, state) ==
    /\ signal' = fill /\ StateToday = "IDLE" /\ machine'.state = state
    /\ machine'.daily_trades = TradesToday + 1

Exit(fill, held, state) ==
    /\ signal' = fill /\ StateToday = held /\ machine'.state = state
    /\ machine'.daily_trades = TradesToday

TickEffect(i) ==
    /\ machine'.trade_date = today /\ today' = today
    /\ \/ Entry("BUY_LONG", "POSITION_LONG")
       \/ Entry("SELL_SHORT", "POSITION_SHORT") /\ i.direction \in {"SHORT_ONLY", "BOTH"}
       \/ Exit("STOP_LONG", "POSITION_LONG", "LOCKDOWN")
       \/ Exit("SELL_LONG", "POSITION_LONG", "IDLE")
       \/ Exit("BUY_SHORT", "POSITION_SHORT", "IDLE")
       \/ \E held \in OpenStates : Exit("RAISED", held, "IDLE") /\ i.pivot = NoPivot
       \/ \E held \in T0States : Exit("", held, held)
       \/ Exit("", "IDLE", "LOCKDOWN")

LEMMA TickEffects ==
    ASSUME TypeOK, NEW i \in TickInputs, i.date = today, Tick(i)
    PROVE  TickEffect(i)
<1> DEFINE m == AtTick(machine, i)
<1>1. m \in Machines
  BY AtTickType DEF TypeOK
<1>2. m.trade_date = today /\ m.state = StateToday /\ m.daily_trades = TradesToday
  BY AtTickToday
<1>3. StateToday \in T0States
  BY Members, MachineFields DEF TypeOK, StateToday
<1>4. CASE OpenLong(i)
  <2>1. CanOpenLong(m, i) /\ Opens(i, OpenedLong(m, i), "BUY_LONG")
    BY <1>4 DEF OpenLong
  <2>2. m.state = "IDLE"
    BY <2>1 DEF CanOpenLong, Permitted
  <2> HIDE DEF m
  <2>3. Entry("BUY_LONG", "POSITION_LONG") /\ machine'.trade_date = today /\ today' = today
    BY <1>1, <1>2, <2>1, <2>2, OpenedLongFields, OpenedTrades, OpenedDate DEF Opens, Entry
  <2> QED
    BY <2>3 DEF TickEffect
<1>5. CASE OpenShort(i)
  <2>1. CanOpenShort(m, i) /\ Opens(i, OpenedShort(m, i), "SELL_SHORT")
    BY <1>5 DEF OpenShort
  <2>2. m.state = "IDLE" /\ i.direction \in {"SHORT_ONLY", "BOTH"}
    BY <2>1 DEF CanOpenShort, Permitted
  <2> HIDE DEF m
  <2>3. Entry("SELL_SHORT", "POSITION_SHORT") /\ machine'.trade_date = today /\ today' = today
    BY <1>1, <1>2, <2>1, <2>2, OpenedShortFields, OpenedTrades, OpenedDate DEF Opens, Entry
  <2> QED
    BY <2>2, <2>3 DEF TickEffect
<1>6. ASSUME NEW after \in {StoppedLong(m, i), TookProfit(m, i), Covered(m, i)}, NEW fill,
             Closes(i, m, after, fill)
      PROVE  /\ machine'.trade_date = today /\ today' = today /\ signal' = fill
             /\ machine'.daily_trades = TradesToday
  BY <1>1, <1>2, <1>6, ExitDate, ExitTrades DEF Closes
<1>7. CASE StopLong(i)
  <2>1. m.state = "POSITION_LONG" /\ Closes(i, m, StoppedLong(m, i), "STOP_LONG")
    BY <1>7 DEF StopLong, CanStopLong
  <2>2. machine'.state = "LOCKDOWN"
    BY <1>1, <2>1, ExitFields DEF Closes
  <2> HIDE DEF m
  <2>3. Exit("STOP_LONG", "POSITION_LONG", "LOCKDOWN")
    BY <1>2, <1>6, <2>1, <2>2 DEF Exit
  <2> QED
    BY <1>6, <2>1, <2>3 DEF TickEffect
<1>8. CASE TakeProfit(i)
  <2> DEFINE fill == IF i.pivot = NoPivot THEN "RAISED" ELSE "SELL_LONG"
  <2>1. m.state = "POSITION_LONG" /\ Closes(i, m, TookProfit(m, i), fill)
    BY <1>8 DEF TakeProfit, CanTakeProfit
  <2>2. machine'.state = "IDLE"
    BY <1>1, <2>1, ExitFields DEF Closes
  <2>3. fill = "SELL_LONG" \/ (fill = "RAISED" /\ i.pivot = NoPivot)
    OBVIOUS
  <2> HIDE DEF m, fill
  <2>4. Exit(fill, "POSITION_LONG", "IDLE")
    BY <1>2, <1>6, <2>1, <2>2 DEF Exit
  <2>5. machine'.trade_date = today /\ today' = today
    BY <1>6, <2>1
  <2> QED
    BY <2>3, <2>4, <2>5 DEF TickEffect, OpenStates
<1>9. CASE CoverAtTarget(i)
  <2> DEFINE fill == IF i.pivot = NoPivot THEN "RAISED" ELSE "BUY_SHORT"
  <2>1. m.state = "POSITION_SHORT" /\ Closes(i, m, Covered(m, i), fill)
    BY <1>9 DEF CoverAtTarget, CanCoverAtTarget
  <2>2. machine'.state = "IDLE"
    BY <1>1, <2>1, ExitFields DEF Closes
  <2>3. fill = "BUY_SHORT" \/ (fill = "RAISED" /\ i.pivot = NoPivot)
    OBVIOUS
  <2> HIDE DEF m, fill
  <2>4. Exit(fill, "POSITION_SHORT", "IDLE")
    BY <1>2, <1>6, <2>1, <2>2 DEF Exit
  <2>5. machine'.trade_date = today /\ today' = today
    BY <1>6, <2>1
  <2> QED
    BY <2>3, <2>4, <2>5 DEF TickEffect, OpenStates
<1>10. CASE CoverEarly(i)
  <2>1. m.state = "POSITION_SHORT" /\ Closes(i, m, Covered(m, i), "BUY_SHORT")
    BY <1>10 DEF CoverEarly, CanCoverEarly
  <2>2. machine'.state = "IDLE"
    BY <1>1, <2>1, ExitFields DEF Closes
  <2> HIDE DEF m
  <2>3. Exit("BUY_SHORT", "POSITION_SHORT", "IDLE")
    BY <1>2, <1>6, <2>1, <2>2 DEF Exit
  <2> QED
    BY <1>6, <2>1, <2>3 DEF TickEffect
<1>11. ASSUME NEW after, Stays(i, after), after.trade_date = m.trade_date,
              after.daily_trades = m.daily_trades,
              after.state = m.state \/ (m.state = "IDLE" /\ after.state = "LOCKDOWN")
       PROVE  TickEffect(i)
  BY <1>2, <1>3, <1>11 DEF Stays, TickEffect, Exit
<1>12. CASE RiskLock(i)
  <2>1. m.state = "IDLE" /\ Stays(i, Locked(m))
    BY <1>12 DEF RiskLock
  <2> DEFINE after == Locked(m)
  <2>2. /\ after.state = "LOCKDOWN" /\ after.trade_date = m.trade_date
        /\ after.daily_trades = m.daily_trades
    BY <1>1 DEF Locked, Machines
  <2> HIDE DEF m, after
  <2> QED
    BY <1>11, <2>1, <2>2 DEF after
<1>13. CASE Watch(i)
  <2>1. PICK after \in {Drifted(m, i), m} : Stays(i, after)
    BY <1>13 DEF Watch
  <2>2. /\ after.trade_date = m.trade_date /\ after.state = m.state
        /\ after.daily_trades = m.daily_trades
    BY <1>1, <2>1, DriftedKeeps, DriftedFields, DriftedTrades
  <2> QED
    BY <1>11, <2>1, <2>2
<1>14. CASE Hold(i)
  BY <1>11, <1>14 DEF Hold
<1> QED
  BY <1>4, <1>5, <1>7, <1>8, <1>9, <1>10, <1>12, <1>13, <1>14 DEF Tick

LEMMA EngineTicks ==
    ASSUME TypeOK, EngineTick
    PROVE  /\ TypeOK'
           /\ \E i \in Inputs : TickEffect(i)
           /\ engine' = CASE signal' = "RAISED" -> "idle"
                          [] signal' \in Fills -> "record"
                          [] OTHER -> "save"
<1>1. PICK i \in Inputs : Tick(i)
  BY DEF EngineTick
<1>2. i \in TickInputs /\ i.date = today
  <2>1. i \in TickInputs
    BY InputsType DEF TypeOK
  <2>2. PICK a \in Market : i = [a EXCEPT !.date = today]
    BY DEF Inputs
  <2>3. a \in TickInputs
    BY MarketAssumption
  <2> QED
    BY <2>1, <2>2, <2>3 DEF TickInputs
<1> QED
  BY <1>1, <1>2, TickType, TickEffects DEF EngineTick

-----------------------------------------------------------------------------
(* What holds whatever happens: the types; one entry for each key; no key  *)
(* of a day to come; and one sweep a day, as long as the process stays up, *)
(* because whoever is about to sell has not yet, and the symbol is marked  *)
(* as swept, or just about to be, once the sale is in the ledger.          *)

Dated == \A k \in Keys : k.date \in Nat /\ k.date <= today

Sweeps == {k \in Keys : k.fill = "SWEEP_LONG"}

SweepInv ==
    /\ sweeper # "idle" => ~swept
    /\ restarts = 0 =>
          /\ (\E k \in Sweeps : k.date = today) => swept \/ sweeper = "save"
          /\ \A j, k \in Sweeps : j.date = k.date => j = k

FillsKnown == signal # "SWEEP_LONG" /\ (engine = "record" => signal \in Fills)

EngineInv == EngineTypeOK /\ OneEach /\ Dated /\ FillsKnown /\ SweepInv

LEMMA DatesAreNatural == ASSUME TypeOK PROVE today \in Nat
  BY DatesAssumption DEF TypeOK

LEMMA EngineInits == EngineInit => EngineInv
<1> SUFFICES ASSUME EngineInit PROVE EngineInv
  OBVIOUS
<1>1. TypeOK
  <2>1. today \in Dates /\ machine \in Machines
    BY FreshType, T0QtyAssumption DEF EngineInit, Init
  <2> QED
    BY <2>1, SignalsMembers DEF EngineInit, Init, TypeOK, NoTrips
<1>2. Keys = {} /\ IsABag(ledger)
  BY DEF EngineInit, Keys, EmptyBag, SetToBag, BagToSet, IsABag
<1>3. EngineTypeOK
  <2>1. loaded = FALSE /\ enabled = TRUE /\ swept = FALSE
    BY DEF EngineInit
  <2>2. /\ cache = NoRow /\ engine = "idle" /\ sweeper = "idle"
        /\ copy = NoCopy /\ clock = "session" /\ restarts \in 0..MaxRestarts
    BY MaxRestartsAssumption DEF EngineInit
  <2> QED
    BY <1>1, <1>2, <2>1, <2>2 DEF EngineTypeOK
<1> QED
  BY <1>2, <1>3 DEF EngineInit, Init, EngineInv, OneEach, Dated, FillsKnown, SweepInv, Sweeps

(* A step that neither the ledger, the day nor the sweeper takes part in.  *)
LEMMA SameSweeps ==
    ASSUME EngineInv, UNCHANGED <<ledger, today, sweeper, swept, restarts>>
    PROVE  OneEach' /\ Dated' /\ SweepInv'
<1>1. OneEach' /\ Keys' = Keys
  BY SameLedger DEF EngineInv
<1>2. Sweeps' = Sweeps
  BY <1>1 DEF Sweeps
<1> QED
  BY <1>1, <1>2 DEF EngineInv, Dated, SweepInv

LEMMA EngineSteps ==
    ASSUME EngineInv,
           StartRound \/ LoadMachine \/ EngineTick \/ NoPrice \/ EngineSave
    PROVE  EngineInv'
<1>1. EngineTypeOK /\ TypeOK /\ FillsKnown
  BY DEF EngineInv, EngineTypeOK
<1>2. OneEach' /\ Dated' /\ SweepInv'
  <2>1. today' = today
    BY <1>1, EngineTicks
    DEF StartRound, LoadMachine, NoPrice, EngineSave, vars, TickEffect
  <2> QED
    BY <2>1, SameSweeps DEF StartRound, LoadMachine, EngineTick, NoPrice, EngineSave
<1>3. IsABag(ledger')
  BY <1>2 DEF OneEach
<1>4. CASE StartRound \/ NoPrice
  <2>1. TypeOK' /\ EngineTypeOK'
    BY <1>1, <1>3, <1>4 DEF StartRound, NoPrice, vars, TypeOK, EngineTypeOK
  <2>2. FillsKnown'
    BY <1>1, <1>4 DEF StartRound, NoPrice, vars, FillsKnown
  <2> QED
    BY <1>2, <2>1, <2>2 DEF EngineInv
<1>5. CASE LoadMachine
  <2>1. machine' \in Machines
    BY <1>1, <1>5, FreshType, T0QtyAssumption DEF LoadMachine, EngineTypeOK, TypeOK
  <2>2. TypeOK'
    BY <1>1, <1>5, <2>1 DEF LoadMachine, TypeOK
  <2>3. EngineTypeOK'
    BY <1>1, <1>3, <1>5, <2>2 DEF LoadMachine, EngineTypeOK
  <2>4. FillsKnown'
    BY <1>1, <1>5 DEF LoadMachine, FillsKnown
  <2> QED
    BY <1>2, <2>3, <2>4 DEF EngineInv
<1>6. CASE EngineTick
  <2>1. TypeOK' /\ engine' \in {"idle", "record", "save"} /\ signal' # "SWEEP_LONG"
        /\ (engine' = "record" => signal' \in Fills)
    BY <1>1, <1>6, EngineTicks DEF TickEffect, Entry, Exit
  <2>2. EngineTypeOK'
    BY <1>1, <1>3, <1>6, <2>1 DEF EngineTick, EngineTypeOK
  <2> QED
    BY <1>2, <2>1, <2>2 DEF EngineInv, FillsKnown
<1>7. CASE EngineSave
  <2>1. TypeOK' /\ FillsKnown'
    BY <1>1, <1>7 DEF EngineSave, vars, TypeOK, FillsKnown
  <2>2. cache' = NoRow \/ cache' \in [state : T0States, json : Machines]
    BY <1>1, <1>7, MachineFields DEF EngineSave, Save, Row, EngineTypeOK, TypeOK
  <2>3. EngineTypeOK'
    BY <1>1, <1>3, <1>7, <2>1, <2>2 DEF EngineSave, EngineTypeOK
  <2> QED
    BY <1>2, <2>1, <2>3 DEF EngineInv
<1> QED
  BY <1>4, <1>5, <1>6, <1>7

LEMMA EngineRecords == ASSUME EngineInv, EngineRecord PROVE EngineInv'
<1> DEFINE k == Key(today, signal, machine.daily_trades)
<1>1. /\ EngineTypeOK /\ TypeOK /\ FillsKnown /\ OneEach /\ Record(k)
      /\ UNCHANGED <<machine, signal, today, round_trips, loaded, enabled, cache, sweeper, copy,
                     swept, clock, restarts>>
      /\ engine' = "save"
  BY DEF EngineInv, EngineTypeOK, EngineRecord, vars
<1>2. k.date = today /\ k.fill # "SWEEP_LONG"
  BY <1>1 DEF Key, FillsKnown
<1> HIDE DEF k
<1>3. OneEach' /\ (Keys' = Keys \cup {k} \/ Keys' = Keys)
  BY <1>1, RecordAdds
<1>4. Sweeps' = Sweeps
  BY <1>2, <1>3 DEF Sweeps
<1>5. Dated'
  BY <1>1, <1>2, <1>3, DatesAreNatural DEF EngineInv, Dated
<1>6. SweepInv'
  BY <1>1, <1>4 DEF EngineInv, SweepInv
<1>7. TypeOK' /\ FillsKnown'
  BY <1>1 DEF TypeOK, FillsKnown
<1>8. EngineTypeOK'
  BY <1>1, <1>3, <1>7 DEF EngineTypeOK, OneEach
<1> QED
  BY <1>3, <1>5, <1>6, <1>7, <1>8 DEF EngineInv

LEMMA SweepReads == ASSUME EngineInv, SweepRead PROVE EngineInv'
<1>1. /\ EngineTypeOK /\ TypeOK /\ ~swept
      /\ cache.state \in {"POSITION_LONG", "POSITION_SHORT"}
      /\ copy' = cache.json /\ sweeper = "idle" /\ sweeper' = "row"
      /\ UNCHANGED <<machine, signal, today, round_trips, loaded, enabled, cache, ledger, engine,
                     swept, clock, restarts>>
  BY DEF EngineInv, EngineTypeOK, SweepRead, vars
<1>2. copy' \in Machines
  <2>1. cache # NoRow
    <3>1. NoRow.state = ""
      BY DEF NoRow
    <3> QED
      BY <1>1, <3>1
  <2> QED
    BY <1>1, <2>1 DEF EngineTypeOK
<1>3. OneEach' /\ Keys' = Keys
  BY <1>1, SameLedger DEF EngineInv
<1>4. Dated' /\ SweepInv'
  BY <1>1, <1>3 DEF EngineInv, Dated, SweepInv, Sweeps
<1>5. TypeOK' /\ FillsKnown'
  BY <1>1 DEF EngineInv, TypeOK, FillsKnown
<1>6. EngineTypeOK'
  BY <1>1, <1>2, <1>5 DEF EngineTypeOK
<1> QED
  BY <1>3, <1>4, <1>5, <1>6 DEF EngineInv

LEMMA SweepCopies == ASSUME EngineInv, SweepCopy PROVE EngineInv'
<1>1. /\ EngineTypeOK /\ TypeOK /\ sweeper = "row"
      /\ UNCHANGED <<machine, signal, today, round_trips, loaded, enabled, cache, ledger, engine,
                     swept, clock, restarts>>
  BY DEF EngineInv, EngineTypeOK, SweepCopy, vars
<1>2. copy \in Machines
  BY <1>1 DEF EngineTypeOK
<1>3. copy' \in Machines /\ sweeper' \in {"record", "save"}
  <2>1. \A i \in Market : i.price \in Nat
    BY MarketAssumption, InputFields, LotsAreNaturals
  <2> QED
    BY <1>2, <2>1, SweptLongType, ReduceLockedType DEF SweepCopy
<1>4. OneEach' /\ Keys' = Keys
  BY <1>1, SameLedger DEF EngineInv
<1>5. Dated' /\ SweepInv'
  BY <1>1, <1>3, <1>4 DEF EngineInv, Dated, SweepInv, Sweeps
<1>6. TypeOK' /\ FillsKnown'
  BY <1>1 DEF EngineInv, TypeOK, FillsKnown
<1>7. EngineTypeOK'
  BY <1>1, <1>3, <1>6 DEF EngineTypeOK
<1> QED
  BY <1>4, <1>5, <1>6, <1>7 DEF EngineInv

LEMMA SweepRecords == ASSUME EngineInv, SweepRecord PROVE EngineInv'
<1> DEFINE k == Key(today, "SWEEP_LONG", copy.daily_trades)
<1>1. /\ EngineTypeOK /\ TypeOK /\ FillsKnown /\ OneEach /\ Record(k)
      /\ UNCHANGED <<machine, signal, today, round_trips, loaded, enabled, cache, engine, copy,
                     swept, clock, restarts>>
      /\ sweeper = "record" /\ sweeper' = "save"
  BY DEF EngineInv, EngineTypeOK, SweepRecord, vars
<1>2. k.date = today
  BY DEF Key
<1> HIDE DEF k
<1>3. OneEach' /\ (Keys' = Keys \cup {k} \/ Keys' = Keys)
  BY <1>1, RecordAdds
<1>4. Sweeps' \subseteq Sweeps \cup {k}
  BY <1>3 DEF Sweeps
<1>5. Dated'
  BY <1>1, <1>2, <1>3, DatesAreNatural DEF EngineInv, Dated
<1>6. SweepInv'
  <2>1. ~swept /\ (restarts = 0 => \A j \in Sweeps : j.date # today)
    BY <1>1 DEF EngineInv, SweepInv
  <2>2. restarts = 0 => \A i, j \in Sweeps : i.date = j.date => i = j
    BY DEF EngineInv, SweepInv
  <2> QED
    BY <1>1, <1>2, <1>4, <2>1, <2>2 DEF SweepInv
<1>7. TypeOK' /\ FillsKnown'
  BY <1>1 DEF TypeOK, FillsKnown
<1>8. EngineTypeOK'
  BY <1>1, <1>3, <1>7 DEF EngineTypeOK, OneEach
<1> QED
  BY <1>3, <1>5, <1>6, <1>7, <1>8 DEF EngineInv

LEMMA SweepEnds == ASSUME EngineInv, SweepSkip \/ SweepSave PROVE EngineInv'
<1>1. /\ EngineTypeOK /\ TypeOK /\ sweeper' = "idle" /\ copy' = NoCopy /\ sweeper \in {"row", "save"}
      /\ UNCHANGED <<machine, signal, today, round_trips, loaded, enabled, ledger, engine,
                     clock, restarts>>
      /\ swept' \in BOOLEAN /\ (sweeper = "save" => swept')
  BY DEF EngineInv, EngineTypeOK, SweepSkip, SweepSave, vars
<1>2. cache' = NoRow \/ cache' \in [state : T0States, json : Machines]
  <2>1. CASE cache' = cache
    BY <1>1, <2>1 DEF EngineTypeOK
  <2>2. CASE sweeper = "save" /\ cache' = Row(copy)
    BY <1>1, <2>2, MachineFields DEF EngineTypeOK, Row
  <2> QED
    BY <1>1, <2>1, <2>2 DEF SweepSkip, SweepSave, Save
<1>3. OneEach' /\ Keys' = Keys
  BY <1>1, SameLedger DEF EngineInv
<1>4. Dated'
  BY <1>1, <1>3 DEF EngineInv, Dated
<1>5. SweepInv'
  <2>1. Sweeps' = Sweeps
    BY <1>3 DEF Sweeps
  <2>2. restarts = 0 => /\ (\E k \in Sweeps : k.date = today) => sweeper = "save"
                        /\ \A i, j \in Sweeps : i.date = j.date => i = j
    BY <1>1 DEF EngineInv, SweepInv
  <2> QED
    BY <1>1, <2>1, <2>2 DEF SweepInv
<1>6. TypeOK' /\ FillsKnown'
  BY <1>1 DEF EngineInv, TypeOK, FillsKnown
<1>7. EngineTypeOK'
  BY <1>1, <1>2, <1>6 DEF EngineTypeOK
<1> QED
  BY <1>3, <1>4, <1>5, <1>6, <1>7 DEF EngineInv

LEMMA EndpointSteps == ASSUME EngineInv, Disable \/ Enable \/ ClockAdvances PROVE EngineInv'
<1>1. /\ EngineTypeOK /\ TypeOK
      /\ UNCHANGED <<machine, signal, today, round_trips, loaded, ledger, engine, sweeper, copy,
                     swept, restarts>>
      /\ enabled' \in BOOLEAN /\ clock' \in {"session", "sweep", "closed"}
  BY DEF EngineInv, EngineTypeOK, Disable, Enable, ClockAdvances, vars
<1>2. cache' = NoRow \/ cache' \in [state : T0States, json : Machines]
  <2>1. CASE cache' = cache
    BY <1>1, <2>1 DEF EngineTypeOK
  <2>2. CASE cache # NoRow /\ cache' = [cache EXCEPT !.state = "IDLE"]
    BY <1>1, <2>2, Members DEF EngineTypeOK
  <2> QED
    BY <2>1, <2>2 DEF Disable, Enable, ClockAdvances
<1>3. OneEach' /\ Dated' /\ SweepInv'
  BY <1>1, SameSweeps
<1>4. TypeOK' /\ FillsKnown'
  BY <1>1 DEF EngineInv, TypeOK, FillsKnown
<1>5. EngineTypeOK'
  BY <1>1, <1>2, <1>4 DEF EngineTypeOK
<1> QED
  BY <1>3, <1>4, <1>5 DEF EngineInv

LEMMA CrashKeeps == ASSUME EngineInv, Crash PROVE EngineInv'
<1>1. /\ EngineTypeOK /\ TypeOK /\ restarts < MaxRestarts /\ restarts' = restarts + 1
      /\ loaded' = FALSE /\ swept' = FALSE /\ engine' = "idle" /\ sweeper' = "idle"
      /\ copy' = NoCopy /\ machine' = Fresh(machine.trade_date, T0Qty) /\ signal' = ""
      /\ UNCHANGED <<today, round_trips, enabled, cache, ledger, clock>>
  BY DEF EngineInv, EngineTypeOK, Crash
<1>2. restarts' \in 0..MaxRestarts /\ restarts' # 0
  <2>1. restarts \in 0..MaxRestarts
    BY <1>1 DEF EngineTypeOK
  <2>2. restarts < MaxRestarts /\ restarts' = restarts + 1
    BY <1>1
  <2> QED
    BY <2>1, <2>2, MaxRestartsAssumption
<1>3. OneEach' /\ Keys' = Keys
  BY <1>1, SameLedger DEF EngineInv
<1>4. Dated' /\ SweepInv' /\ FillsKnown'
  BY <1>1, <1>2, <1>3 DEF EngineInv, Dated, SweepInv, FillsKnown
<1>5. TypeOK'
  <2>1. machine' \in Machines
    BY <1>1, FreshType, MachineFields, T0QtyAssumption DEF TypeOK
  <2> QED
    BY <1>1, <2>1, SignalsMembers DEF TypeOK
<1>6. EngineTypeOK'
  BY <1>1, <1>2, <1>5 DEF EngineTypeOK
<1> QED
  BY <1>3, <1>4, <1>5, <1>6 DEF EngineInv

LEMMA MidnightKeeps == ASSUME EngineInv, Midnight PROVE EngineInv'
<1>1. /\ EngineTypeOK /\ TypeOK /\ sweeper = "idle" /\ today' \in Dates /\ today' > today
      /\ clock' = "session" /\ swept' = FALSE
      /\ UNCHANGED <<machine, signal, round_trips, loaded, enabled, cache, ledger, engine, sweeper,
                     copy, restarts>>
  BY DEF EngineInv, EngineTypeOK, Midnight, NewDay
<1>2. today \in Nat /\ today' \in Nat
  BY <1>1, DatesAssumption, DatesAreNatural
<1>3. OneEach' /\ Keys' = Keys
  BY <1>1, SameLedger DEF EngineInv
<1>4. Dated' /\ \A k \in Keys : k.date # today'
  BY <1>1, <1>2, <1>3 DEF EngineInv, Dated
<1>5. SweepInv'
  <2>1. Sweeps' = Sweeps /\ \A k \in Sweeps : k.date # today'
    BY <1>3, <1>4 DEF Sweeps
  <2>2. restarts = 0 => \A i, j \in Sweeps : i.date = j.date => i = j
    BY DEF EngineInv, SweepInv
  <2> QED
    BY <1>1, <2>1, <2>2 DEF SweepInv
<1>6. TypeOK' /\ FillsKnown'
  BY <1>1 DEF EngineInv, TypeOK, FillsKnown
<1>7. EngineTypeOK'
  BY <1>1, <1>6 DEF EngineTypeOK
<1> QED
  BY <1>3, <1>4, <1>5, <1>6, <1>7 DEF EngineInv

LEMMA EngineNexts == EngineInv /\ [EngineNext]_allVars => EngineInv'
<1> SUFFICES ASSUME EngineInv, [EngineNext]_allVars PROVE EngineInv'
  OBVIOUS
<1>1. CASE UNCHANGED allVars
  <2>1. OneEach' /\ Dated' /\ SweepInv'
    BY <1>1, SameSweeps DEF allVars, vars, engineVars
  <2>2. TypeOK' /\ FillsKnown'
    BY <1>1 DEF EngineInv, EngineTypeOK, TypeOK, FillsKnown, allVars, vars, engineVars
  <2>3. EngineTypeOK'
    BY <1>1, <2>1, <2>2 DEF EngineInv, EngineTypeOK, allVars, vars, engineVars
  <2> QED
    BY <2>1, <2>2, <2>3 DEF EngineInv
<1> QED
  BY <1>1, EngineSteps, EngineRecords, SweepReads, SweepCopies, SweepRecords, SweepEnds,
     EndpointSteps, CrashKeeps, MidnightKeeps DEF EngineNext

LEMMA EngineAlways == EngineSpec => []EngineInv
  BY EngineInits, EngineNexts, PTL DEF EngineSpec

(* The engine, the sweeper and the row stay of their types.                *)
THEOREM EngineTypeCorrect == EngineSpec => []EngineTypeOK
<1>1. EngineInv => EngineTypeOK
  BY DEF EngineInv
<1> QED
  BY <1>1, EngineAlways, PTL

(* _sweep_all: as long as the process stays up the sweeper sells one long  *)
(* a day at most, whatever the engine does to the row meanwhile, whichever *)
(* write fails and whoever disables the symbol (SweptOnce).                *)
THEOREM DaysAreSweptOnce == EngineSpec => []SweptOnce
<1>1. EngineInv => SweptOnce
  <2> SUFFICES ASSUME EngineInv, restarts = 0, NEW d \in Dates, NEW s \in Trades,
                      NEW t \in Trades,
                      Copies(d, "SWEEP_LONG", s) + Copies(d, "SWEEP_LONG", t) = 2
               PROVE  s = t
    BY DEF SweptOnce
  <2> DEFINE j == Key(d, "SWEEP_LONG", s)
             k == Key(d, "SWEEP_LONG", t)
  <2>1. CopiesOf(j) \in {0, 1} /\ CopiesOf(k) \in {0, 1}
    BY CopiesOfKey DEF EngineInv
  <2>2. CopiesOf(j) + CopiesOf(k) = 2
    BY DEF Copies
  <2>3. j.fill = "SWEEP_LONG" /\ j.date = d /\ j.trades = s
        /\ k.fill = "SWEEP_LONG" /\ k.date = d /\ k.trades = t
    BY DEF Key
  <2> HIDE DEF j, k
  <2>4. CopiesOf(j) > 0 /\ CopiesOf(k) > 0
    BY <2>1, <2>2
  <2>5. j \in Sweeps /\ k \in Sweeps
    BY <2>3, <2>4, CopiesOfKey DEF EngineInv, Sweeps
  <2> QED
    BY <2>3, <2>5 DEF EngineInv, SweepInv
<1> QED
  BY <1>1, EngineAlways, PTL

-----------------------------------------------------------------------------
(* The day in the ledger, while the process stays up and no fill is caught *)
(* between its tick and its record by midnight.                            *)

StaysUp == MaxRestarts = 0
NoRace == "midnight_race" \notin Events

(* The engine's own fills.                                                 *)
Booked == {k \in Keys : k.fill # "SWEEP_LONG"}
EntryFills == {"BUY_LONG", "SELL_SHORT"}
Closing == {"SELL_LONG", "STOP_LONG"}

(* What has been booked today was booked by the machine in memory, under a *)
(* count that it has reached; a fill on its way to the ledger is its last, *)
(* and a stop that is booked is what it stands still on.                   *)
OfToday(k) == machine.trade_date = today /\ k.trades \in Nat /\ k.trades <= machine.daily_trades

DayInv ==
    /\ ~loaded => Booked = {} /\ engine \in {"idle", "row"}
    /\ \A k \in Booked : k.date = today => OfToday(k)
    /\ engine = "record" =>
          /\ machine.trade_date = today
          /\ signal = "STOP_LONG" => machine.state = "LOCKDOWN"
          /\ signal = "BUY_LONG" => machine.state = "POSITION_LONG"
          /\ signal = "SELL_SHORT" => machine.state = "POSITION_SHORT"
    /\ \A k \in Booked :
          k.fill = "STOP_LONG" /\ k.date = today =>
             machine.state = "LOCKDOWN" /\ k.trades = machine.daily_trades
    /\ \A j, k \in Booked :
          j.fill = "STOP_LONG" /\ k.fill \in EntryFills /\ j.date = k.date => k.trades <= j.trades

(* A step that concerns neither the machine nor its fills.                 *)
QuietStep ==
    /\ UNCHANGED <<machine, signal, today, loaded>> /\ Booked' = Booked
    /\ engine' = engine \/ (engine # "record" /\ engine' \in {"idle", "row"})

LEMMA EngineShapes ==
    ASSUME EngineInv, [EngineNext]_allVars, StaysUp
    PROVE  QuietStep \/ LoadMachine \/ EngineTick \/ EngineRecord \/ Midnight
<1>1. UNCHANGED ledger => Booked' = Booked
  BY SameLedger DEF EngineInv, Booked
<1>2. ASSUME SweepRecord PROVE Booked' = Booked
  <2> DEFINE k == Key(today, "SWEEP_LONG", copy.daily_trades)
  <2>1. Record(k) /\ k.fill = "SWEEP_LONG"
    BY <1>2 DEF SweepRecord, Key
  <2> HIDE DEF k
  <2>2. Keys' = Keys \cup {k} \/ Keys' = Keys
    BY <2>1, RecordAdds DEF EngineInv
  <2> QED
    BY <2>1, <2>2 DEF Booked
<1>3. ~Crash
  <2>1. restarts \in 0..MaxRestarts
    BY DEF EngineInv, EngineTypeOK
  <2> QED
    BY <2>1, MaxRestartsAssumption DEF StaysUp, Crash
<1>4. CASE StartRound \/ NoPrice \/ EngineSave
  BY <1>1, <1>4 DEF StartRound, NoPrice, EngineSave, vars, QuietStep
<1>5. CASE SweepRead \/ SweepCopy \/ SweepSkip \/ SweepSave
  BY <1>1, <1>5 DEF SweepRead, SweepCopy, SweepSkip, SweepSave, vars, QuietStep
<1>6. CASE SweepRecord
  BY <1>2, <1>6 DEF SweepRecord, vars, QuietStep
<1>7. CASE Disable \/ Enable \/ ClockAdvances
  BY <1>1, <1>7 DEF Disable, Enable, ClockAdvances, vars, QuietStep
<1>8. CASE UNCHANGED allVars
  BY <1>1, <1>8 DEF allVars, vars, engineVars, QuietStep
<1> QED
  BY <1>3, <1>4, <1>5, <1>6, <1>7, <1>8 DEF EngineNext

(* A tick finds today's fills in the machine it starts from.               *)
LEMMA TickBooks ==
    ASSUME EngineInv, DayInv, EngineTick
    PROVE  /\ loaded /\ loaded' /\ engine # "record" /\ Booked' = Booked
           /\ TypeOK /\ TypeOK' /\ TradesToday \in Nat
           /\ \A k \in Booked : k.date = today =>
                 /\ k.trades \in Nat /\ k.trades <= TradesToday
                 /\ TradesToday = machine.daily_trades /\ StateToday = machine.state
           /\ \E i \in Inputs : TickEffect(i)
           /\ engine' = "record" => signal' \in Fills
<1>1. TypeOK /\ TypeOK' /\ \E i \in Inputs : TickEffect(i)
  BY EngineTicks DEF EngineInv, EngineTypeOK
<1>2. engine' = "record" => signal' \in Fills
  BY <1>1, EngineTicks
<1>3. machine.daily_trades \in Nat
  BY <1>1, MachineFields DEF TypeOK
<1>4. Booked' = Booked /\ loaded /\ loaded' /\ engine = "row"
  BY SameLedger DEF EngineTick, EngineInv, Booked
<1> QED
  BY <1>1, <1>2, <1>3, <1>4 DEF DayInv, OfToday, TradesToday, StateToday

LEMMA DayTick ==
    ASSUME EngineInv, DayInv, EngineTick
    PROVE  DayInv'
<1>1. PICK i \in Inputs : TickEffect(i)
  BY TickBooks
<1>2. /\ loaded' /\ Booked' = Booked /\ TradesToday \in Nat
      /\ \A k \in Booked : k.date = today =>
            /\ k.trades \in Nat /\ k.trades <= TradesToday
            /\ TradesToday = machine.daily_trades /\ StateToday = machine.state
      /\ machine'.trade_date = today /\ today' = today
  BY <1>1, TickBooks DEF TickEffect
<1>3. machine'.daily_trades \in {TradesToday, TradesToday + 1}
  BY <1>1 DEF TickEffect, Entry, Exit
<1>4. StateToday = "LOCKDOWN" => machine'.state = "LOCKDOWN" /\ machine'.daily_trades = TradesToday
  BY <1>1 DEF TickEffect, Entry, Exit, OpenStates
<1>5. /\ signal' = "STOP_LONG" => machine'.state = "LOCKDOWN"
      /\ signal' = "BUY_LONG" => machine'.state = "POSITION_LONG"
      /\ signal' = "SELL_SHORT" => machine'.state = "POSITION_SHORT"
  BY <1>1 DEF TickEffect, Entry, Exit
<1>6. \A k \in Booked' : k.date = today' => OfToday(k)'
  BY <1>2, <1>3 DEF OfToday
<1>7. \A k \in Booked' :
         k.fill = "STOP_LONG" /\ k.date = today' =>
            machine'.state = "LOCKDOWN" /\ k.trades = machine'.daily_trades
  BY <1>2, <1>4 DEF DayInv
<1> QED
  BY <1>2, <1>5, <1>6, <1>7 DEF DayInv

LEMMA DayRecord ==
    ASSUME EngineInv, DayInv, EngineRecord
    PROVE  DayInv'
<1> DEFINE new == Key(today, signal, machine.daily_trades)
<1>1. /\ OneEach /\ Record(new) /\ engine = "record" /\ engine' = "save" /\ loaded
      /\ UNCHANGED <<machine, signal, today, loaded>> /\ machine.daily_trades \in Nat
  BY MachineFields DEF EngineInv, EngineTypeOK, TypeOK, EngineRecord, vars, DayInv
<1>2. new.date = today /\ new.fill = signal /\ new.trades = machine.daily_trades
  BY DEF Key
<1> HIDE DEF new
<1>3. Booked' = Booked \cup {new} \/ Booked' = Booked
  BY <1>1, <1>2, RecordAdds DEF Booked, EngineInv, FillsKnown
<1>4. \A k \in Booked' : k.date = today => OfToday(k)
  BY <1>1, <1>2, <1>3 DEF DayInv, OfToday
<1>5. \A k \in Booked' :
         k.fill = "STOP_LONG" /\ k.date = today =>
            machine.state = "LOCKDOWN" /\ k.trades = machine.daily_trades
  BY <1>1, <1>2, <1>3 DEF DayInv
<1>6. \A j, k \in Booked' :
         j.fill = "STOP_LONG" /\ k.fill \in EntryFills /\ j.date = k.date => k.trades <= j.trades
  <2> SUFFICES ASSUME NEW j \in Booked', NEW k \in Booked',
                      j.fill = "STOP_LONG", k.fill \in EntryFills, j.date = k.date
               PROVE  k.trades <= j.trades
    OBVIOUS
  <2>1. CASE j \in Booked /\ k \in Booked
    BY <2>1 DEF DayInv
  <2>2. CASE j = new /\ k \in Booked
    BY <1>2, <2>2 DEF DayInv, OfToday
  <2>3. CASE k = new
    <3>1. machine.state = "LOCKDOWN" /\ machine.state \in {"POSITION_LONG", "POSITION_SHORT"}
      BY <1>1, <1>2, <1>5, <2>3 DEF DayInv, EntryFills
    <3> QED
      BY <3>1
  <2> QED
    BY <1>3, <2>1, <2>2, <2>3
<1> QED
  BY <1>1, <1>4, <1>5, <1>6 DEF DayInv, OfToday

LEMMA DayQuiet ==
    ASSUME DayInv, QuietStep
    PROVE  DayInv'
  BY DEF DayInv, QuietStep, OfToday

LEMMA DayLoad ==
    ASSUME EngineInv, DayInv, LoadMachine
    PROVE  DayInv'
<1>1. Booked' = Booked
  BY SameLedger DEF LoadMachine, EngineInv, Booked
<1> QED
  BY <1>1 DEF LoadMachine, DayInv

(* At midnight everything booked is of another day.                        *)
LEMMA MidnightBooks ==
    ASSUME EngineInv, Midnight, NoRace
    PROVE  /\ Booked' = Booked /\ \A k \in Booked : k.date # today'
           /\ engine' = engine /\ engine # "record" /\ UNCHANGED <<machine, signal, loaded>>
<1>1. today \in Nat /\ today' \in Nat /\ today' > today
  BY DatesAreNatural, DatesAssumption DEF EngineInv, EngineTypeOK, Midnight, NewDay
<1>2. Booked' = Booked
  BY SameLedger DEF Midnight, EngineInv, Booked
<1>3. \A k \in Booked : k.date # today'
  BY <1>1 DEF EngineInv, Dated, Booked
<1> QED
  BY <1>2, <1>3 DEF Midnight, NewDay, NoRace

LEMMA DayMidnight ==
    ASSUME EngineInv, DayInv, Midnight, NoRace
    PROVE  DayInv'
  BY MidnightBooks DEF DayInv

LEMMA DayAlways == ASSUME StaysUp, NoRace PROVE EngineSpec => []DayInv
<1>1. EngineInit => DayInv
  <2>1. EngineInit => Booked = {}
    BY DEF EngineInit, Booked, Keys, EmptyBag, SetToBag, BagToSet
  <2> QED
    BY <2>1 DEF EngineInit, DayInv
<1>2. EngineInv /\ DayInv /\ [EngineNext]_allVars => DayInv'
  BY EngineShapes, DayQuiet, DayLoad, DayTick, DayRecord, DayMidnight
<1> QED
  BY <1>1, <1>2, EngineAlways, PTL DEF EngineSpec

(* "LOCKDOWN: no opening for the rest of the day": once a stop is in the   *)
(* ledger, no position of a later trade is opened on its day, whatever the *)
(* sweeper writes over the row, whichever writes fail and whoever toggles  *)
(* the symbol, as long as the object stays in memory (NothingAfterStop).   *)
THEOREM NothingOpensAfterStop == ASSUME StaysUp, NoRace PROVE EngineSpec => []NothingAfterStop
<1>1. EngineInv /\ DayInv => NothingAfterStop
  <2> SUFFICES ASSUME EngineInv, DayInv, NEW d \in Dates, NEW s \in Trades, NEW t \in Trades,
                      s < t, Copies(d, "STOP_LONG", s) > 0, NEW fill \in EntryFills
               PROVE  Copies(d, fill, t) = 0
    BY DEF NothingAfterStop, EntryFills
  <2> DEFINE j == Key(d, "STOP_LONG", s)
             k == Key(d, fill, t)
  <2>1. /\ j.fill = "STOP_LONG" /\ j.date = d /\ j.trades = s
        /\ k.fill = fill /\ k.date = d /\ k.trades = t /\ fill # "SWEEP_LONG"
    BY DEF Key, EntryFills
  <2>2. CopiesOf(j) > 0 /\ Copies(d, fill, t) = CopiesOf(k)
    BY DEF Copies
  <2> HIDE DEF j, k
  <2>3. j \in Booked
    BY <2>1, <2>2, CopiesOfKey DEF EngineInv, Booked
  <2>4. k \notin Booked
    <3>1. s \in Nat /\ t \in Nat
      BY MaxTradesAssumption DEF Trades
    <3> QED
      BY <2>1, <2>3, <3>1 DEF DayInv
  <2>5. CopiesOf(k) = 0
    BY <2>1, <2>4, CopiesOfKey DEF EngineInv, Booked
  <2> QED
    BY <2>2, <2>5
<1> QED
  BY <1>1, EngineAlways, DayAlways, PTL

-----------------------------------------------------------------------------
(* The engine alone: no sweeper writes to the ledger.                      *)

NoSweeper == "sweep" \notin Events
NothingSwept == sweeper = "idle" /\ Sweeps = {}

LEMMA NothingIsSwept == ASSUME NoSweeper PROVE EngineSpec => []NothingSwept
<1>1. EngineInit => NothingSwept
  BY DEF EngineInit, NothingSwept, Sweeps, Keys, EmptyBag, SetToBag, BagToSet
<1>2. EngineInv /\ NothingSwept /\ [EngineNext]_allVars => NothingSwept'
  <2> SUFFICES ASSUME EngineInv, NothingSwept, [EngineNext]_allVars PROVE NothingSwept'
    OBVIOUS
  <2>1. UNCHANGED ledger => Sweeps' = Sweeps
    BY SameLedger DEF EngineInv, Sweeps
  <2>2. CASE EngineRecord
    <3> DEFINE k == Key(today, signal, machine.daily_trades)
    <3>1. Record(k) /\ k.fill # "SWEEP_LONG" /\ sweeper' = sweeper
      BY <2>2 DEF EngineRecord, Key, EngineInv, FillsKnown
    <3> HIDE DEF k
    <3>2. Keys' = Keys \cup {k} \/ Keys' = Keys
      BY <3>1, RecordAdds DEF EngineInv
    <3> QED
      BY <3>1, <3>2 DEF NothingSwept, Sweeps
  <2>3. CASE StartRound \/ LoadMachine \/ EngineTick \/ NoPrice \/ EngineSave
    BY <2>1, <2>3 DEF StartRound, LoadMachine, EngineTick, NoPrice, EngineSave, NothingSwept
  <2>4. CASE SweepRead \/ SweepCopy \/ SweepSkip \/ SweepRecord \/ SweepSave
    BY <2>4 DEF SweepRead, SweepCopy, SweepSkip, SweepRecord, SweepSave, NothingSwept, NoSweeper
  <2>5. CASE Disable \/ Enable \/ Crash \/ ClockAdvances \/ Midnight
    BY <2>1, <2>5 DEF Disable, Enable, Crash, ClockAdvances, Midnight, NothingSwept
  <2>6. CASE UNCHANGED allVars
    BY <2>1, <2>6 DEF allVars, engineVars, NothingSwept
  <2> QED
    BY <2>2, <2>3, <2>4, <2>5, <2>6 DEF EngineNext
<1> QED
  BY <1>1, <1>2, EngineAlways, PTL DEF EngineSpec

(* A long is closed once: no booked fill closes the long that is held, nor *)
(* the one whose closing fill is on its way, and two that close the same   *)
(* long are the same.                                                      *)
NotYetClosed ==
    \A k \in Booked : k.fill \in Closing /\ k.date = today => k.trades # machine.daily_trades

CloseInv ==
    /\ machine.trade_date = today /\ machine.state = "POSITION_LONG" => NotYetClosed
    /\ engine = "record" /\ signal \in Closing => NotYetClosed /\ machine.state # "POSITION_LONG"
    /\ \A j, k \in Booked :
          /\ j.fill \in Closing /\ k.fill \in Closing
          /\ j.date = k.date /\ j.trades = k.trades
          => j = k

LEMMA CloseTick ==
    ASSUME EngineInv, DayInv, CloseInv, EngineTick
    PROVE  CloseInv'
<1>1. PICK i \in Inputs : TickEffect(i)
  BY TickBooks
<1>2. /\ Booked' = Booked /\ TradesToday \in Nat /\ engine # "record"
      /\ \A k \in Booked : k.date = today =>
            /\ k.trades \in Nat /\ k.trades <= TradesToday
            /\ TradesToday = machine.daily_trades /\ StateToday = machine.state
      /\ machine'.trade_date = today /\ today' = today
  BY <1>1, TickBooks DEF TickEffect
<1>3. StateToday = "POSITION_LONG" =>
         \A k \in Booked : k.fill \in Closing /\ k.date = today => k.trades # TradesToday
  BY <1>2 DEF CloseInv, NotYetClosed, DayInv, OfToday
<1>4. machine'.state = "POSITION_LONG" => NotYetClosed'
  <2>1. machine'.state = "POSITION_LONG" =>
           \/ machine'.daily_trades = TradesToday + 1
           \/ machine'.daily_trades = TradesToday /\ StateToday = "POSITION_LONG"
    BY <1>1 DEF TickEffect, Entry, Exit, OpenStates
  <2> QED
    BY <1>2, <1>3, <2>1 DEF NotYetClosed
<1>5. signal' \in Closing => NotYetClosed' /\ machine'.state # "POSITION_LONG"
  <2>1. signal' \in Closing =>
           /\ machine'.daily_trades = TradesToday /\ StateToday = "POSITION_LONG"
           /\ machine'.state # "POSITION_LONG"
    BY <1>1 DEF TickEffect, Entry, Exit, OpenStates, Closing
  <2> QED
    BY <1>2, <1>3, <2>1 DEF NotYetClosed
<1> QED
  BY <1>2, <1>4, <1>5 DEF CloseInv

LEMMA CloseRecord ==
    ASSUME EngineInv, DayInv, CloseInv, EngineRecord
    PROVE  CloseInv'
<1> DEFINE new == Key(today, signal, machine.daily_trades)
<1>1. /\ OneEach /\ Record(new) /\ engine = "record" /\ engine' = "save"
      /\ UNCHANGED <<machine, signal, today>>
  BY DEF EngineInv, EngineRecord, vars
<1>2. new.date = today /\ new.fill = signal /\ new.trades = machine.daily_trades
  BY DEF Key
<1> HIDE DEF new
<1>3. Booked' = Booked \cup {new} \/ Booked' = Booked
  BY <1>1, <1>2, RecordAdds DEF Booked, EngineInv, FillsKnown
<1>4. machine.state = "POSITION_LONG" => signal \notin Closing
  BY <1>1 DEF CloseInv
<1>5. machine.trade_date = today /\ machine.state = "POSITION_LONG" => NotYetClosed'
  BY <1>1, <1>2, <1>3, <1>4 DEF CloseInv, NotYetClosed
<1>6. \A j, k \in Booked' :
         /\ j.fill \in Closing /\ k.fill \in Closing
         /\ j.date = k.date /\ j.trades = k.trades
         => j = k
  BY <1>1, <1>2, <1>3 DEF CloseInv, NotYetClosed
<1> QED
  BY <1>1, <1>5, <1>6 DEF CloseInv

LEMMA CloseAlways == ASSUME StaysUp, NoRace PROVE EngineSpec => []CloseInv
<1>1. EngineInit => CloseInv
  <2>1. EngineInit => Booked = {}
    BY DEF EngineInit, Booked, Keys, EmptyBag, SetToBag, BagToSet
  <2> QED
    BY <2>1 DEF EngineInit, CloseInv, NotYetClosed
<1>2. ASSUME EngineInv, DayInv, CloseInv, [EngineNext]_allVars PROVE CloseInv'
  <2>1. CASE QuietStep
    BY <1>2, <2>1 DEF QuietStep, CloseInv, NotYetClosed
  <2>2. CASE LoadMachine
    <3>1. Booked' = Booked /\ Booked = {} /\ engine' = engine /\ engine # "record"
      BY <1>2, <2>2, SameLedger DEF LoadMachine, EngineInv, DayInv, Booked
    <3> QED
      BY <3>1 DEF CloseInv, NotYetClosed
  <2>3. CASE Midnight
    BY <1>2, <2>3, MidnightBooks DEF CloseInv, NotYetClosed
  <2> QED
    BY <1>2, <2>1, <2>2, <2>3, CloseTick, CloseRecord, EngineShapes
<1> QED
  BY <1>1, <1>2, EngineAlways, DayAlways, PTL DEF EngineSpec

(* "key = date:signal:trade count": the engine, left alone and not caught  *)
(* by midnight, never has two fills close the same long, whichever writes  *)
(* fail and whoever toggles the symbol (ClosedOnce).                       *)
THEOREM LongsAreClosedOnce ==
    ASSUME StaysUp, NoRace, NoSweeper
    PROVE  EngineSpec => []ClosedOnce
<1>1. EngineInv /\ NothingSwept /\ CloseInv => ClosedOnce
  <2> SUFFICES ASSUME EngineInv, NothingSwept, CloseInv, NEW d \in Dates, NEW t \in Trades
               PROVE  Closings(d, t) <= 1
    BY DEF ClosedOnce
  <2> DEFINE sell == Key(d, "SELL_LONG", t)
             stop == Key(d, "STOP_LONG", t)
             sweep == Key(d, "SWEEP_LONG", t + 1)
  <2>1. /\ sell.fill = "SELL_LONG" /\ sell.date = d /\ sell.trades = t
        /\ stop.fill = "STOP_LONG" /\ stop.date = d /\ stop.trades = t
        /\ sweep.fill = "SWEEP_LONG"
    BY DEF Key
  <2>2. Closings(d, t) = CopiesOf(sell) + CopiesOf(stop) + CopiesOf(sweep)
    BY DEF Closings, Copies
  <2> HIDE DEF sell, stop, sweep
  <2>3. CopiesOf(sweep) = 0
    BY <2>1, CopiesOfKey DEF EngineInv, NothingSwept, Sweeps
  <2>4. ~(sell \in Booked /\ stop \in Booked)
    BY <2>1 DEF CloseInv, Closing
  <2>5. CopiesOf(sell) = 0 \/ CopiesOf(stop) = 0
    BY <2>1, <2>4, CopiesOfKey DEF EngineInv, Booked
  <2>6. CopiesOf(sell) \in {0, 1} /\ CopiesOf(stop) \in {0, 1}
    BY CopiesOfKey DEF EngineInv
  <2> QED
    BY <2>2, <2>3, <2>5, <2>6
<1> QED
  BY <1>1, EngineAlways, CloseAlways, NothingIsSwept, PTL

-----------------------------------------------------------------------------
(* With inserts that succeed and a pivot at every tick, a booked long is   *)
(* held, or closed, or its closing fill is on its way.                     *)

RecordsSucceed == "record_fails" \notin Events
PivotsKnown == \A i \in Market : i.pivot # NoPivot

Closed(k) == \E fill \in Closing : Key(today, fill, k.trades) \in Booked

HeldOrClosed ==
    \A k \in Booked :
        k.fill = "BUY_LONG" /\ k.date = today =>
            \/ machine.state = "POSITION_LONG" /\ machine.daily_trades = k.trades
            \/ engine = "record" /\ signal \in Closing /\ machine.daily_trades = k.trades
            \/ Closed(k)

LEMMA HeldTick ==
    ASSUME EngineInv, DayInv, HeldOrClosed, EngineTick, PivotsKnown
    PROVE  HeldOrClosed'
<1>1. PICK i \in Inputs : TickEffect(i)
  BY TickBooks
<1>2. i.pivot # NoPivot
  <2>1. PICK a \in Market : i = [a EXCEPT !.date = today]
    BY DEF Inputs
  <2>2. a \in TickInputs /\ a.pivot # NoPivot
    BY MarketAssumption DEF PivotsKnown
  <2> QED
    BY <2>1, <2>2 DEF TickInputs
<1>3. /\ Booked' = Booked /\ engine # "record"
      /\ \A k \in Booked : k.date = today =>
            TradesToday = machine.daily_trades /\ StateToday = machine.state
      /\ today' = today
  BY <1>1, TickBooks DEF TickEffect
<1>4. signal' \in Closing => engine' = "record"
  <2>1. engine' = CASE signal' = "RAISED" -> "idle"
                    [] signal' \in Fills -> "record"
                    [] OTHER -> "save"
    BY EngineTicks DEF EngineInv, EngineTypeOK
  <2> QED
    BY <2>1 DEF Closing, Fills
<1>5. StateToday = "POSITION_LONG" =>
         /\ machine'.daily_trades = TradesToday
         /\ machine'.state = "POSITION_LONG" \/ signal' \in Closing
  BY <1>1, <1>2 DEF TickEffect, Entry, Exit, OpenStates, Closing
<1> QED
  BY <1>3, <1>4, <1>5 DEF HeldOrClosed, Closed

LEMMA HeldRecord ==
    ASSUME EngineInv, DayInv, HeldOrClosed, EngineRecord, RecordsSucceed
    PROVE  HeldOrClosed'
<1> DEFINE new == Key(today, signal, machine.daily_trades)
<1>1. /\ OneEach /\ Record(new) /\ engine = "record" /\ engine' = "save"
      /\ UNCHANGED <<machine, signal, today>>
  BY DEF EngineInv, EngineRecord, vars
<1>2. /\ new.date = today /\ new.fill = signal /\ new.trades = machine.daily_trades
      /\ new = Key(today, signal, machine.daily_trades)
  BY DEF Key
<1> HIDE DEF new
<1>3. Booked' = Booked \cup {new}
  BY <1>1, <1>2, RecordAdds DEF Booked, EngineInv, FillsKnown, RecordsSucceed
<1>4. \A k \in Booked : Closed(k) => Closed(k)'
  BY <1>1, <1>3 DEF Closed
<1>5. \A k \in Booked :
         signal \in Closing /\ machine.daily_trades = k.trades => Closed(k)'
  BY <1>1, <1>2, <1>3 DEF Closed
<1>6. new.fill = "BUY_LONG" => machine.state = "POSITION_LONG"
  BY <1>1, <1>2 DEF DayInv
<1> QED
  BY <1>1, <1>2, <1>3, <1>4, <1>5, <1>6 DEF HeldOrClosed

LEMMA HeldAlways ==
    ASSUME StaysUp, NoRace, RecordsSucceed, PivotsKnown
    PROVE  EngineSpec => []HeldOrClosed
<1>1. EngineInit => HeldOrClosed
  BY DEF EngineInit, HeldOrClosed, Booked, Keys, EmptyBag, SetToBag, BagToSet
<1>2. ASSUME EngineInv, DayInv, HeldOrClosed, [EngineNext]_allVars PROVE HeldOrClosed'
  <2>1. CASE QuietStep
    BY <1>2, <2>1 DEF QuietStep, HeldOrClosed, Closed
  <2>2. CASE LoadMachine
    <3>1. Booked' = Booked /\ Booked = {}
      BY <1>2, <2>2, SameLedger DEF LoadMachine, EngineInv, DayInv, Booked
    <3> QED
      BY <3>1 DEF HeldOrClosed
  <2>3. CASE Midnight
    BY <1>2, <2>3, MidnightBooks DEF HeldOrClosed
  <2> QED
    BY <1>2, <2>1, <2>2, <2>3, HeldTick, HeldRecord, EngineShapes
<1> QED
  BY <1>1, <1>2, EngineAlways, DayAlways, PTL DEF EngineSpec

(* "If a signal is produced, record_t0_signal() is called": between rounds *)
(* a long in today's ledger is still held, or a closing fill stands beside *)
(* it (ClosesRecorded), as long as no insert fails and no tick loses the   *)
(* pivot, whose take-profit raises after it has changed the object.        *)
THEOREM ClosesAreRecorded ==
    ASSUME StaysUp, NoRace, RecordsSucceed, PivotsKnown
    PROVE  EngineSpec => []ClosesRecorded
<1>1. EngineInv /\ HeldOrClosed => ClosesRecorded
  <2> SUFFICES ASSUME EngineInv, HeldOrClosed, engine = "idle", NEW t \in Trades,
                      Copies(today, "BUY_LONG", t) > 0,
                      ~(machine.state = "POSITION_LONG" /\ machine.daily_trades = t)
               PROVE  Closings(today, t) >= 1
    BY DEF ClosesRecorded
  <2> DEFINE k == Key(today, "BUY_LONG", t)
             sell == Key(today, "SELL_LONG", t)
             stop == Key(today, "STOP_LONG", t)
             sweep == Key(today, "SWEEP_LONG", t + 1)
  <2>1. /\ k.fill = "BUY_LONG" /\ k.date = today /\ k.trades = t
        /\ CopiesOf(k) > 0
        /\ Closings(today, t) = CopiesOf(sell) + CopiesOf(stop) + CopiesOf(sweep)
    BY DEF Key, Closings, Copies
  <2>2. k \in Booked
    BY <2>1, CopiesOfKey DEF EngineInv, Booked
  <2>3. PICK fill \in Closing : Key(today, fill, t) \in Booked
    BY <2>1, <2>2 DEF HeldOrClosed, Closed
  <2>4. Key(today, fill, t) \in {sell, stop}
    BY DEF Closing
  <2>5. CopiesOf(Key(today, fill, t)) = 1
    BY <2>3 DEF EngineInv, OneEach, Booked
  <2>6. \A x \in {CopiesOf(sell), CopiesOf(stop), CopiesOf(sweep)} : x \in {0, 1}
    BY CopiesOfKey DEF EngineInv
  <2> HIDE DEF k, sell, stop, sweep
  <2> QED
    BY <2>1, <2>4, <2>5, <2>6
<1> QED
  BY <1>1, EngineAlways, HeldAlways, PTL

-----------------------------------------------------------------------------
(* Restarts from older rows.  What the machine in memory has counted is in *)
(* the ledger up to the fill that is on its way there, and so is what the  *)
(* row has counted, because a fill is recorded before the row is written:  *)
(* of each count but the last both the opening and a closing fill.  Hence  *)
(* a long that is not in the ledger yet is opened after all those that     *)
(* are, and each of them is closed, wherever the process had stopped.      *)

LongsOnly == \A i \in Market : i.direction \notin {"SHORT_ONLY", "BOTH"}

Long(d, n) == Key(d, "BUY_LONG", n) \in Booked
Shut(d, n) == \E fill \in Closing : Key(d, fill, n) \in Booked

InTurn(d) ==
    \A n \in Nat : Long(d, n) => n # 0 /\ \A m \in 1..(n - 1) : Long(d, m) /\ Shut(d, m)

Accounted(state, trades) ==
    \A n \in 1..trades :
        Long(today, n) /\ (Shut(today, n) \/ (n = trades /\ state = "POSITION_LONG"))

OnItsWay ==
    /\ machine.trade_date = today /\ signal \in {"BUY_LONG"} \cup Closing
    /\ signal = "BUY_LONG" => machine.daily_trades # 0 /\ machine.state = "POSITION_LONG"
    /\ \A n \in 1..machine.daily_trades :
          /\ n # machine.daily_trades => Long(today, n) /\ Shut(today, n)
          /\ signal \in Closing => Long(today, n)

TurnInv ==
    /\ \A o \in {machine, cache.json} : o.state # "POSITION_SHORT" /\ o.trade_date <= today
    /\ engine = "record" => OnItsWay
    /\ engine # "record" /\ machine.trade_date = today =>
          Accounted(machine.state, machine.daily_trades)
    /\ cache.json.trade_date = today => Accounted(cache.json.state, cache.json.daily_trades)
    /\ \A d \in Dates : InTurn(d)

(* A step that touches neither the object nor what is written of it.       *)
CalmStep ==
    /\ UNCHANGED <<machine, signal, today>> /\ cache'.json = cache.json /\ Booked' = Booked
    /\ engine' = engine \/ (engine # "record" /\ engine' # "record")

LEMMA CalmShapes ==
    ASSUME EngineInv, NothingSwept, NoSweeper, [EngineNext]_allVars
    PROVE  CalmStep \/ LoadMachine \/ EngineTick \/ EngineRecord \/ EngineSave \/ Crash \/ Midnight
<1>1. UNCHANGED ledger => Booked' = Booked
  BY SameLedger DEF EngineInv, Booked
<1>2. CASE StartRound \/ NoPrice \/ ClockAdvances \/ Enable
  BY <1>1, <1>2 DEF StartRound, NoPrice, ClockAdvances, Enable, vars, CalmStep
<1>3. CASE SweepRead \/ SweepCopy \/ SweepSkip \/ SweepRecord \/ SweepSave
  BY <1>3 DEF SweepRead, SweepCopy, SweepSkip, SweepRecord, SweepSave, NothingSwept, NoSweeper
<1>4. CASE Disable
  <2>1. cache' = cache \/ (cache # NoRow /\ cache' = [cache EXCEPT !.state = "IDLE"])
    BY <1>4 DEF Disable
  <2>2. cache # NoRow => cache \in [state : T0States, json : Machines]
    BY DEF EngineInv, EngineTypeOK
  <2>3. cache'.json = cache.json
    BY <2>1, <2>2
  <2> QED
    BY <1>1, <1>4, <2>3 DEF Disable, vars, CalmStep
<1>5. CASE UNCHANGED allVars
  BY <1>1, <1>5 DEF allVars, vars, engineVars, CalmStep
<1> QED
  BY <1>2, <1>3, <1>4, <1>5 DEF EngineNext

(* The objects in memory and in the row count in naturals.                 *)
LEMMA ObjectsCount ==
    ASSUME EngineInv
    PROVE  \A o \in {machine, cache.json} : o.daily_trades \in Nat /\ o.trade_date \in Nat
<1>1. \A m \in Machines : m.daily_trades \in Nat /\ m.trade_date \in Nat
  BY MachineFields, DatesAssumption
<1>2. machine \in Machines
  BY DEF EngineInv, EngineTypeOK, TypeOK
<1>3. cache.json \in Machines \/ cache.json = Fresh(0, T0Qty)
  <2> DEFINE none == Fresh(0, T0Qty)
  <2>1. cache = [state |-> "", json |-> none] \/ cache \in [state : T0States, json : Machines]
    BY DEF EngineInv, EngineTypeOK, NoRow
  <2> HIDE DEF none
  <2>2. CASE cache = [state |-> "", json |-> none]
    BY <2>2 DEF none
  <2>3. CASE cache \in [state : T0States, json : Machines]
    BY <2>3
  <2> QED
    BY <2>1, <2>2, <2>3
<1>4. Fresh(0, T0Qty).daily_trades = 0 /\ Fresh(0, T0Qty).trade_date = 0
  BY DEF Fresh
<1> QED
  BY <1>1, <1>2, <1>3, <1>4

LEMMA TurnTick ==
    ASSUME EngineInv, TurnInv, EngineTick, PivotsKnown, LongsOnly
    PROVE  TurnInv'
<1>1. TypeOK /\ TypeOK' /\ engine = "row"
  BY EngineTicks DEF EngineInv, EngineTypeOK, EngineTick
<1>2. PICK i \in Inputs : TickEffect(i)
  BY <1>1, EngineTicks
<1>3. i.pivot # NoPivot /\ i.direction \notin {"SHORT_ONLY", "BOTH"}
  <2>1. PICK a \in Market : i = [a EXCEPT !.date = today]
    BY DEF Inputs
  <2>2. a \in TickInputs /\ a.pivot # NoPivot /\ a.direction \notin {"SHORT_ONLY", "BOTH"}
    BY MarketAssumption DEF PivotsKnown, LongsOnly
  <2> QED
    BY <2>1, <2>2 DEF TickInputs
<1>4. /\ Booked' = Booked /\ cache' = cache /\ today' = today
      /\ machine'.trade_date = today /\ today \in Nat
  BY <1>1, <1>2, SameLedger, DatesAreNatural DEF EngineTick, EngineInv, Booked, TickEffect
<1>5. /\ TradesToday \in Nat /\ StateToday # "POSITION_SHORT"
      /\ Accounted(StateToday, TradesToday)
  BY <1>1, ObjectsCount DEF TurnInv, TradesToday, StateToday, Accounted
<1>6. \A n \in 1..TradesToday :
         /\ Long(today, n)
         /\ n # TradesToday \/ StateToday # "POSITION_LONG" => Shut(today, n)
  BY <1>5 DEF Accounted
<1>7. engine' = CASE signal' = "RAISED" -> "idle"
                  [] signal' \in Fills -> "record"
                  [] OTHER -> "save"
  BY <1>1, EngineTicks
<1>8. \A d, n : /\ Long(d, n)' <=> Long(d, n)
                /\ Shut(d, n)' <=> Shut(d, n)
  BY <1>4 DEF Long, Shut
<1>9. CASE Entry("BUY_LONG", "POSITION_LONG")
  <2>1. /\ signal' = "BUY_LONG" /\ machine'.state = "POSITION_LONG"
        /\ machine'.daily_trades = TradesToday + 1
        /\ \A n \in 1..TradesToday : Long(today, n) /\ Shut(today, n)
    BY <1>6, <1>9 DEF Entry
  <2>2. engine' = "record"
    BY <1>7, <2>1 DEF Fills
  <2>3. \A n \in 1..machine'.daily_trades : n # machine'.daily_trades => n \in 1..TradesToday
    BY <1>5, <2>1
  <2>4. OnItsWay'
    BY <1>4, <1>5, <1>8, <2>1, <2>3 DEF OnItsWay, Closing
  <2> QED
    BY <1>4, <1>8, <2>1, <2>2, <2>4 DEF TurnInv, Accounted, InTurn
<1>10. CASE \E fill \in Closing, after \in {"IDLE", "LOCKDOWN"} : Exit(fill, "POSITION_LONG", after)
  <2>1. /\ signal' \in Closing /\ machine'.state \in {"IDLE", "LOCKDOWN"}
        /\ machine'.daily_trades = TradesToday
    BY <1>10 DEF Exit
  <2>2. engine' = "record" /\ signal' # "BUY_LONG"
    BY <1>7, <2>1 DEF Fills, Closing
  <2>3. OnItsWay'
    BY <1>4, <1>6, <1>8, <2>1, <2>2 DEF OnItsWay
  <2> QED
    BY <1>4, <1>8, <2>1, <2>2, <2>3 DEF TurnInv, Accounted, InTurn
<1>11. CASE (\E held \in T0States : Exit("", held, held)) \/ Exit("", "IDLE", "LOCKDOWN")
  <2>2. /\ signal' = "" /\ machine'.daily_trades = TradesToday
        /\ machine'.state = StateToday \/ StateToday # "POSITION_LONG"
        /\ machine'.state # "POSITION_SHORT"
    BY <1>5, <1>11 DEF Exit
  <2>3. engine' # "record"
    BY <1>7, <2>2 DEF Fills
  <2>4. Accounted(machine.state, machine.daily_trades)'
    BY <1>4, <1>6, <1>8, <2>2 DEF Accounted
  <2>5. cache.json.trade_date = today => Accounted(cache.json.state, cache.json.daily_trades)'
    BY <1>4, <1>8 DEF TurnInv, Accounted
  <2>6. \A d \in Dates : InTurn(d)'
    BY <1>8 DEF TurnInv, InTurn
  <2>7. cache.json.state # "POSITION_SHORT" /\ cache.json.trade_date <= today
    BY DEF TurnInv
  <2>8. (\A o \in {machine, cache.json} : o.state # "POSITION_SHORT" /\ o.trade_date <= today)'
    <3>1. machine'.trade_date <= today'
      BY <1>4
    <3>2. cache'.json = cache.json /\ today' = today
      BY <1>4
    <3> QED
      BY <2>2, <2>7, <3>1, <3>2, Zenon
  <2> QED
    BY <1>4, <2>3, <2>4, <2>5, <2>6, <2>8, Zenon DEF TurnInv
<1>12. ~\E held : Exit("BUY_SHORT", "POSITION_SHORT", held)
  BY <1>5 DEF Exit
<1>13. ~\E held : Exit("RAISED", held, "IDLE") /\ i.pivot = NoPivot
  BY <1>3
<1>14. ~(Entry("SELL_SHORT", "POSITION_SHORT") /\ i.direction \in {"SHORT_ONLY", "BOTH"})
  BY <1>3
<1>15. \/ Entry("BUY_LONG", "POSITION_LONG")
       \/ Exit("STOP_LONG", "POSITION_LONG", "LOCKDOWN")
       \/ Exit("SELL_LONG", "POSITION_LONG", "IDLE")
       \/ \E held \in T0States : Exit("", held, held)
       \/ Exit("", "IDLE", "LOCKDOWN")
  BY <1>2, <1>12, <1>13, <1>14 DEF TickEffect
<1>16. "SELL_LONG" \in Closing /\ "STOP_LONG" \in Closing
  BY DEF Closing
<1>17. CASE Exit("STOP_LONG", "POSITION_LONG", "LOCKDOWN") \/ Exit("SELL_LONG", "POSITION_LONG", "IDLE")
  BY <1>10, <1>16, <1>17
<1> QED
  BY <1>9, <1>11, <1>15, <1>17

LEMMA TurnRecord ==
    ASSUME EngineInv, TurnInv, EngineRecord, RecordsSucceed
    PROVE  TurnInv'
<1> DEFINE t == machine.daily_trades
           new == Key(today, signal, t)
<1>1. /\ OneEach /\ Record(new) /\ engine = "record" /\ engine' = "save" /\ OnItsWay
      /\ UNCHANGED <<machine, signal, today, cache>> /\ t \in Nat /\ t' = t
  BY ObjectsCount DEF EngineInv, EngineRecord, vars, TurnInv
<1>2. Booked' = Booked \cup {new}
  <2>1. new.fill = signal
    BY DEF Key
  <2> HIDE DEF new
  <2> QED
    BY <1>1, <2>1, RecordAdds DEF Booked, EngineInv, FillsKnown, RecordsSucceed
<1>3. \A d, n, fill : Key(d, fill, n) = new <=> d = today /\ fill = signal /\ n = t
  BY DEF Key
<1> HIDE DEF new, t
<1>4. \A d, n : /\ Long(d, n) => Long(d, n)'
                /\ Shut(d, n) => Shut(d, n)'
                /\ Long(d, n)' => Long(d, n) \/ (signal = "BUY_LONG" /\ d = today /\ n = t)
  BY <1>2, <1>3 DEF Long, Shut
<1>5. /\ signal = "BUY_LONG" => Long(today, t)'
      /\ signal \in Closing => Shut(today, t)'
  <2>1. Key(today, signal, t) \in Booked' /\ today' = today
    BY <1>1, <1>2, <1>3
  <2> QED
    BY <1>1, <2>1 DEF Long, Shut
<1>6. /\ signal \in {"BUY_LONG"} \cup Closing
      /\ signal = "BUY_LONG" => t # 0 /\ machine.state = "POSITION_LONG"
      /\ \A n \in 1..t : /\ n # t => Long(today, n) /\ Shut(today, n)
                         /\ signal \in Closing => Long(today, n)
  BY <1>1 DEF OnItsWay, t
<1>7. Accounted(machine.state, t)'
  <2>1. ASSUME NEW n \in 1..t
        PROVE  Long(today, n)' /\ (Shut(today, n)' \/ (n = t /\ machine.state = "POSITION_LONG"))
    BY <1>1, <1>4, <1>5, <1>6
  <2> QED
    BY <1>1, <2>1 DEF Accounted, t
<1>8. cache.json.trade_date = today => Accounted(cache.json.state, cache.json.daily_trades)'
  BY <1>1, <1>4 DEF TurnInv, Accounted
<1>9. ASSUME NEW d \in Dates PROVE InTurn(d)'
  <2>1. InTurn(d)
    BY DEF TurnInv
  <2>2. ASSUME NEW n \in Nat, Long(d, n)', NEW m \in 1..(n - 1)
        PROVE  Long(d, m)' /\ Shut(d, m)'
    <3>1. CASE Long(d, n)
      BY <1>4, <2>1, <2>2, <3>1 DEF InTurn
    <3>2. CASE ~Long(d, n)
      <4>1. d = today /\ n = t
        BY <1>4, <2>2, <3>2
      <4>2. m \in 1..t /\ m # t
        BY <1>1, <2>2, <4>1
      <4> QED
        BY <1>4, <1>6, <4>1, <4>2
    <3> QED
      BY <3>1, <3>2
  <2>3. \A n \in Nat : Long(d, n)' => n # 0
    BY <1>4, <1>6, <2>1 DEF InTurn
  <2> QED
    BY <2>2, <2>3 DEF InTurn
<1> QED
  BY <1>1, <1>7, <1>8, <1>9 DEF TurnInv, t

LEMMA TurnAlways ==
    ASSUME NoRace, NoSweeper, RecordsSucceed, PivotsKnown, LongsOnly
    PROVE  EngineSpec => []TurnInv
<1>1. EngineInit => TurnInv
  <2> SUFFICES ASSUME EngineInit PROVE TurnInv
    OBVIOUS
  <2>1. \A d, q : /\ Fresh(d, q).state = "IDLE" /\ Fresh(d, q).trade_date = d
                  /\ Fresh(d, q).daily_trades = 0
    BY DEF Fresh
  <2>2. cache.json = Fresh(0, T0Qty) /\ machine = Fresh(today, T0Qty) /\ engine = "idle"
    BY DEF EngineInit, Init, NoRow
  <2>3. Booked = {}
    BY DEF EngineInit, Booked, Keys, EmptyBag, SetToBag, BagToSet
  <2>4. today \in Nat
    BY EngineInits, DatesAreNatural DEF EngineInv, EngineTypeOK
  <2> QED
    BY <2>1, <2>2, <2>3, <2>4 DEF TurnInv, Accounted, InTurn, Long
<1>2. ASSUME EngineInv, NothingSwept, TurnInv, [EngineNext]_allVars PROVE TurnInv'
  <2> USE <1>2
  <2>1. /\ machine.daily_trades \in Nat /\ cache.json.daily_trades \in Nat
        /\ today \in Nat /\ machine.trade_date \in Nat /\ cache.json.trade_date \in Nat
    BY ObjectsCount, DatesAreNatural DEF EngineInv, EngineTypeOK
  <2>2. UNCHANGED ledger => Booked' = Booked
    BY SameLedger DEF EngineInv, Booked
  <2>3. CASE CalmStep
    BY <2>3 DEF CalmStep, TurnInv, OnItsWay, Accounted, InTurn, Long, Shut
  <2>4. CASE LoadMachine
    <3>1. /\ Booked' = Booked /\ cache' = cache /\ today' = today /\ engine' = "row"
          /\ machine' = Fresh(today, T0Qty) \/ machine' = cache.json
      BY <2>2, <2>4 DEF LoadMachine
    <3>2. CASE machine' = cache.json
      BY <3>1, <3>2 DEF TurnInv, Accounted, InTurn, Long, Shut
    <3>3. CASE machine' = Fresh(today, T0Qty)
      <4>1. machine'.state = "IDLE" /\ machine'.trade_date = today /\ machine'.daily_trades = 0
        BY <3>3 DEF Fresh
      <4> QED
        BY <2>1, <3>1, <4>1 DEF TurnInv, Accounted, InTurn, Long, Shut
    <3> QED
      BY <3>1, <3>2, <3>3
  <2>5. CASE EngineSave
    <3>1. /\ Booked' = Booked /\ UNCHANGED <<machine, signal, today>> /\ engine = "save"
          /\ engine' = "idle" /\ (cache'.json = machine \/ cache' = cache)
      BY <2>2, <2>5 DEF EngineSave, Save, Row, vars
    <3> QED
      BY <3>1 DEF TurnInv, Accounted, InTurn, Long, Shut
  <2>6. CASE Crash
    <3>1. /\ Booked' = Booked /\ cache' = cache /\ today' = today /\ engine' = "idle"
          /\ machine' = Fresh(machine.trade_date, T0Qty)
      BY <2>2, <2>6 DEF Crash
    <3>2. /\ machine'.state = "IDLE" /\ machine'.trade_date = machine.trade_date
          /\ machine'.daily_trades = 0
      BY <3>1 DEF Fresh
    <3> QED
      BY <2>1, <3>1, <3>2 DEF TurnInv, Accounted, InTurn, Long, Shut
  <2>7. CASE Midnight
    <3>1. /\ Booked' = Booked /\ engine' = engine /\ engine # "record" /\ cache' = cache
          /\ UNCHANGED <<machine, signal>> /\ today' \in Nat /\ today' > today
      BY <2>7, MidnightBooks, DatesAssumption DEF Midnight, NewDay
    <3>2. machine.trade_date < today' /\ cache.json.trade_date < today'
      BY <2>1, <3>1 DEF TurnInv
    <3>3. \A d \in Dates : InTurn(d)'
      BY <3>1 DEF TurnInv, InTurn, Long, Shut
    <3>4. \A o \in {machine', cache'.json} : o.state # "POSITION_SHORT" /\ o.trade_date <= today'
      BY <2>1, <3>1, <3>2 DEF TurnInv
    <3>5. machine'.trade_date # today' /\ cache'.json.trade_date # today'
      BY <2>1, <3>1, <3>2
    <3> QED
      BY <3>1, <3>3, <3>4, <3>5, Zenon DEF TurnInv
  <2> QED
    BY <2>3, <2>4, <2>5, <2>6, <2>7, TurnTick, TurnRecord, CalmShapes
<1> QED
  BY <1>1, <1>2, EngineAlways, NothingIsSwept, PTL DEF EngineSpec

(* _load_or_create_machine: where a process that stopped between the fill  *)
(* and the row trades on from an older row, on any number of days and      *)
(* restarts, no long is booked behind one that is still open or that is    *)
(* not booked itself, whichever saves fail and whoever toggles the symbol  *)
(* (LongsInTurn).  The symbol has no short policy (a short re-opened under *)
(* the count of a lost long would leave that long open), inserts succeed,  *)
(* and no tick loses the pivot.                                            *)
THEOREM LongsOpenInTurn ==
    ASSUME NoRace, NoSweeper, RecordsSucceed, PivotsKnown, LongsOnly
    PROVE  EngineSpec => []LongsInTurn
<1>1. EngineInv /\ TurnInv => LongsInTurn
  <2> SUFFICES ASSUME EngineInv, TurnInv, NEW d \in Dates, NEW s \in Trades, NEW t \in Trades,
                      s <= t, Copies(d, "BUY_LONG", t) > 0
               PROVE  Copies(d, "BUY_LONG", s) <= Closings(d, s) + (IF s = t THEN 1 ELSE 0)
    BY DEF LongsInTurn
  <2> DEFINE c(fill, n) == Copies(d, fill, n)
  <2>1. \A fill, n : c(fill, n) \in {0, 1} /\ (c(fill, n) > 0 <=> Key(d, fill, n) \in Keys)
    BY CopiesOfKey DEF EngineInv, Copies
  <2>2. Closings(d, s) = c("SELL_LONG", s) + c("STOP_LONG", s) + c("SWEEP_LONG", s + 1)
    BY DEF Closings
  <2>3. \A fill \in {"BUY_LONG", "SELL_LONG", "STOP_LONG"} :
           \A n : Key(d, fill, n) \in Keys <=> Key(d, fill, n) \in Booked
    BY DEF Booked, Key
  <2>4. Long(d, t) /\ s \in Nat /\ t \in Nat
    BY <2>1, <2>3, MaxTradesAssumption DEF Long, Trades
  <2>5. ASSUME s # t, Long(d, s) PROVE Shut(d, s)
    <3>1. s # 0 /\ InTurn(d)
      BY <2>4, <2>5 DEF TurnInv, InTurn
    <3>2. s \in 1..(t - 1)
      BY <2>4, <2>5, <3>1
    <3> QED
      BY <2>4, <3>1, <3>2 DEF InTurn
  <2>6. Shut(d, s) => c("SELL_LONG", s) = 1 \/ c("STOP_LONG", s) = 1
    BY <2>1, <2>3 DEF Shut, Closing
  <2>7. c("BUY_LONG", s) = 1 => Long(d, s)
    BY <2>1, <2>3 DEF Long
  <2> HIDE DEF c
  <2>8. c("BUY_LONG", s) <= Closings(d, s) + (IF s = t THEN 1 ELSE 0)
    BY <2>1, <2>2, <2>5, <2>6, <2>7
  <2> QED
    BY <2>8 DEF c
<1> QED
  BY <1>1, EngineAlways, TurnAlways, PTL

-----------------------------------------------------------------------------
(* The row of the cache, when the engine alone writes it, nobody disables  *)
(* the symbol and no save fails: across restarts and midnights.            *)

OnlyEngineWrites == Events \cap {"save_fails", "sweep", "toggle"} = {}

RowInv ==
    /\ sweeper = "idle"
    /\ cache = NoRow \/ cache = Row(cache.json)
    /\ RowShowsMachine

(* The row follows the object at every step but a tick, after which the    *)
(* engine is not between rounds until it has saved or the tick has raised. *)
LEMMA RowAlways == ASSUME OnlyEngineWrites PROVE EngineSpec => []RowInv
<1>1. EngineInit => RowInv
  BY DEF EngineInit, RowInv, RowShowsMachine
<1>2. RowInv /\ [EngineNext]_allVars => RowInv'
  <2> SUFFICES ASSUME RowInv, [EngineNext]_allVars PROVE RowInv'
    OBVIOUS
  <2>1. CASE LoadMachine
    <3>1. cache' = cache /\ sweeper' = sweeper /\ (cache # NoRow => machine' = cache.json)
      BY <2>1 DEF LoadMachine
    <3> QED
      BY <3>1 DEF RowInv, RowShowsMachine
  <2>2. CASE EngineTick
    <3>1. cache' = cache /\ sweeper' = sweeper /\ (engine' = "idle" => signal' = "RAISED")
          /\ engine' # "row"
      BY <2>2 DEF EngineTick
    <3> QED
      BY <3>1 DEF RowInv, RowShowsMachine
  <2>3. CASE EngineSave
    <3>1. cache' = Row(machine) /\ machine' = machine /\ sweeper' = sweeper
      BY <2>3 DEF EngineSave, Save, OnlyEngineWrites, vars
    <3>2. Row(machine).json = machine
      BY DEF Row
    <3> QED
      BY <3>1, <3>2 DEF RowInv, RowShowsMachine
  <2>4. CASE StartRound \/ NoPrice \/ EngineRecord
    BY <2>4 DEF StartRound, NoPrice, EngineRecord, vars, RowInv, RowShowsMachine
  <2>5. CASE SweepRead \/ SweepCopy \/ SweepSkip \/ SweepRecord \/ SweepSave
    BY <2>5 DEF SweepRead, SweepCopy, SweepSkip, SweepRecord, SweepSave, RowInv, OnlyEngineWrites
  <2>6. CASE Disable \/ Enable
    BY <2>6 DEF Disable, Enable, OnlyEngineWrites
  <2>7. CASE Crash
    BY <2>7 DEF Crash, RowInv, RowShowsMachine
  <2>8. CASE ClockAdvances
    BY <2>8 DEF ClockAdvances, vars, RowInv, RowShowsMachine
  <2>9. CASE Midnight
    BY <2>9 DEF Midnight, NewDay, RowInv, RowShowsMachine
  <2>10. CASE UNCHANGED allVars
    BY <2>10 DEF allVars, vars, engineVars, RowInv, RowShowsMachine
  <2> QED
    BY <2>1, <2>2, <2>3, <2>4, <2>5, <2>6, <2>7, <2>8, <2>9, <2>10 DEF EngineNext
<1> QED
  BY <1>1, <1>2, PTL DEF EngineSpec

(* _save_state_cache, _load_or_create_machine: between rounds the row      *)
(* shows what the machine is, also after a restart or a midnight caught    *)
(* anywhere in a round (RowShowsMachine).                                  *)
THEOREM RowsShowTheMachine == ASSUME OnlyEngineWrites PROVE EngineSpec => []RowShowsMachine
<1>1. RowInv => RowShowsMachine
  BY DEF RowInv
<1> QED
  BY <1>1, RowAlways, PTL
-----------------------------------------------------------------------------
(* The latest point is there: a set of positions has a greatest one.       *)

LEMMA LeastNatural ==
    ASSUME NEW T, T \subseteq Nat, T # {}
    PROVE  \E x \in T : \A y \in T : x <= y
<1> DEFINE R == OpToRel(<, Nat)
<1>1. IsWellFoundedOn(R, Nat)
  BY NatLessThanWellFounded
<1>2. PICK x \in T : \A y \in T : ~(<<y, x>> \in R)
  <2> HIDE DEF R
  <2> QED
    BY <1>1, WFMin
<1>3. \A y \in T : ~(y < x)
  BY <1>2 DEF OpToRel
<1> QED
  BY <1>3

LEMMA GreatestBelow ==
    ASSUME NEW n \in Nat, NEW T, T \subseteq 0..n, T # {}
    PROVE  \E x \in T : \A y \in T : y <= x
<1> DEFINE U == {n - x : x \in T}
<1>1. U \subseteq Nat /\ U # {}
  <2>1. \A x \in T : n - x \in Nat
    OBVIOUS
  <2> QED
    BY <2>1
<1>2. PICK u \in U : \A v \in U : u <= v
  BY <1>1, LeastNatural
<1>3. PICK x \in T : u = n - x
  OBVIOUS
<1>4. \A y \in T : n - x <= n - y
  BY <1>2, <1>3
<1> QED
  BY <1>3, <1>4

LEMMA LatestIsAPoint ==
    ASSUME NEW l \in LevelFacts, NEW buy
    PROVE  Latest(l, buy) \in Points
<1> DEFINE points == l.points
           known == {k \in DOMAIN points : points[k].buy = buy /\ points[k].kind \in Kinds}
           last == CHOOSE k \in known : \A j \in known : j <= k
<1>1. points \in Seq(Points)
  BY DEF LevelFacts
<1>2. Latest(l, buy) = IF known = {} THEN NoPoint ELSE points[last]
  BY DEF Latest
<1>3. NoPoint \in Points
  BY DEF NoPoint, Points
<1>4. known \subseteq DOMAIN points
  OBVIOUS
<1> HIDE DEF points, known
<1>5. ASSUME known # {} PROVE points[last] \in Points
  <2>1. Len(points) \in Nat /\ known \subseteq 0..Len(points)
    BY <1>1, <1>4
  <2>2. \E k \in known : \A j \in known : j <= k
    BY <1>5, <2>1, GreatestBelow
  <2>3. last \in known
    BY <2>2
  <2> HIDE DEF last
  <2> QED
    BY <1>1, <1>4, <2>3
<1> QED
  BY <1>2, <1>3, <1>5

-----------------------------------------------------------------------------
(* The status of a deduction, and what it depends on.                      *)

Facts == [day : LevelFacts, m30 : LevelFacts, m5 : LevelFacts, stale : BOOLEAN]
BoundaryOf(c) == InvalidationBoundary(c.m30, c.m5)

Verdict(c) ==
    IF c.stale THEN "STALE"
    ELSE IF DayRole(c.day) # "VALID" THEN "NO_SETUP"
    ELSE IF Breaks(CurrentPrice(c), BoundaryOf(c)) \/ M30Role(c.m30) = "CONFLICTING"
         THEN "FAILED"
    ELSE IF M30Role(c.m30) # "SUPPORTIVE" THEN "WAITING_CONFIRMATION"
    ELSE IF CurrentBuy(c.m5) THEN "TRIGGER_CONFIRMED"
    ELSE IF IsForming(c.m5, BoundaryOf(c)) THEN "TRIGGER_FORMING"
    ELSE "WAITING_TRIGGER"

LEMMA RolesFields ==
    ASSUME NEW c
    PROVE  /\ RolesOf(c).day = DayRole(c.day) /\ RolesOf(c).m30 = M30Role(c.m30)
           /\ [RolesOf(c) EXCEPT !.m30 = "CONFLICTING"].m30 = "CONFLICTING"
           /\ [RolesOf(c) EXCEPT !.m5 = "FORMING"].day = DayRole(c.day)
           /\ [RolesOf(c) EXCEPT !.m5 = "FORMING"].m30 = M30Role(c.m30)
  BY DEF RolesOf

LEMMA ResultFields ==
    ASSUME NEW c, NEW status, NEW roles, NEW candidate, NEW boundary
    PROVE  LET d == Result(c, status, roles, candidate, boundary)
           IN  /\ d.status = status /\ d.roles = roles /\ d.candidate = candidate
               /\ d.boundary = boundary
               /\ d.boundaries = PathBoundaries(status, boundary, CurrentPrice(c))
  BY DEF Result

LEMMA ResultBranches ==
    ASSUME NEW c, NEW status, NEW roles, NEW candidate, NEW boundary
    PROVE  \A b \in {"A", "B", "C"} :
              Result(c, status, roles, candidate, boundary).branches[b] = BranchState(status, b)
  BY DEF Result

(* The deduction of each verdict.                                          *)
Plainly(c, told) == Result(c, Verdict(c), told, NoCandidate, BoundaryOf(c))

LEMMA Deductions ==
    ASSUME NEW c
    PROVE  LET roles == RolesOf(c)
               forming == FormingType(c.m5)
               edge == FormingBoundary(forming, c.m5, BoundaryOf(c))
               bought == [type |-> Latest(c.m5, TRUE).kind, status |-> "CONFIRMED"]
               broken == Verdict(c) = "FAILED" /\ Breaks(CurrentPrice(c), BoundaryOf(c))
           IN  /\ broken => Deduction(c) = Plainly(c, [roles EXCEPT !.m30 = "CONFLICTING"])
               /\ Verdict(c) = "TRIGGER_CONFIRMED" =>
                     Deduction(c) = Result(c, "TRIGGER_CONFIRMED", roles, bought, BoundaryOf(c))
               /\ Verdict(c) = "TRIGGER_FORMING" =>
                     Deduction(c) = Result(c, "TRIGGER_FORMING", [roles EXCEPT !.m5 = "FORMING"],
                                           [type |-> forming, status |-> "FORMING"], edge)
               /\ Verdict(c) \notin {"TRIGGER_CONFIRMED", "TRIGGER_FORMING"} /\ ~broken =>
                     Deduction(c) = Plainly(c, roles)
<1> DEFINE roles == RolesOf(c)
           boundary == BoundaryOf(c)
           forming == FormingType(c.m5)
           plain(status, told) == Result(c, status, told, NoCandidate, boundary)
<1>1. roles.day = DayRole(c.day) /\ roles.m30 = M30Role(c.m30)
  BY RolesFields
<1>2. Deduction(c) =
        IF c.stale THEN plain("STALE", roles)
        ELSE IF roles.day # "VALID" THEN plain("NO_SETUP", roles)
        ELSE IF Fails(c, roles) THEN plain("FAILED", [roles EXCEPT !.m30 = "CONFLICTING"])
        ELSE IF roles.m30 = "CONFLICTING" THEN plain("FAILED", roles)
        ELSE IF roles.m30 # "SUPPORTIVE" THEN plain("WAITING_CONFIRMATION", roles)
        ELSE IF CurrentBuy(c.m5)
             THEN Result(c, "TRIGGER_CONFIRMED", roles,
                         [type |-> Latest(c.m5, TRUE).kind, status |-> "CONFIRMED"], boundary)
        ELSE IF IsForming(c.m5, boundary)
             THEN Result(c, "TRIGGER_FORMING", [roles EXCEPT !.m5 = "FORMING"],
                         [type |-> forming, status |-> "FORMING"],
                         FormingBoundary(forming, c.m5, boundary))
        ELSE plain("WAITING_TRIGGER", roles)
  BY DEF Deduction, BoundaryOf
<1>3. Fails(c, roles) = Breaks(CurrentPrice(c), boundary)
  BY DEF Fails, BoundaryOf
<1>4. Plainly(c, roles) = plain(Verdict(c), roles)
      /\ Plainly(c, [roles EXCEPT !.m30 = "CONFLICTING"])
            = plain(Verdict(c), [roles EXCEPT !.m30 = "CONFLICTING"])
  BY DEF Plainly
<1>5. Verdict(c) =
        IF c.stale THEN "STALE"
        ELSE IF roles.day # "VALID" THEN "NO_SETUP"
        ELSE IF Fails(c, roles) \/ roles.m30 = "CONFLICTING" THEN "FAILED"
        ELSE IF roles.m30 # "SUPPORTIVE" THEN "WAITING_CONFIRMATION"
        ELSE IF CurrentBuy(c.m5) THEN "TRIGGER_CONFIRMED"
        ELSE IF IsForming(c.m5, boundary) THEN "TRIGGER_FORMING"
        ELSE "WAITING_TRIGGER"
  BY <1>1, <1>3 DEF Verdict
<1> DEFINE failed == [roles EXCEPT !.m30 = "CONFLICTING"]
           confirmed == Result(c, "TRIGGER_CONFIRMED", roles,
                               [type |-> Latest(c.m5, TRUE).kind, status |-> "CONFIRMED"], boundary)
           formed == Result(c, "TRIGGER_FORMING", [roles EXCEPT !.m5 = "FORMING"],
                            [type |-> forming, status |-> "FORMING"],
                            FormingBoundary(forming, c.m5, boundary))
           broken == Verdict(c) = "FAILED" /\ Breaks(CurrentPrice(c), boundary)
<1>6. /\ broken => Deduction(c) = Plainly(c, failed)
      /\ Verdict(c) = "TRIGGER_CONFIRMED" => Deduction(c) = confirmed
      /\ Verdict(c) = "TRIGGER_FORMING" => Deduction(c) = formed
      /\ Verdict(c) \notin {"TRIGGER_CONFIRMED", "TRIGGER_FORMING"} /\ ~broken =>
            Deduction(c) = Plainly(c, roles)
  <2> HIDE DEF roles, boundary, forming, plain, failed, confirmed, formed
  <2>1. Deduction(c) =
          IF c.stale THEN plain("STALE", roles)
          ELSE IF roles.day # "VALID" THEN plain("NO_SETUP", roles)
          ELSE IF Fails(c, roles) THEN plain("FAILED", failed)
          ELSE IF roles.m30 = "CONFLICTING" THEN plain("FAILED", roles)
          ELSE IF roles.m30 # "SUPPORTIVE" THEN plain("WAITING_CONFIRMATION", roles)
          ELSE IF CurrentBuy(c.m5) THEN confirmed
          ELSE IF IsForming(c.m5, boundary) THEN formed
          ELSE plain("WAITING_TRIGGER", roles)
    BY <1>2 DEF failed, confirmed, formed
  <2>2. Plainly(c, roles) = plain(Verdict(c), roles) /\ Plainly(c, failed) = plain(Verdict(c), failed)
    BY <1>4 DEF failed
  <2> QED
    BY <1>3, <1>5, <2>1, <2>2
<1> QED
  BY <1>6

LEMMA StatusOf == ASSUME NEW c PROVE Deduction(c).status = Verdict(c)
<1>1. CASE Verdict(c) = "TRIGGER_CONFIRMED"
  <2>1. PICK told, candidate, boundary :
           Deduction(c) = Result(c, "TRIGGER_CONFIRMED", told, candidate, boundary)
    BY <1>1, Deductions, Zenon
  <2> QED
    BY <1>1, <2>1, ResultFields
<1>2. CASE Verdict(c) = "TRIGGER_FORMING"
  <2>1. PICK told, candidate, boundary :
           Deduction(c) = Result(c, "TRIGGER_FORMING", told, candidate, boundary)
    BY <1>2, Deductions, Zenon
  <2> QED
    BY <1>2, <2>1, ResultFields
<1>3. CASE Verdict(c) \notin {"TRIGGER_CONFIRMED", "TRIGGER_FORMING"}
  <2>1. PICK told : Deduction(c) = Plainly(c, told)
    BY <1>3, Deductions
  <2> QED
    BY <2>1, ResultFields DEF Plainly
<1> QED
  BY <1>1, <1>2, <1>3

-----------------------------------------------------------------------------
(* A higher price.                                                         *)

SameButPrice(l, k) ==
    /\ k.there = l.there /\ k.state = l.state /\ k.zd = l.zd /\ k.zg = l.zg
    /\ k.down = l.down /\ k.points = l.points /\ k.since = l.since

(* Breaking the boundary is the only thing in which the price of the 5     *)
(* minutes takes a path back, and it cannot begin with a rise: below the   *)
(* upper edge the boundary stays where it is, and above it the edge is     *)
(* under the price.                                                        *)
LEMMA NoRiseBreaks ==
    ASSUME NEW c \in Facts, NEW h \in Facts, h.m30 = c.m30, SameButPrice(c.m5, h.m5),
           c.m5.price > 0, h.m5.price >= c.m5.price,
           Breaks(CurrentPrice(h), BoundaryOf(h))
    PROVE  Breaks(CurrentPrice(c), BoundaryOf(c))
<1>1. /\ c.m5.price \in Nat /\ h.m5.price \in Nat /\ c.m5.zg \in Nat /\ c.m5.zd \in Nat
      /\ c.m30.zd \in Nat /\ c.m30 \in LevelFacts /\ c.m5 \in LevelFacts
  BY DEF Facts, LevelFacts
<1>2. /\ h.m5.state = c.m5.state /\ h.m5.zd = c.m5.zd /\ h.m5.zg = c.m5.zg
      /\ h.m5.down = c.m5.down /\ h.m5.points = c.m5.points
  BY DEF SameButPrice
<1>3. CurrentPrice(c) = c.m5.price /\ CurrentPrice(h) = h.m5.price
  BY <1>1 DEF CurrentPrice
<1>4. Latest(h.m5, TRUE) = Latest(c.m5, TRUE)
  BY <1>2 DEF Latest
<1>5. Latest(c.m5, TRUE).price \in Nat /\ Latest(c.m30, TRUE).price \in Nat
  BY <1>1, LatestIsAPoint DEF Points
<1>6. CASE PreferMicro(h.m5)
  <2>1. BoundaryOf(h).value = h.m5.zg /\ h.m5.price > h.m5.zg
    BY <1>6 DEF BoundaryOf, InvalidationBoundary, Boundary, PreferMicro, AboveResistance
  <2> QED
    BY <1>1, <1>2, <1>3, <2>1 DEF Breaks
<1>7. CASE ~PreferMicro(h.m5)
  <2>1. ~PreferMicro(c.m5)
    BY <1>1, <1>2, <1>7 DEF PreferMicro, AboveResistance
  <2>2. BoundaryOf(h) = BoundaryOf(c)
    BY <1>2, <1>4, <1>7, <2>1 DEF BoundaryOf, InvalidationBoundary
  <2>3. BoundaryOf(c).value \in Nat
    BY <1>1, <1>5, <2>1 DEF BoundaryOf, InvalidationBoundary, Boundary
  <2> QED
    BY <1>1, <1>3, <2>2, <2>3 DEF Breaks
<1> QED
  BY <1>6, <1>7

LEMMA RiseIsNoWorse ==
    ASSUME NEW c \in Facts, NEW rise \in Nat, c.m5.price > 0
    PROVE  Rank(Deduction(c).status) <= Rank(Deduction([c EXCEPT !.m5.price = @ + rise]).status)
<1> DEFINE price == c.m5.price + rise
           raised == [c.m5 EXCEPT !.price = price]
           h == [c EXCEPT !.m5 = raised]
<1>1. c.m5 \in LevelFacts /\ c.m5.price \in Nat /\ price \in Nat
  <2>1. c.m5 \in LevelFacts
    BY DEF Facts
  <2>2. c.m5.price \in Nat
    BY <2>1 DEF LevelFacts
  <2> QED
    BY <2>1, <2>2
<1>2. raised \in LevelFacts /\ raised.price = price /\ SameButPrice(c.m5, raised)
  <2> HIDE DEF price
  <2> QED
    BY <1>1 DEF LevelFacts, SameButPrice
<1>3. [c EXCEPT !.m5.price = @ + rise] = h
  OBVIOUS
<1> HIDE DEF raised, price
<1>4. h \in Facts /\ h.day = c.day /\ h.m30 = c.m30 /\ h.stale = c.stale /\ h.m5 = raised
  BY <1>2 DEF Facts
<1> HIDE DEF h
<1>5. Latest(h.m5, TRUE) = Latest(c.m5, TRUE) /\ CurrentBuy(h.m5) = CurrentBuy(c.m5)
  <2>1. h.m5.points = c.m5.points /\ h.m5.since = c.m5.since
    BY <1>2, <1>4 DEF SameButPrice
  <2>2. Latest(h.m5, TRUE) = Latest(c.m5, TRUE)
    BY <2>1 DEF Latest
  <2> QED
    BY <2>1, <2>2 DEF CurrentBuy, InWindow
<1>6. Breaks(CurrentPrice(h), BoundaryOf(h)) => Breaks(CurrentPrice(c), BoundaryOf(c))
  BY <1>1, <1>2, <1>4, NoRiseBreaks DEF price
<1>7. CurrentPrice(c) = c.m5.price /\ CurrentPrice(h) = h.m5.price
  BY <1>1, <1>2, <1>4 DEF CurrentPrice, price
<1>8. IsForming(c.m5, BoundaryOf(c)) => IsForming(h.m5, BoundaryOf(h))
  BY <1>2, <1>4, <1>5, <1>6, <1>7 DEF IsForming, SameButPrice
<1>9. Rank(Verdict(c)) <= Rank(Verdict(h))
  BY <1>4, <1>5, <1>6, <1>8 DEF Verdict, Rank
<1> QED
  BY <1>3, <1>9, StatusOf

-----------------------------------------------------------------------------
(* What a deduction tells beside its status.                               *)

Triggers == {"TRIGGER_CONFIRMED", "TRIGGER_FORMING"}
Verdicts == Triggers \cup {"STALE", "NO_SETUP", "FAILED", "WAITING_CONFIRMATION", "WAITING_TRIGGER"}

CurrentBranch(status) ==
    IF status \in Triggers THEN "A" ELSE IF status = "FAILED" THEN "C" ELSE "B"

LEMMA BranchesOf ==
    ASSUME NEW c
    PROVE  /\ Verdict(c) \in Verdicts
           /\ {b \in {"A", "B", "C"} : Deduction(c).branches[b] # "WATCH"}
                 = {CurrentBranch(Verdict(c))}
<1>1. \E status, told, candidate, boundary :
         status = Verdict(c) /\ Deduction(c) = Result(c, status, told, candidate, boundary)
  BY Deductions, Zenon DEF Plainly
<1>2. \A b \in {"A", "B", "C"} : Deduction(c).branches[b] = BranchState(Verdict(c), b)
  BY <1>1, ResultBranches
<1>3. Verdict(c) \in Verdicts
  BY DEF Verdict, Verdicts, Triggers
<1>4. \A status \in Verdicts : \A b \in {"A", "B", "C"} :
         BranchState(status, b) # "WATCH" <=> b = CurrentBranch(status)
  BY DEF Verdicts, Triggers, BranchState, CurrentBranch
<1>5. CurrentBranch(Verdict(c)) \in {"A", "B", "C"}
  BY DEF CurrentBranch
<1> QED
  BY <1>2, <1>3, <1>4, <1>5

(* A trigger: a candidate, on a valid day and a supporting 30.             *)
LEMMA TriggerTells ==
    ASSUME NEW c \in Facts, Verdict(c) \in Triggers
    PROVE  LET d == Deduction(c)
           IN  /\ ~c.stale /\ d.candidate # NoCandidate
               /\ d.roles.day = "VALID" /\ d.roles.m30 = "SUPPORTIVE"
               /\ Breaks(CurrentPrice(c), d.boundary) => d.candidate.type = "FIRST_BUY"
<1>1. /\ ~c.stale /\ DayRole(c.day) = "VALID" /\ M30Role(c.m30) = "SUPPORTIVE"
      /\ ~Breaks(CurrentPrice(c), BoundaryOf(c))
  BY DEF Verdict, Triggers
<1>2. CASE Verdict(c) = "TRIGGER_CONFIRMED"
  <2> DEFINE bought == [type |-> Latest(c.m5, TRUE).kind, status |-> "CONFIRMED"]
  <2>1. Deduction(c) = Result(c, "TRIGGER_CONFIRMED", RolesOf(c), bought, BoundaryOf(c))
    BY <1>2, Deductions, Zenon
  <2>2. bought # NoCandidate
    BY DEF NoCandidate
  <2> HIDE DEF bought
  <2> QED
    BY <1>1, <2>1, <2>2, ResultFields, RolesFields
<1>3. CASE Verdict(c) = "TRIGGER_FORMING"
  <2> DEFINE forming == FormingType(c.m5)
             formed == [type |-> forming, status |-> "FORMING"]
             edge == FormingBoundary(forming, c.m5, BoundaryOf(c))
             told == [RolesOf(c) EXCEPT !.m5 = "FORMING"]
  <2>1. Deduction(c) = Result(c, "TRIGGER_FORMING", told, formed, edge)
    BY <1>3, Deductions, Zenon
  <2>2. told.day = "VALID" /\ told.m30 = "SUPPORTIVE"
    BY <1>1, RolesFields
  <2>3. formed # NoCandidate /\ formed.type = forming
    BY DEF NoCandidate
  <2>4. Breaks(CurrentPrice(c), edge) => forming = "FIRST_BUY"
    <3>1. /\ c.m5.price \in Nat /\ c.m5.zg \in Nat
      BY DEF Facts, LevelFacts
    <3>2. CASE forming = "THIRD_BUY"
      <4>1. c.m5.zg > 0 /\ c.m5.price >= c.m5.zg
        BY <3>2 DEF FormingType
      <4>2. CurrentPrice(c) = c.m5.price
        BY <3>1, <4>1 DEF CurrentPrice
      <4>3. edge.value = c.m5.zg
        BY <3>2, <4>1 DEF FormingBoundary, Boundary
      <4> HIDE DEF edge
      <4> QED
        BY <3>1, <4>1, <4>2, <4>3 DEF Breaks
    <3>3. CASE forming \notin {"THIRD_BUY", "FIRST_BUY"}
      BY <1>1, <3>3 DEF FormingBoundary
    <3> QED
      BY <3>2, <3>3
  <2> HIDE DEF forming, formed, edge, told
  <2> QED
    BY <1>1, <2>1, <2>2, <2>3, <2>4, ResultFields
<1> QED
  BY <1>2, <1>3 DEF Triggers

(* A path that does not trigger: no candidate, and a failed one has its    *)
(* boundary broken or its 30 minutes against it.                           *)
LEMMA OtherTells ==
    ASSUME NEW c \in Facts, Verdict(c) \notin Triggers
    PROVE  LET d == Deduction(c)
           IN  /\ d.candidate = NoCandidate
               /\ Verdict(c) = "FAILED" => d.roles.m30 = "CONFLICTING"
               /\ Breaks(CurrentPrice(c), d.boundary) =>
                     \/ Verdict(c) \in {"STALE", "NO_SETUP"}
                     \/ Verdict(c) = "FAILED" /\ d.boundaries = {"ended"}
<1>1. PICK told : Deduction(c) = Plainly(c, told)
                  /\ (Verdict(c) = "FAILED" => told.m30 = "CONFLICTING")
  <2> DEFINE failed == [RolesOf(c) EXCEPT !.m30 = "CONFLICTING"]
  <2>1. CASE Verdict(c) = "FAILED" /\ Breaks(CurrentPrice(c), BoundaryOf(c))
    <3>1. Deduction(c) = Plainly(c, failed)
      BY <2>1, Deductions, Zenon
    <3>2. failed.m30 = "CONFLICTING"
      BY RolesFields
    <3> HIDE DEF failed
    <3> QED
      BY <3>1, <3>2
  <2>2. CASE ~(Verdict(c) = "FAILED" /\ Breaks(CurrentPrice(c), BoundaryOf(c)))
    <3>1. Deduction(c) = Plainly(c, RolesOf(c))
      BY <2>2, Deductions, Zenon DEF Triggers
    <3>2. Verdict(c) = "FAILED" => RolesOf(c).m30 = "CONFLICTING"
      BY <2>2, RolesFields DEF Verdict
    <3> QED
      BY <3>1, <3>2
  <2> QED
    BY <2>1, <2>2
<1>2. LET d == Deduction(c)
      IN  /\ d.candidate = NoCandidate /\ d.boundary = BoundaryOf(c) /\ d.roles = told
          /\ d.boundaries = PathBoundaries(Verdict(c), BoundaryOf(c), CurrentPrice(c))
  BY <1>1, ResultFields DEF Plainly
<1>3. Breaks(CurrentPrice(c), BoundaryOf(c)) => Verdict(c) \in {"STALE", "NO_SETUP", "FAILED"}
  BY DEF Verdict
<1>4. Breaks(CurrentPrice(c), BoundaryOf(c)) =>
         PathBoundaries("FAILED", BoundaryOf(c), CurrentPrice(c)) = {"ended"}
  <2>1. BoundaryOf(c).value \in Nat
    <3>1. /\ Latest(c.m5, TRUE).price \in Nat /\ Latest(c.m30, TRUE).price \in Nat
          /\ c.m5.zg \in Nat /\ c.m5.zd \in Nat /\ c.m30.zd \in Nat
      BY LatestIsAPoint DEF Points, Facts, LevelFacts
    <3> QED
      BY <3>1 DEF BoundaryOf, InvalidationBoundary, Boundary
  <2> QED
    BY <2>1 DEF PathBoundaries, Breaks
<1> QED
  BY <1>1, <1>2, <1>3, <1>4

-----------------------------------------------------------------------------
ChainInv == chain \in Facts /\ deduction \in {NoDeduction, Deduction(chain)}

LEMMA ChainViews == ASSUME ChainInv PROVE ViewsAgree
<1> SUFFICES ASSUME Told PROVE ViewsAgree
  BY DEF ViewsAgree
<1>1. chain \in Facts /\ deduction = Deduction(chain) /\ Status = Verdict(chain)
  BY StatusOf DEF ChainInv, Told, Status
<1>2. {b \in {"A", "B", "C"} : deduction.branches[b] # "WATCH"} = {CurrentBranch(Verdict(chain))}
      /\ Verdict(chain) \in Verdicts
  BY <1>1, BranchesOf
<1>3. CASE Verdict(chain) \in Triggers
  BY <1>1, <1>2, <1>3, TriggerTells DEF ViewsAgree, CurrentBranch, Triggers
<1>4. CASE Verdict(chain) \notin Triggers
  BY <1>1, <1>2, <1>4, OtherTells DEF ViewsAgree, CurrentBranch, Triggers
<1> QED
  BY <1>3, <1>4

(* build_level_chain_deduction: for all facts, one branch is current and   *)
(* it is the one that status, roles, candidate and boundaries speak of,    *)
(* and no rise of the price takes a path back (ChainSound).                *)
THEOREM DeductionsAreSound == ChainSpec => []ChainSound
<1>1. ChainInit => ChainInv
  BY ChainsAssumption DEF ChainInit, ChainInv, Facts
<1>2. ChainInv /\ [ChainNext]_chainVars => ChainInv'
  BY DEF ChainInv, ChainNext, Deduce, chainVars
<1>3. ChainInv => ChainSound
  <2> SUFFICES ASSUME ChainInv PROVE ChainSound
    OBVIOUS
  <2>1. HigherIsNoWorse
    <3> SUFFICES ASSUME Told, chain.m5.price > 0, NEW rise \in 1..4
                 PROVE  Rank(Status) <=
                           Rank(Deduction([chain EXCEPT !.m5.price = @ + rise]).status)
      BY DEF HigherIsNoWorse
    <3>1. chain \in Facts /\ Status = Deduction(chain).status /\ rise \in Nat
      BY DEF ChainInv, Told, Status
    <3> QED
      BY <3>1, RiseIsNoWorse, Zenon
  <2> QED
    BY <2>1, ChainViews DEF ChainSound
<1> QED
  BY <1>1, <1>2, <1>3, PTL DEF ChainSpec

-----------------------------------------------------------------------------

(* A decision is a watch, an order or a held leg, and an order in a waiting *)
(* state goes back.                                                         *)
LEMMA DecisionKinds ==
    ASSUME stage \in StageRecords, OneStage, NEW f \in Features, NEW p
    PROVE  LET d == Decision(f, p)
           IN  /\ d.kind \in {"watch", "order", "pending"}
               /\ d.kind = "order" => d.side \in TradeSides
               /\ d.kind = "order" /\ stage.waiting => d.side = Opposite(stage.first)
               /\ d.kind = "pending" => d.side \in TradeSides /\ ~stage.waiting
<1> DEFINE e == Evaluate(f, p)
<1>1. f.agrees => f.side \in TradeSides
  BY DEF Features
<1>2. FirstLeg(f, p) \in {NoOrder, Held(f.side), Order(f.side)}
      /\ (FirstLeg(f, p) # NoOrder => f.agrees)
  BY DEF FirstLeg
<1>3. ConfirmPending(f) \in {NoOrder, Order(stage.pending)}
  BY DEF ConfirmPending
<1>4. /\ {stage.pending, stage.first} \subseteq TradeSides \cup {"none"}
      /\ stage.waiting \in BOOLEAN
  BY DEF StageRecords
<1>5. CASE stage.waiting
  <2>1. e \in {NoOrder, Order(Opposite(stage.first))}
    BY <1>5 DEF Evaluate
  <2>2. Opposite(stage.first) \in TradeSides
    BY DEF Opposite, TradeSides
  <2>3. Decision(f, p) \in {NoOrder, Order(Opposite(stage.first))}
    BY <2>1 DEF Decision
  <2> QED BY <1>5, <2>2, <2>3 DEF NoOrder, Order
<1>6. CASE ~stage.waiting
  <2>1. e = NoOrder \/ e = FirstLeg(f, p) \/ (e = ConfirmPending(f) /\ stage.pending # "none")
    BY <1>6 DEF Evaluate
  <2>2. e = NoOrder \/ (e \in {Held(f.side), Order(f.side)} /\ f.side \in TradeSides)
                  \/ (e = Order(stage.pending) /\ stage.pending \in TradeSides)
    BY <2>1, <1>1, <1>2, <1>3, <1>4
  <2>3. Decision(f, p) \in {NoOrder, e}
    BY DEF Decision
  <2> QED BY <1>6, <2>2, <2>3 DEF NoOrder, Order, Held
<1> QED BY <1>5, <1>6

(* A fill moves the total by Qty and leaves the base alone.                 *)
LEMMA FillKeepsBase ==
    ASSUME account \in AccountRecords, BaseProtected, NEW side \in TradeSides,
           NEW price \in Int, RiskOk(side), CostOf(side) \in Int
    PROVE  LET a == Traded(side, price)
           IN  /\ a \in AccountRecords
               /\ a.total = account.total + (IF side = "BUY" THEN Qty ELSE -Qty)
               /\ a.available = StartAvailable \/ a.available >= Base
<1>1. /\ account.cash \in Int /\ account.total \in Int /\ account.available \in Int
      /\ account.trades \in Nat
  BY DEF AccountRecords
<1>2. Qty \in Nat /\ Base \in Nat /\ Qty > 0
  BY PaperAssumption
<1>3. CASE side = "BUY"
  BY <1>1, <1>2, <1>3 DEF Traded, AccountRecords, BaseProtected
<1>4. CASE side = "SELL"
  <2>1. SellableT >= Qty
    BY <1>4 DEF RiskOk, Affordable
  <2>3. account.available - Base >= Qty
    BY <1>1, <1>2, <2>1 DEF SellableT
  <2> DEFINE left == IF account.available > Qty THEN account.available - Qty ELSE 0
  <2>4. left \in Int /\ left >= Base
    BY <1>1, <1>2, <2>3
  <2>5. price * Qty \in Int
    BY <1>2
  <2> QED BY <1>1, <1>2, <1>4, <2>4, <2>5 DEF Traded, AccountRecords
<1> QED BY <1>3, <1>4 DEF TradeSides

-----------------------------------------------------------------------------
LEMMA InitPosition == PaperInit => PositionKept
<1> SUFFICES ASSUME PaperInit PROVE PositionKept
  OBVIOUS
<1>a. /\ account = [cash |-> StartCash, total |-> StartTotal,
                     available |-> StartAvailable, last |-> StartPrice, trades |-> 0]
      /\ stage = NoT
  BY DEF PaperInit
<1>1. account \in AccountRecords
  BY ONLY <1>a, PaperAssumption DEF AccountRecords
<1>2. stage \in StageRecords
  BY ONLY <1>a DEF NoT, StageRecords, TradeSides
<1>3. CycleBack /\ BaseProtected /\ OneStage
  BY ONLY <1>a, PaperAssumption DEF NoT, CycleBack, BaseProtected, OneStage
<1> QED BY <1>1, <1>2, <1>3 DEF PositionKept, PaperTypeOK

(* A bar without an order moves only the counters of the stage.             *)
LEMMA WatchingKeepsPosition ==
    ASSUME PositionKept, NEW f \in Features, NEW p, Watches(f, Decision(f, p))
    PROVE  PositionKept'
<1> DEFINE d == Decision(f, p)
<1>1. /\ stage \in StageRecords /\ OneStage /\ CycleBack /\ BaseProtected
      /\ account \in AccountRecords
  BY DEF PositionKept, PaperTypeOK
<1>2. d.kind \in {"watch", "order", "pending"}
      /\ (d.kind = "pending" => d.side \in TradeSides /\ ~stage.waiting)
  BY <1>1, DecisionKinds
<1> HIDE DEF d
<1>3. account' = account
  BY DEF Watches
<1>4. /\ stage' \in StageRecords
      /\ stage'.waiting = stage.waiting
      /\ stage.waiting => stage'.first = stage.first
      /\ ~stage.waiting => stage'.first = "none"
      /\ stage.waiting => stage'.pending = stage.pending
  <2>1. CASE d.kind = "pending"
    <3>1. stage' = [NoT EXCEPT !.pending = d.side, !.event = f.event, !.since = 1]
      BY <2>1 DEF Watches, d
    <3>2. f.event \in Int
      <4>1. f.event \in BarPrices
        BY ONLY f \in Features DEF Features
      <4>2. BarPrices \subseteq Int
        BY PaperAssumption
      <4> QED BY <4>1, <4>2
    <3> QED BY <1>1, <1>2, <2>1, <3>1, <3>2 DEF NoT, StageRecords, OneStage, TradeSides
  <2>2. CASE d.kind # "pending"
    <3>1. \/ stage' = [stage EXCEPT !.since = @ + 1]
          \/ stage' = [stage EXCEPT !.bars = @ + 1]
          \/ stage' = stage
      BY <2>2 DEF Watches, d
    <3> QED BY <1>1, <3>1 DEF StageRecords, OneStage, TradeSides
  <2> QED BY <2>1, <2>2
<1>5. CycleBack'
  BY <1>1, <1>3, <1>4 DEF CycleBack, OneStage
<1>6. BaseProtected'
  BY <1>1, <1>3 DEF BaseProtected
<1>7. OneStage'
  BY <1>1, <1>4 DEF OneStage, StageRecords
<1> QED BY <1>1, <1>3, <1>4, <1>5, <1>6, <1>7 DEF PositionKept, PaperTypeOK

(* A fill opens a T from flat or brings an open one back.                   *)
LEMMA FillKeepsPosition ==
    ASSUME PositionKept, NEW f \in Features, NEW nb \in NextBars,
           Filled(f, Decision(f, ParentOf(f)), nb)
    PROVE  PositionKept'
<1> DEFINE d == Decision(f, ParentOf(f))
           price == FillPrice(d.side, nb.open)
<1>1. /\ stage \in StageRecords /\ OneStage /\ CycleBack /\ BaseProtected
      /\ account \in AccountRecords
  BY DEF PositionKept, PaperTypeOK
<1>2. /\ d.kind = "order" /\ d.side \in TradeSides
      /\ stage.waiting => d.side = Opposite(stage.first)
  BY <1>1, DecisionKinds DEF Filled
<1>3. /\ RiskOk(d.side)
      /\ account' = Traded(d.side, price)
      /\ stage' = IF stage.waiting THEN NoT ELSE [NoT EXCEPT !.waiting = TRUE, !.first = d.side]
  BY DEF Filled
<1> HIDE DEF d
<1>4. price \in Int /\ CostOf(d.side) \in Int
  <2>1. nb.open \in Int
    <3>1. nb.open \in BarPrices
      BY ONLY nb \in NextBars DEF NextBars
    <3>2. BarPrices \subseteq Int
      BY PaperAssumption
    <3> QED BY <3>1, <3>2
  <2> QED BY <2>1, PaperAssumption DEF FillPrice, CostOf
<1> HIDE DEF price
<1>5. /\ account' \in AccountRecords
      /\ account'.total = account.total + (IF d.side = "BUY" THEN Qty ELSE -Qty)
      /\ account'.available = StartAvailable \/ account'.available >= Base
  BY <1>1, <1>2, <1>3, <1>4, FillKeepsBase
<1>6. stage.waiting \in BOOLEAN /\ stage.first \in TradeSides \cup {"none"}
      /\ account.total \in Int /\ Qty \in Nat /\ StartTotal \in Nat
  BY <1>1, PaperAssumption DEF StageRecords, AccountRecords
<1>7. CASE stage.waiting
  <2>1. stage' = NoT
    BY <1>3, <1>7
  <2>2. stage' \in StageRecords /\ OneStage' /\ ~stage'.waiting
    BY <2>1 DEF NoT, StageRecords, OneStage, TradeSides
  <2>3. stage.first \in TradeSides
    BY <1>1, <1>6, <1>7 DEF OneStage
  <2>4. account'.total = StartTotal
    BY <1>1, <1>2, <1>5, <1>6, <1>7, <2>3 DEF CycleBack, Opposite, TradeSides
  <2>5. CycleBack'
    BY <2>2, <2>4, <1>6 DEF CycleBack
  <2> QED BY <1>5, <2>2, <2>5 DEF PositionKept, PaperTypeOK, BaseProtected
<1>8. CASE ~stage.waiting
  <2>1. stage' = [NoT EXCEPT !.waiting = TRUE, !.first = d.side]
    BY <1>3, <1>8
  <2>2. stage'.waiting /\ stage'.first = d.side /\ stage'.pending = "none"
    BY <2>1 DEF NoT
  <2>a. stage' \in StageRecords
    <3>1. NoT \in StageRecords
      BY DEF NoT, StageRecords, TradeSides
    <3>2. d.side \in TradeSides \cup {"none"}
      BY <1>2
    <3> QED BY <2>1, <3>1, <3>2 DEF StageRecords
  <2>b. OneStage'
    BY <1>2, <2>2 DEF OneStage, TradeSides
  <2>3. account.total = StartTotal
    BY <1>1, <1>6, <1>8 DEF CycleBack
  <2>4. CycleBack'
    BY <1>2, <1>5, <1>6, <2>2, <2>3 DEF CycleBack, TradeSides
  <2> QED BY <1>5, <2>a, <2>b, <2>4 DEF PositionKept, PaperTypeOK, BaseProtected
<1> QED BY <1>6, <1>7, <1>8

LEMMA NextKeepsPosition == PositionKept /\ [PaperNext]_paperVars => PositionKept'
<1> SUFFICES ASSUME PositionKept, [PaperNext]_paperVars PROVE PositionKept'
  OBVIOUS
<1>1. ASSUME UNCHANGED <<account, stage>> PROVE PositionKept'
  BY <1>1 DEF PositionKept, PaperTypeOK, CycleBack, BaseProtected, OneStage
<1>2. ASSUME Step PROVE PositionKept'
  <2>1. PICK f \in Features :
            \/ Watches(f, Decision(f, ParentOf(f)))
            \/ NoBar(f, Decision(f, ParentOf(f)))
            \/ \E nb \in NextBars : \/ Refused(f, Decision(f, ParentOf(f)), nb)
                                    \/ Filled(f, Decision(f, ParentOf(f)), nb)
    BY <1>2 DEF Step
  <2>2. CASE Watches(f, Decision(f, ParentOf(f)))
    BY <2>2, WatchingKeepsPosition
  <2>3. CASE NoBar(f, Decision(f, ParentOf(f)))
    BY <1>1, <2>3 DEF NoBar
  <2>4. CASE \E nb \in NextBars : \/ Refused(f, Decision(f, ParentOf(f)), nb)
                                  \/ Filled(f, Decision(f, ParentOf(f)), nb)
    <3>1. PICK nb \in NextBars : \/ Refused(f, Decision(f, ParentOf(f)), nb)
                                 \/ Filled(f, Decision(f, ParentOf(f)), nb)
      BY <2>4
    <3>2. CASE Refused(f, Decision(f, ParentOf(f)), nb)
      BY <1>1, <3>2 DEF Refused
    <3>3. CASE Filled(f, Decision(f, ParentOf(f)), nb)
      BY <3>3, FillKeepsPosition
    <3> QED BY <3>1, <3>2, <3>3
  <2> QED BY <2>1, <2>2, <2>3, <2>4
<1>3. ASSUME SaveResult PROVE PositionKept'
  BY <1>1, <1>3 DEF SaveResult
<1>4. ASSUME UNCHANGED paperVars PROVE PositionKept'
  BY <1>1, <1>4 DEF paperVars
<1> QED BY <1>2, <1>3, <1>4 DEF PaperNext

(* Whatever bars, refusals, limits and configurations a replay meets, flat   *)
(* it holds what it began with, between the legs Qty more or less, and the   *)
(* base is never sold.                                                       *)
THEOREM PositionIsKept == PaperSpec => []PositionKept
  BY InitPosition, NextKeepsPosition, PTL DEF PaperSpec

-----------------------------------------------------------------------------
(* The metrics of a replay: sums of sequences, and what a further fill     *)
(* changes of the pairs.                                                   *)

SumsOf(s) == CHOOSE f : f = [n \in 0..Len(s) |-> IF n = 0 THEN 0 ELSE f[n - 1] + s[n]]

LEMMA TotalIsASum ==
    ASSUME NEW s
    PROVE  Total(s) = SumsOf(s)[Len(s)]
BY DEF Total, SumsOf

Sums(s, n, f) ==
    /\ f \in [0..n -> Int] /\ f[0] = 0
    /\ \A k \in 1..n : f[k] = f[k - 1] + s[k]

LEMMA SumsExist ==
    ASSUME NEW s \in Seq(Int)
    PROVE  \E f : Sums(s, Len(s), f)
<1> DEFINE Bad == {n \in 0..Len(s) : ~\E f : Sums(s, n, f)}
<1>0. Len(s) \in Nat /\ \A k \in 1..Len(s) : s[k] \in Int
  OBVIOUS
<1>1. SUFFICES Bad = {}
  BY <1>0
<1>2. SUFFICES ASSUME Bad # {} PROVE FALSE
  OBVIOUS
<1>3. PICK n \in Bad : \A k \in Bad : n <= k
  <2>1. Bad \subseteq Nat
    BY <1>0
  <2> QED
    BY <1>2, <2>1, LeastNatural
<1>4. n # 0
  <2> SUFFICES Sums(s, 0, [k \in 0..0 |-> 0])
    BY <1>3
  <2> QED
    BY DEF Sums
<1>5. n \in Nat /\ n - 1 \in 0..Len(s) /\ n \in 1..Len(s) /\ n - 1 \notin Bad
  <2>1. n \in 0..Len(s)
    BY <1>3
  <2> HIDE DEF Bad
  <2>2. n \in Nat /\ n - 1 \in 0..Len(s) /\ n \in 1..Len(s) /\ ~(n <= n - 1)
    BY <1>0, <1>4, <2>1
  <2> QED
    BY <1>3, <2>2
<1>6. PICK f : Sums(s, n - 1, f)
  BY <1>5
<1> DEFINE g == [k \in 0..n |-> IF k = n THEN f[n - 1] + s[n] ELSE f[k]]
<1>7. /\ f \in [0..(n - 1) -> Int] /\ f[0] = 0 /\ s[n] \in Int
      /\ \A k \in 1..(n - 1) : f[k] = f[k - 1] + s[k]
  BY <1>0, <1>5, <1>6 DEF Sums
<1>8. g \in [0..n -> Int] /\ g[0] = 0
  BY <1>4, <1>5, <1>7
<1>9. ASSUME NEW k \in 1..n PROVE g[k] = g[k - 1] + s[k]
  <2>1. k \in 0..n /\ k - 1 \in 0..n /\ k - 1 # n
    BY <1>5
  <2>2. g[k - 1] = f[k - 1]
    BY <2>1
  <2>3. CASE k = n
    BY <2>1, <2>2, <2>3
  <2>4. CASE k # n
    <3>1. k \in 1..(n - 1)
      BY <1>5, <2>4
    <3> QED
      BY <1>7, <2>1, <2>2, <2>4, <3>1
  <2> QED
    BY <2>3, <2>4
<1>10. Sums(s, n, g)
  BY <1>8, <1>9 DEF Sums
<1> QED
  BY <1>3, <1>10

LEMMA SumsAreSums ==
    ASSUME NEW s \in Seq(Int)
    PROVE  Sums(s, Len(s), SumsOf(s))
<1> DEFINE F == SumsOf(s)
<1>0. Len(s) \in Nat
  OBVIOUS
<1>1. PICK f : Sums(s, Len(s), f)
  BY SumsExist
<1>2. f = [n \in 0..Len(s) |-> IF n = 0 THEN 0 ELSE f[n - 1] + s[n]]
  BY <1>0, <1>1 DEF Sums
<1>3. F = [n \in 0..Len(s) |-> IF n = 0 THEN 0 ELSE F[n - 1] + s[n]]
  BY <1>2 DEF SumsOf
<1> HIDE DEF F
<1>4. \A k \in 0..Len(s) : F[k] = f[k]
  <2> DEFINE Bad == {k \in 0..Len(s) : F[k] # f[k]}
  <2>1. SUFFICES ASSUME Bad # {} PROVE FALSE
    OBVIOUS
  <2>2. PICK n \in Bad : \A k \in Bad : n <= k
    <3>1. Bad \subseteq Nat
      BY <1>0
    <3> QED
      BY <2>1, <3>1, LeastNatural
  <2>3. n # 0
    BY <1>0, <1>3, <1>2, <2>2
  <2>4. n - 1 \in 0..Len(s) /\ n - 1 \notin Bad
    BY <1>0, <2>2, <2>3
  <2>5. F[n - 1] = f[n - 1]
    BY <2>4
  <2>6. n \in 0..Len(s) /\ F[n] # f[n]
    BY <2>2
  <2>7. F[n] = F[n - 1] + s[n] /\ f[n] = f[n - 1] + s[n]
    <3>1. F[n] = F[n - 1] + s[n]
      BY ONLY <1>3, <2>3, <2>6
    <3>2. f[n] = f[n - 1] + s[n]
      BY ONLY <1>2, <2>3, <2>6
    <3> QED
      BY <3>1, <3>2
  <2> QED
    BY ONLY <2>5, <2>6, <2>7
<1>5. F = f
  BY <1>2, <1>3, <1>4
<1> QED
  BY <1>1, <1>5 DEF F

(* A further amount adds to the sum.                                       *)
LEMMA TotalGrows ==
    ASSUME NEW s \in Seq(Int), NEW x \in Int
    PROVE  Total(s) \in Int /\ Total(Append(s, x)) = Total(s) + x
<1> DEFINE F == SumsOf(s)
           G == SumsOf(Append(s, x))
           n == Len(s)
<1>0. /\ n \in Nat /\ Append(s, x) \in Seq(Int) /\ Len(Append(s, x)) = n + 1
      /\ Append(s, x)[n + 1] = x /\ \A k \in 1..n : Append(s, x)[k] = s[k]
  OBVIOUS
<1>1. Sums(s, n, F) /\ Sums(Append(s, x), n + 1, G)
  BY <1>0, SumsAreSums
<1>2. Total(s) = F[n] /\ Total(Append(s, x)) = G[n + 1]
  BY <1>0, TotalIsASum
<1> HIDE DEF F, G, n
<1>3. \A k \in 0..n : F[k] = G[k]
  <2> DEFINE Bad == {k \in 0..n : F[k] # G[k]}
  <2>1. SUFFICES ASSUME Bad # {} PROVE FALSE
    OBVIOUS
  <2>2. PICK m \in Bad : \A k \in Bad : m <= k
    <3>1. Bad \subseteq Nat
      BY <1>0
    <3> QED
      BY <2>1, <3>1, LeastNatural
  <2>3. m # 0
    BY <1>1, <2>2 DEF Sums
  <2>4. m \in 1..n /\ m \in 1..(n + 1) /\ m - 1 \in 0..n /\ m - 1 \notin Bad
    BY <1>0, <2>2, <2>3
  <2>5. F[m - 1] = G[m - 1]
    BY <2>4
  <2>6. F[m] = F[m - 1] + s[m] /\ G[m] = G[m - 1] + Append(s, x)[m]
    BY <1>1, <2>4 DEF Sums
  <2> QED
    BY <1>0, <2>2, <2>4, <2>5, <2>6
<1>4. G[n + 1] = G[n] + x /\ F[n] = G[n] /\ F[n] \in Int
  BY <1>0, <1>1, <1>3 DEF Sums
<1> QED
  BY <1>2, <1>4

LEMMA FilledLegsAreFinite ==
    ASSUME NEW S, fills \in Seq(S)
    PROVE  /\ Len(fills) \in Nat /\ DOMAIN fills = 1..Len(fills)
           /\ FilledLegs \subseteq 1..Len(fills) /\ IsFiniteSet(FilledLegs)
           /\ Cardinality(FilledLegs) \in Nat /\ Opening \subseteq FilledLegs
<1>1. Len(fills) \in Nat /\ DOMAIN fills = 1..Len(fills)
  OBVIOUS
<1>2. FilledLegs \subseteq 1..Len(fills)
  BY <1>1 DEF FilledLegs
<1>3. IsFiniteSet(FilledLegs)
  <2>1. IsFiniteSet(1..Len(fills))
    BY <1>1, FS_Interval
  <2> QED
    BY <1>2, <2>1, FS_Subset
<1> QED
  BY <1>1, <1>2, <1>3, FS_CardinalityType DEF Opening

(* A further fill leaves the places and the pairs of the others.           *)
LEMMA OthersKeepPlaces ==
    ASSUME NEW S, fills \in Seq(S), NEW x \in S, fills' = Append(fills, x)
    PROVE  LET n == Len(fills)
           IN  /\ fills' \in Seq(S) /\ Len(fills)' = n + 1
               /\ DOMAIN fills' = 1..(n + 1)
               /\ fills'[n + 1] = x /\ \A i \in 1..n : fills'[i] = fills[i]
               /\ x.filled => FilledLegs' = FilledLegs \cup {n + 1}
               /\ ~x.filled => FilledLegs' = FilledLegs
               /\ \A i \in 1..n : LegPlace(i)' = LegPlace(i) /\ LegBefore(i)' = LegBefore(i)
<1> DEFINE n == Len(fills)
<1>1. n \in Nat /\ DOMAIN fills = 1..n /\ FilledLegs \subseteq 1..n
  BY FilledLegsAreFinite
<1>2. /\ fills' \in Seq(S) /\ Len(fills)' = n + 1 /\ DOMAIN fills' = 1..(n + 1)
      /\ fills'[n + 1] = x /\ \A i \in 1..n : fills'[i] = fills[i]
  BY <1>1
<1> HIDE DEF n
<1>3. /\ x.filled => FilledLegs' = FilledLegs \cup {n + 1}
      /\ ~x.filled => FilledLegs' = FilledLegs
  BY <1>1, <1>2 DEF FilledLegs
<1>4. ASSUME NEW i \in 1..n
      PROVE  LegPlace(i)' = LegPlace(i) /\ LegBefore(i)' = LegBefore(i)
  <2>1. i \in Nat /\ i <= n /\ ~(n + 1 <= i) /\ ~(n + 1 < i)
    BY <1>1
  <2>2. {k \in FilledLegs : k <= i}' = {k \in FilledLegs : k <= i}
    BY <1>3, <2>1
  <2>3. {k \in FilledLegs : k < i}' = {k \in FilledLegs : k < i}
    BY <1>3, <2>1
  <2> QED
    BY <2>2, <2>3 DEF LegPlace, LegBefore
<1> QED
  BY <1>2, <1>3, <1>4 DEF n

(* A leg of an even place has one before it.                               *)
LEMMA ClosingsFollow ==
    ASSUME NEW S, fills \in Seq(S), NEW i \in FilledLegs \ Opening
    PROVE  LegBefore(i) \in FilledLegs /\ LegBefore(i) < i
<1> DEFINE before == {k \in FilledLegs : k < i}
           n == Len(fills)
<1>1. FilledLegs \subseteq 1..n /\ IsFiniteSet(FilledLegs) /\ n \in Nat /\ i \in 1..n
  BY FilledLegsAreFinite
<1> HIDE DEF n
<1>2. before # {}
  <2>1. SUFFICES ASSUME before = {} PROVE FALSE
    OBVIOUS
  <2>2. {k \in FilledLegs : k <= i} = {i}
    <3>1. \A k \in FilledLegs : k \in Nat /\ ~(k < i)
      BY <1>1, <2>1
    <3>2. \A k \in FilledLegs : k <= i <=> k = i
      BY <1>1, <3>1
    <3> QED
      BY <3>2
  <2>3. LegPlace(i) = 1
    BY <2>2, FS_Singleton DEF LegPlace
  <2> QED
    BY <2>3 DEF Opening
<1>3. before \subseteq 0..n
  <2>1. before \subseteq FilledLegs
    OBVIOUS
  <2>2. 1..n \subseteq 0..n
    BY <1>1
  <2> HIDE DEF before
  <2> QED
    BY <1>1, <2>1, <2>2
<1> HIDE DEF before
<1>4. \E k \in before : \A m \in before : m <= k
  BY <1>1, <1>2, <1>3, GreatestBelow
<1>5. Greatest(before) \in before
  BY <1>4 DEF Greatest
<1> QED
  BY <1>5 DEF LegBefore, before

FillRecords ==
    [ serial : Nat, side : TradeSides, price : Int, filled : BOOLEAN,
      events : SUBSET (TradeSides \X Int), stay : Nat, planned : BOOLEAN ]

LEMMA CostsAreNumbers == Qty \in Nat /\ \A side : CostOf(side) \in Int
BY PaperAssumption DEF CostOf

LEMMA ProductsDiffer ==
    ASSUME NEW a \in Int, NEW b \in Int, NEW q \in Int
    PROVE  (a - b) * q \in Int /\ a * q \in Int /\ (a - b) * q = a * q - b * q
OBVIOUS

LEMMA NextIsOdd ==
    ASSUME NEW c \in Nat
    PROVE  (c % 2 = 0 => (c + 1) % 2 = 1) /\ (c % 2 = 1 => (c + 1) % 2 = 0)
OBVIOUS

LEMMA GainsAreNumbers ==
    ASSUME fills \in Seq(FillRecords), NEW i \in DOMAIN fills
    PROVE  Gain(i) \in Int
<1>1. CASE i \in FilledLegs \ Opening
  <2>1. LegBefore(i) \in DOMAIN fills
    BY <1>1, ClosingsFollow, FilledLegsAreFinite
  <2>2. fills[i] \in FillRecords /\ fills[LegBefore(i)] \in FillRecords
    BY <2>1
  <2>3. fills[i].price \in Int /\ fills[LegBefore(i)].price \in Int
    BY <2>2 DEF FillRecords
  <2> DEFINE a == fills[LegBefore(i)]
             b == fills[i]
  <2>4. /\ Qty \in Int /\ CostOf("BUY") \in Int /\ CostOf("SELL") \in Int
        /\ a.price \in Int /\ b.price \in Int
    BY <2>3, CostsAreNumbers
  <2>5. Gain(i) = CyclePnl(a, b)
    BY <1>1 DEF Gain
  <2> HIDE DEF a, b
  <2>6. (a.price - b.price) * Qty \in Int /\ (b.price - a.price) * Qty \in Int
    BY <2>4, ProductsDiffer
  <2>7. CyclePnl(a, b) \in Int
    BY ONLY <2>4, <2>6 DEF CyclePnl
  <2> QED
    BY <2>5, <2>7
<1>2. CASE i \notin FilledLegs \ Opening
  BY <1>2 DEF Gain
<1> QED
  BY <1>1, <1>2

(* A further fill adds its gain to the profit of the metrics.              *)
LEMMA ProfitGrows ==
    ASSUME fills \in Seq(FillRecords), NEW x \in FillRecords, fills' = Append(fills, x),
           NEW n, n = Len(fills), Gain(n + 1)' \in Int
    PROVE  NetPnl \in Int /\ NetPnl' = NetPnl + Gain(n + 1)'
<1> DEFINE gains == [i \in DOMAIN fills |-> Gain(i)]
<1>1. n \in Nat /\ DOMAIN fills = 1..n /\ FilledLegs \subseteq 1..n
  BY FilledLegsAreFinite
<1>2. /\ fills' \in Seq(FillRecords) /\ DOMAIN fills' = 1..(n + 1)
      /\ \A i \in 1..n : fills'[i] = fills[i]
      /\ FilledLegs' = FilledLegs \cup {n + 1} \/ FilledLegs' = FilledLegs
      /\ \A i \in 1..n : LegPlace(i)' = LegPlace(i) /\ LegBefore(i)' = LegBefore(i)
  <2>1. x.filled \in BOOLEAN
    BY DEF FillRecords
  <2> QED
    BY <2>1, OthersKeepPlaces
<1>3. \A i \in 1..n : Gain(i) \in Int
  BY <1>1, GainsAreNumbers
<1>4. Gain(n + 1)' \in Int
  OBVIOUS
<1>5. ASSUME NEW i \in 1..n PROVE Gain(i)' = Gain(i)
  <2>1. i \in FilledLegs' <=> i \in FilledLegs
    BY <1>1, <1>2
  <2>2. i \in Opening' <=> i \in Opening
    BY <1>2, <2>1 DEF Opening
  <2>3. CASE i \in FilledLegs \ Opening
    <3>1. LegBefore(i) \in 1..n
      BY <1>1, <2>3, ClosingsFollow
    <3>2. /\ fills'[i] = fills[i]
          /\ fills'[LegBefore(i)'] = fills[LegBefore(i)]
      BY <1>2, <3>1
    <3> QED
      BY <2>1, <2>2, <2>3, <3>2 DEF Gain, CyclePnl, CostOf
  <2>4. CASE i \notin FilledLegs \ Opening
    BY <2>1, <2>2, <2>4 DEF Gain
  <2> QED
    BY <2>3, <2>4
<1>6. gains \in Seq(Int) /\ Len(gains) = n /\ gains' = Append(gains, Gain(n + 1)')
  <2>1. gains \in [1..n -> Int]
    BY <1>1, <1>3
  <2>2. gains \in Seq(Int) /\ Len(gains) = n
    BY <1>1, <2>1
  <2>3. gains' = [i \in 1..(n + 1) |-> Gain(i)']
    BY <1>2
  <2>4. \A i \in 1..n : gains[i] = Gain(i)
    BY <1>1
  <2> HIDE DEF gains
  <2> DEFINE more == Append(gains, Gain(n + 1)')
  <2>5. /\ more \in Seq(Int) /\ Len(more) = n + 1 /\ more[n + 1] = Gain(n + 1)'
        /\ \A i \in 1..n : more[i] = gains[i]
    BY <1>1, <1>4, <2>2
  <2>6. DOMAIN more = 1..(n + 1)
    BY <1>1, <2>5
  <2> HIDE DEF more
  <2>7. ASSUME NEW i \in 1..(n + 1) PROVE more[i] = Gain(i)'
    <3>1. CASE i = n + 1
      BY <2>5, <3>1
    <3>2. CASE i # n + 1
      <4>1. i \in 1..n
        BY <1>1, <3>2
      <4> QED
        BY <1>5, <2>4, <2>5, <4>1
    <3> QED
      BY <3>1, <3>2
  <2>8. more = gains'
    BY <2>3, <2>5, <2>6, <2>7
  <2> QED
    BY <2>2, <2>8 DEF more
<1>7. NetPnl = Total(gains)
  BY DEF NetPnl
<1>8. NetPnl' = Total(gains')
  BY DEF NetPnl, Total
<1> HIDE DEF gains
<1> QED
  BY <1>4, <1>6, <1>7, <1>8, TotalGrows

(* A further filled leg has the next place, and goes with the last one.    *)
LEMMA FurtherPlace ==
    ASSUME NEW S, fills \in Seq(S), NEW x \in S, x.filled, fills' = Append(fills, x),
           NEW n, n = Len(fills)
    PROVE  /\ Cardinality(FilledLegs)' = Cardinality(FilledLegs) + 1
           /\ Cardinality(FilledLegs) % 2 = 0 => Opening' = Opening \cup {n + 1}
           /\ Cardinality(FilledLegs) % 2 = 1 => Opening' = Opening
           /\ LegBefore(n + 1)' = Greatest(FilledLegs)
<1> DEFINE c == Cardinality(FilledLegs)
<1>1. /\ n \in Nat /\ FilledLegs \subseteq 1..n /\ IsFiniteSet(FilledLegs) /\ c \in Nat
      /\ Opening \subseteq FilledLegs
  BY FilledLegsAreFinite
<1>2. /\ FilledLegs' = FilledLegs \cup {n + 1}
      /\ \A i \in 1..n : LegPlace(i)' = LegPlace(i)
  BY OthersKeepPlaces
<1>3. \A k \in FilledLegs : k \in Nat /\ k <= n /\ k < n + 1 /\ k <= n + 1 /\ k # n + 1
  BY <1>1
<1>4. (n + 1) \notin FilledLegs /\ n + 1 \in Nat /\ n + 1 <= n + 1 /\ ~(n + 1 < n + 1)
  BY <1>1, <1>3
<1>5. Cardinality(FilledLegs \cup {n + 1}) = c + 1
  BY <1>1, <1>4, FS_AddElement
<1>6. LegPlace(n + 1)' = c + 1
  <2>1. {k \in FilledLegs : k <= n + 1}' = FilledLegs \cup {n + 1}
    BY <1>2, <1>3, <1>4
  <2> QED
    BY <1>5, <2>1 DEF LegPlace
<1>7. LegBefore(n + 1)' = Greatest(FilledLegs)
  <2>1. {k \in FilledLegs : k < n + 1}' = FilledLegs
    BY <1>2, <1>3, <1>4
  <2> QED
    BY <2>1 DEF LegBefore, Greatest
<1> HIDE DEF c
<1>8. \A i : i \in Opening' <=> i \in Opening \/ (i = n + 1 /\ (c + 1) % 2 = 1)
  <2> TAKE i
  <2>1. CASE i = n + 1
    BY <1>1, <1>2, <1>4, <1>6, <2>1 DEF Opening
  <2>2. CASE i # n + 1
    <3>1. CASE i \in FilledLegs
      BY <1>1, <1>2, <2>2, <3>1 DEF Opening
    <3>2. CASE i \notin FilledLegs
      BY <1>1, <1>2, <2>2, <3>2 DEF Opening
    <3> QED
      BY <3>1, <3>2
  <2> QED
    BY <2>1, <2>2
<1>9. /\ c % 2 = 0 => (c + 1) % 2 = 1
      /\ c % 2 = 1 => (c + 1) % 2 # 1
  BY <1>1
<1>10. /\ c % 2 = 0 => Opening' = Opening \cup {n + 1}
       /\ c % 2 = 1 => Opening' = Opening
  BY <1>8, <1>9
<1>11. Cardinality(FilledLegs)' = c + 1
  BY <1>2, <1>5
<1> QED
  BY <1>7, <1>10, <1>11 DEF c

(* An order that is not filled changes nothing of the legs.                *)
LEMMA UnfilledKeepsLegs ==
    ASSUME fills \in Seq(FillRecords),
           \/ fills' = fills
           \/ \E x \in FillRecords : ~x.filled /\ fills' = Append(fills, x)
    PROVE  /\ fills' \in Seq(FillRecords) /\ FilledLegs' = FilledLegs /\ Opening' = Opening
           /\ \A i \in FilledLegs : fills'[i] = fills[i] /\ LegBefore(i)' = LegBefore(i)
           /\ NetPnl' = NetPnl
<1>1. CASE fills' = fills
  BY <1>1 DEF FilledLegs, Opening, LegPlace, LegBefore, Gain, NetPnl
<1>2. CASE \E x \in FillRecords : ~x.filled /\ fills' = Append(fills, x)
  <2>1. PICK x \in FillRecords : ~x.filled /\ fills' = Append(fills, x)
    BY <1>2
  <2> DEFINE n == Len(fills)
  <2>2. n \in Nat /\ FilledLegs \subseteq 1..n /\ Opening \subseteq FilledLegs
    BY FilledLegsAreFinite
  <2>3. /\ fills' \in Seq(FillRecords) /\ FilledLegs' = FilledLegs
        /\ \A i \in 1..n : /\ fills'[i] = fills[i] /\ LegPlace(i)' = LegPlace(i)
                           /\ LegBefore(i)' = LegBefore(i)
    BY <2>1, OthersKeepPlaces
  <2>4. \E m : m = Len(fills)
    OBVIOUS
  <2>5. PICK m : m = Len(fills)
    BY <2>4
  <2> HIDE DEF n
  <2>6. m = n
    BY <2>5 DEF n
  <2>7. m + 1 \notin FilledLegs'
    BY <2>2, <2>3, <2>6
  <2>8. Gain(m + 1)' = 0
    BY <2>7 DEF Gain
  <2>9. NetPnl \in Int /\ NetPnl' = NetPnl + 0
    BY <2>1, <2>5, <2>8, ProfitGrows
  <2>10. Opening' = Opening
    BY <2>2, <2>3 DEF Opening
  <2> QED
    BY <2>2, <2>3, <2>9, <2>10
<1> QED
  BY <1>1, <1>2

-----------------------------------------------------------------------------
(* What a replay's money, budget and events keep to.                       *)

Spent(leg) ==
    IF leg.side = "BUY" THEN -(leg.price * Qty) - CostOf("BUY")
                        ELSE leg.price * Qty - CostOf("SELL")

(* The legs alternate, and the cash is what the pairs gained and what the  *)
(* open leg brought.                                                       *)
MoneyInv ==
    /\ fills \in Seq(FillRecords)
    /\ Cardinality(FilledLegs) % 2 = IF stage.waiting THEN 1 ELSE 0
    /\ IF stage.waiting
       THEN LET open == fills[Greatest(FilledLegs)]
            IN  open.side = stage.first /\ account.cash = StartCash + NetPnl + Spent(open)
       ELSE account.cash = StartCash + NetPnl

ParentRecords ==
    [ leg : Legs \cup {NoLeg}, allowed : TradeSides \cup {"none"}, used : Nat,
      consumed : SUBSET (TradeSides \X Int) ]

(* The T's of a stay that are charged to its budget: all but the open one. *)
OpenT == IF stage.waiting THEN {Greatest(FilledLegs)} ELSE {}
Charged(s) == CyclesOf(s) \ OpenT

(* The stays are counted up; of the T's of the present one all but the     *)
(* open one are charged; a leg is planned or open within the budget, also  *)
(* one that another parent leg has planned or opened.                      *)
ParentInv ==
    /\ bar \in Nat /\ parent \in ParentRecords /\ (parent.leg = NoLeg => parent = NoParent)
    /\ stay \in Nat /\ (stay = 0 <=> parent.leg = NoLeg)
    /\ \A i \in FilledLegs : fills[i].stay <= stay
    /\ stay > 0 => Cardinality(Charged(stay)) <= parent.used
    /\ stage.pending # "none" => Confirm > 0
    /\ /\ stage.pending # "none" \/ stage.waiting
       /\ MaxCycles > 0 /\ parent # NoParent
       => parent.used < MaxCycles
    /\ CyclesInBudget

(* What the legs of the present stay have used is consumed.                *)
EventInv ==
    /\ \A i \in FilledLegs :
          fills[i].stay = stay /\ stay > 0 => fills[i].events \subseteq parent.consumed
    /\ EventOpensOnce

PaperInv == PositionKept /\ MoneyInv /\ ParentInv /\ EventInv

-----------------------------------------------------------------------------
(* The parent of a bar: the stay goes on, or another one starts afresh.    *)
LEMMA ParentGoesOn ==
    ASSUME parent \in ParentRecords, parent.leg = NoLeg => parent = NoParent,
           stay \in Nat, stay = 0 <=> parent.leg = NoLeg, NEW f \in Features
    PROVE  LET p == ParentOf(f)
               t == StayOf(f)
           IN  /\ p \in ParentRecords /\ (p.leg = NoLeg => p = NoParent)
               /\ t \in Nat /\ (t = 0 <=> p.leg = NoLeg) /\ t \in {stay, stay + 1}
               /\ t = stay => /\ p.used = parent.used /\ p.consumed = parent.consumed
                              /\ p.leg = parent.leg
               /\ t # stay => p.used = 0 /\ p.consumed = {}
<1> DEFINE p == ParentOf(f)
           t == StayOf(f)
<1>1. f.leg \in Legs /\ Legs \subseteq Nat \ {0} /\ NoLeg = 0
  BY PaperAssumption DEF Features, NoLeg
<1>2. Allows[f.leg] \in TradeSides \cup {"none"}
  BY <1>1, PaperAssumption DEF TradeSides
<1>3. parent.used \in Nat /\ parent.consumed \in SUBSET (TradeSides \X Int)
  BY DEF ParentRecords
<1>4. t = IF p.leg = parent.leg THEN stay ELSE stay + 1
  BY DEF StayOf
<1>5. CASE ~AutoParent \/ Allows[f.leg] = "none"
  <2>1. p = parent
    BY <1>5 DEF ParentOf
  <2> HIDE DEF p, t
  <2> QED
    BY <1>4, <2>1 DEF p, t
<1>6. CASE AutoParent /\ Allows[f.leg] # "none"
  <2>1. p = [leg |-> f.leg, allowed |-> Allows[f.leg],
             used |-> IF parent.leg = f.leg THEN parent.used ELSE 0,
             consumed |-> IF parent.leg = f.leg THEN parent.consumed ELSE {}]
    BY <1>6 DEF ParentOf
  <2>2. /\ p.leg = f.leg /\ p.leg # NoLeg
        /\ p.leg = parent.leg => p.used = parent.used /\ p.consumed = parent.consumed
        /\ p.leg # parent.leg => p.used = 0 /\ p.consumed = {}
    BY <1>1, <2>1
  <2>3. p \in ParentRecords
    <3>1. (IF parent.leg = f.leg THEN parent.used ELSE 0) \in Nat
      BY <1>3
    <3>2. (IF parent.leg = f.leg THEN parent.consumed ELSE {}) \in SUBSET (TradeSides \X Int)
      BY <1>3
    <3> QED
      BY <1>1, <1>2, <2>1, <3>1, <3>2 DEF ParentRecords
  <2> HIDE DEF p, t
  <2> QED
    BY <1>4, <2>2, <2>3 DEF p, t
<1> QED
  BY <1>5, <1>6

LEMMA FillsAreTyped ==
    ASSUME account \in AccountRecords, bar \in Nat, NEW f \in Features,
           StayOf(f) \in Nat, NEW side \in TradeSides, NEW price \in Int, NEW filled \in BOOLEAN
    PROVE  Fill(f, side, price, filled) \in FillRecords
<1>1. account.trades \in Nat
  BY DEF AccountRecords
<1>3. f.side \in TradeSides \cup {"none"} /\ bar - f.age \in Int
  <2>1. f.side \in TradeSides \cup {"none"} /\ f.age \in Ages
    BY DEF Features
  <2>2. Ages \subseteq Int
    BY PaperAssumption
  <2>3. f.age \in Int
    BY <2>1, <2>2
  <2>4. bar - f.age \in Int
    BY <2>3
  <2> QED
    BY <2>1, <2>4
<1>4. EventKeys(f) \in SUBSET (TradeSides \X Int)
  BY <1>3 DEF EventKeys
<1>5. (stage.pending # "none") \in BOOLEAN /\ account.trades + 1 \in Nat
  BY <1>1
<1> QED
  BY <1>4, <1>5 DEF Fill, FillRecords

(* A first leg was confirmed, or the parent lets it pass; so it does with  *)
(* one that is to be confirmed.                                            *)
LEMMA OpeningsAreAllowed ==
    ASSUME ~stage.waiting, NEW f \in Features, NEW p,
           Decision(f, p).kind \in {"order", "pending"}
    PROVE  LET d == Decision(f, p)
           IN  \/ d.kind = "order" /\ Confirm > 0 /\ stage.pending # "none"
               \/ /\ ~ParentBlocks(f.side, f, p)
                  /\ d.kind = "pending" => Confirm > 0
<1> DEFINE e == Evaluate(f, p)
<1>1. Decision(f, p) = e /\ e.kind \in {"order", "pending"}
  BY DEF Decision, NoOrder
<1>2. \/ e = NoOrder
      \/ e = ConfirmPending(f) /\ Confirm > 0 /\ stage.pending # "none"
      \/ e = FirstLeg(f, p)
  BY DEF Evaluate
<1> HIDE DEF e
<1>3. CASE e = ConfirmPending(f) /\ Confirm > 0 /\ stage.pending # "none"
  <2>1. e \in {NoOrder, Order(stage.pending)}
    BY <1>3 DEF ConfirmPending
  <2> QED
    BY <1>1, <1>3, <2>1 DEF NoOrder, Order
<1>4. CASE e = FirstLeg(f, p)
  <2>1. /\ e = NoOrder \/ ~ParentBlocks(f.side, f, p)
        /\ e \in {NoOrder, Order(f.side)} \/ (e = Held(f.side) /\ Confirm > 0)
    <3>1. CASE Confirm > 0
      BY <1>4, <3>1 DEF FirstLeg
    <3>2. CASE ~(Confirm > 0)
      BY <1>4, <3>2 DEF FirstLeg
    <3> QED
      BY <3>1, <3>2
  <2> QED
    BY <1>1, <2>1 DEF NoOrder, Order, Held
<1> QED
  BY <1>1, <1>2, <1>3, <1>4 DEF NoOrder

LEMMA FieldsOfFills ==
    ASSUME NEW x \in FillRecords
    PROVE  x.side \in TradeSides /\ x.price \in Int /\ x.filled \in BOOLEAN /\ x.stay \in Nat
BY DEF FillRecords

(* A T is named by the place of its first leg.                             *)
LEMMA CyclesAreCounted ==
    ASSUME fills \in Seq(FillRecords), NEW s
    PROVE  /\ CyclesOf(s) \subseteq FilledLegs
           /\ IsFiniteSet(CyclesOf(s)) /\ Cardinality(CyclesOf(s)) \in Nat
           /\ IsFiniteSet(Charged(s)) /\ Cardinality(Charged(s)) \in Nat
<1>1. Opening \subseteq FilledLegs /\ IsFiniteSet(FilledLegs)
  BY FilledLegsAreFinite
<1>2. \A k \in FilledLegs \ Opening : LegBefore(k) \in FilledLegs
  BY ClosingsFollow
<1>3. CyclesOf(s) \subseteq FilledLegs
  BY <1>1, <1>2 DEF CyclesOf
<1>4. IsFiniteSet(CyclesOf(s)) /\ IsFiniteSet(Charged(s))
  <2>1. Charged(s) \subseteq FilledLegs
    BY <1>3 DEF Charged
  <2> QED
    BY <1>1, <1>3, <2>1, FS_Subset
<1> QED
  BY <1>3, <1>4, FS_CardinalityType

(* What the legs so far are to the parent of a bar.                        *)
LEMMA LegsOfTheParent ==
    ASSUME PaperInv, NEW f \in Features
    PROVE  LET p == ParentOf(f)
               t == StayOf(f)
           IN  /\ p \in ParentRecords /\ (p.leg = NoLeg => p = NoParent)
               /\ t \in Nat /\ (t = 0 <=> p.leg = NoLeg) /\ t \in {stay, stay + 1}
               /\ \A i \in FilledLegs :
                     /\ fills[i].stay <= t
                     /\ fills[i].stay = t /\ t > 0 => fills[i].events \subseteq p.consumed
               /\ t > 0 => Cardinality(Charged(t)) <= p.used
               /\ t # stay => CyclesOf(t) = {}
               /\ /\ stage.pending # "none" \/ stage.waiting
                  /\ MaxCycles > 0 /\ p # NoParent
                  => p.used < MaxCycles
<1> DEFINE p == ParentOf(f)
           t == StayOf(f)
<1>1. /\ parent \in ParentRecords /\ (parent.leg = NoLeg => parent = NoParent)
      /\ stay \in Nat /\ (stay = 0 <=> parent.leg = NoLeg)
  BY DEF PaperInv, ParentInv
<1>2. /\ p \in ParentRecords /\ (p.leg = NoLeg => p = NoParent)
      /\ t \in Nat /\ (t = 0 <=> p.leg = NoLeg) /\ t \in {stay, stay + 1}
      /\ t = stay => p.used = parent.used /\ p.consumed = parent.consumed /\ p.leg = parent.leg
      /\ t # stay => p.used = 0 /\ p.consumed = {}
  BY <1>1, ParentGoesOn
<1> HIDE DEF p, t
<1>3. ASSUME NEW i \in FilledLegs
      PROVE  /\ fills[i].stay <= t /\ (fills[i].stay = t => t = stay)
             /\ fills[i].stay = t /\ t > 0 => fills[i].events \subseteq p.consumed
  <2>1. fills[i] \in FillRecords
    BY FilledLegsAreFinite DEF PaperInv, MoneyInv
  <2>2. fills[i].stay \in Nat
    BY <2>1, FieldsOfFills
  <2>3. /\ fills[i].stay <= stay
        /\ fills[i].stay = stay /\ stay > 0 => fills[i].events \subseteq parent.consumed
    BY DEF PaperInv, ParentInv, EventInv
  <2> QED
    BY <1>1, <1>2, <2>2, <2>3
<1>4. ASSUME t # stay PROVE CyclesOf(t) = {} /\ Cardinality(Charged(t)) = 0
  <2>1. \A i \in FilledLegs : fills[i].stay # t
    BY <1>3, <1>4
  <2>2. CyclesOf(t) = {}
    BY <2>1 DEF CyclesOf, Opening
  <2>3. Charged(t) = {}
    BY <2>2 DEF Charged
  <2> QED
    BY <2>2, <2>3, FS_EmptySet
<1>5. ASSUME t > 0 PROVE Cardinality(Charged(t)) <= p.used
  <2>1. CASE t = stay
    BY <1>2, <1>5, <2>1 DEF PaperInv, ParentInv
  <2>2. CASE t # stay
    BY <1>2, <1>4, <2>2
  <2> QED
    BY <2>1, <2>2
<1>6. ASSUME stage.pending # "none" \/ stage.waiting, MaxCycles > 0, p # NoParent
      PROVE  p.used < MaxCycles
  <2>1. CASE t = stay
    <3>1. parent # NoParent
      BY <1>2, <1>6, <2>1 DEF NoParent
    <3> QED
      BY <1>2, <1>6, <2>1, <3>1 DEF PaperInv, ParentInv
  <2>2. CASE t # stay
    BY <1>2, <1>6, <2>2
  <2> QED
    BY <2>1, <2>2
<1> QED
  BY <1>2, <1>3, <1>4, <1>5, <1>6 DEF p, t

LEMMA LastIsALeg ==
    ASSUME fills \in Seq(FillRecords), FilledLegs # {}
    PROVE  Greatest(FilledLegs) \in FilledLegs
<1> DEFINE n == Len(fills)
<1>1. n \in Nat /\ FilledLegs \subseteq 1..n
  BY FilledLegsAreFinite
<1> HIDE DEF n
<1>2. FilledLegs \subseteq 0..n
  <2>1. 1..n \subseteq 0..n
    BY <1>1
  <2> QED
    BY <1>1, <2>1
<1>3. \E k \in FilledLegs : \A m \in FilledLegs : m <= k
  BY <1>1, <1>2, GreatestBelow
<1> QED
  BY <1>3 DEF Greatest

(* A bar without a filled order.                                           *)
LEMMA UnfilledKeeps ==
    ASSUME PaperInv, NEW f \in Features,
           parent' = ParentOf(f), stay' = StayOf(f), account' = account, bar' \in Nat,
           stage'.waiting = stage.waiting, stage'.first = stage.first,
           stage'.pending # "none" =>
               \/ stage.pending # "none"
               \/ Confirm > 0 /\ ~ParentBlocks(f.side, f, ParentOf(f)),
           \/ fills' = fills
           \/ \E x \in FillRecords : ~x.filled /\ fills' = Append(fills, x)
    PROVE  MoneyInv' /\ ParentInv' /\ EventInv'
<1> DEFINE p == ParentOf(f)
           t == StayOf(f)
<1>1. /\ fills' \in Seq(FillRecords) /\ FilledLegs' = FilledLegs /\ Opening' = Opening
      /\ \A i \in FilledLegs : fills'[i] = fills[i] /\ LegBefore(i)' = LegBefore(i)
      /\ NetPnl' = NetPnl
  BY UnfilledKeepsLegs DEF PaperInv, MoneyInv
<1>2. /\ p \in ParentRecords /\ (p.leg = NoLeg => p = NoParent)
      /\ t \in Nat /\ (t = 0 <=> p.leg = NoLeg) /\ t \in {stay, stay + 1}
      /\ \A i \in FilledLegs :
            /\ fills[i].stay <= t
            /\ fills[i].stay = t /\ t > 0 => fills[i].events \subseteq p.consumed
      /\ t > 0 => Cardinality(Charged(t)) <= p.used
      /\ t # stay => CyclesOf(t) = {}
      /\ /\ stage.pending # "none" \/ stage.waiting
         /\ MaxCycles > 0 /\ p # NoParent
         => p.used < MaxCycles
  BY LegsOfTheParent
<1>3. parent' = p /\ stay' = t
  OBVIOUS
<1>4. /\ stage'.pending # "none" => Confirm > 0
      /\ /\ stage'.pending # "none" \/ stage'.waiting
         /\ MaxCycles > 0 /\ p # NoParent
         => p.used < MaxCycles
  <2>1. CASE stage.pending # "none" \/ stage'.pending = "none"
    BY <1>2, <2>1 DEF PaperInv, ParentInv
  <2>2. CASE ~ParentBlocks(f.side, f, p) /\ Confirm > 0
    <3>1. p.used \in Nat /\ MaxCycles \in Int
      BY <1>2, PaperAssumption DEF ParentRecords
    <3> QED
      BY <2>2, <3>1 DEF ParentBlocks
  <2> QED
    BY <2>1, <2>2
<1> HIDE DEF p, t
<1>5. MoneyInv'
  <2>1. MoneyInv
    BY DEF PaperInv
  <2>2. CASE stage.waiting
    <3>1. FilledLegs # {}
      <4>1. Cardinality(FilledLegs) % 2 = 1
        BY <2>1, <2>2 DEF MoneyInv
      <4>2. 0 % 2 # 1
        OBVIOUS
      <4> QED
        BY <4>1, <4>2, FS_EmptySet
    <3>2. Greatest(FilledLegs) \in FilledLegs
      BY <2>1, <3>1, LastIsALeg DEF MoneyInv
    <3>3. Greatest(FilledLegs)' = Greatest(FilledLegs)
      BY <1>1 DEF Greatest
    <3>4. fills[Greatest(FilledLegs)]' = fills[Greatest(FilledLegs)]
      BY <1>1, <3>2, <3>3
    <3> QED
      BY <1>1, <2>1, <2>2, <3>4 DEF MoneyInv, Spent, CostOf
  <2>3. CASE ~stage.waiting
    BY <1>1, <2>1, <2>3 DEF MoneyInv
  <2> QED
    BY <2>2, <2>3
<1>6. \A s : CyclesOf(s)' = CyclesOf(s) /\ Charged(s)' = Charged(s)
  <2> TAKE s
  <2>1. Opening \subseteq FilledLegs
    BY DEF Opening
  <2>2. CyclesOf(s)' = CyclesOf(s)
    <3>1. {i \in Opening : fills'[i].stay = s} = {i \in Opening : fills[i].stay = s}
      BY <1>1, <2>1
    <3>2. {i \in FilledLegs \ Opening : fills'[i].stay = s}
             = {i \in FilledLegs \ Opening : fills[i].stay = s}
      BY <1>1
    <3> QED
      BY <1>1, <3>1, <3>2 DEF CyclesOf
  <2>3. OpenT' = OpenT
    BY <1>1 DEF OpenT, Greatest
  <2> QED
    BY <2>2, <2>3 DEF Charged
<1>7. CyclesInBudget'
  <2> SUFFICES ASSUME MaxCycles > 0, NEW s \in 1..t PROVE Cardinality(CyclesOf(s)) <= MaxCycles
    BY <1>3, <1>6 DEF CyclesInBudget
  <2>1. CASE s \in 1..stay
    BY <2>1 DEF PaperInv, ParentInv, CyclesInBudget
  <2>2. CASE s \notin 1..stay
    <3>1. s = t /\ t # stay
      BY <1>2, <2>2 DEF PaperInv, ParentInv
    <3>2. Cardinality(CyclesOf(s)) = 0
      BY <1>2, <3>1, FS_EmptySet
    <3> QED
      BY <3>2, PaperAssumption
  <2> QED
    BY <2>1, <2>2
<1>8. ParentInv'
  BY <1>1, <1>2, <1>3, <1>4, <1>6, <1>7 DEF ParentInv
<1>9. EventInv'
  <2>1. EventOpensOnce'
    BY <1>1 DEF PaperInv, EventInv, EventOpensOnce, Opening
  <2> QED
    BY <1>1, <1>2, <1>3, <2>1 DEF EventInv
<1> QED
  BY <1>5, <1>8, <1>9

LEMMA LegAdds ==
    ASSUME NEW a \in Int, NEW b \in Int, NEW u \in Int
    PROVE  /\ a - b - u = a + (-b - u) /\ a + b - u = a + (b - u)
           /\ -b - u \in Int /\ b - u \in Int
OBVIOUS

LEMMA MoneyAdds ==
    ASSUME NEW a \in Int, NEW b \in Int, NEW u \in Int, NEW v \in Int
    PROVE  /\ (b - a) - u - v = (-a - u) + (b - v) /\ (a - b) - u - v = (a - v) + (-b - u)
           /\ (b - a) - u - v \in Int /\ (a - b) - u - v \in Int
OBVIOUS

(* The terms of a filled order.                                            *)
LEMMA FilledTerms ==
    ASSUME PaperInv, NEW f \in Features, NEW nb \in NextBars,
           NEW x, NEW price,
           Filled(f, Decision(f, ParentOf(f)), nb),
           price = FillPrice(Decision(f, ParentOf(f)).side, nb.open),
           x = Fill(f, Decision(f, ParentOf(f)).side, price, TRUE)
    PROVE  /\ x \in FillRecords /\ x.filled /\ x.stay = StayOf(f)
           /\ x.events = EventKeys(f) /\ (x.planned <=> stage.pending # "none")
           /\ fills' = Append(fills, x)
           /\ StartCash \in Int /\ account.cash \in Int /\ Spent(x) \in Int
           /\ account'.cash = account.cash + Spent(x)
           /\ stage' = IF stage.waiting THEN NoT
                       ELSE [NoT EXCEPT !.waiting = TRUE, !.first = x.side]
           /\ stage.waiting => x.side = Opposite(stage.first) /\ stage.pending = "none"
<1> DEFINE p == ParentOf(f)
           d == Decision(f, p)
<1>1. /\ account \in AccountRecords /\ stage \in StageRecords /\ OneStage
      /\ bar \in Nat /\ StayOf(f) \in Nat
  BY LegsOfTheParent DEF PaperInv, PositionKept, PaperTypeOK, ParentInv
<1>2. /\ d.kind = "order" /\ d.side \in TradeSides
      /\ stage.waiting => d.side = Opposite(stage.first)
  BY <1>1, DecisionKinds DEF Filled
<1>3. /\ account' = Traded(d.side, price) /\ fills' = Append(fills, Fill(f, d.side, price, TRUE))
      /\ stage' = IF stage.waiting THEN NoT ELSE [NoT EXCEPT !.waiting = TRUE, !.first = d.side]
  BY DEF Filled
<1>4. price \in Int
  <2>1. nb.open \in BarPrices
    BY DEF NextBars
  <2>2. BarPrices \subseteq Int /\ Slip \in Int
    BY PaperAssumption
  <2>3. nb.open \in Int
    BY <2>1, <2>2
  <2> QED
    BY <2>2, <2>3 DEF FillPrice
<1> HIDE DEF d
<1>5. x = Fill(f, d.side, price, TRUE)
  BY DEF d
<1>6. x \in FillRecords
  BY <1>1, <1>2, <1>4, <1>5, FillsAreTyped
<1>7. /\ x.filled /\ x.side = d.side /\ x.price = price /\ x.stay = StayOf(f)
      /\ x.events = EventKeys(f) /\ (x.planned <=> stage.pending # "none")
  <2>1. x = [ serial |-> account.trades + 1, side |-> d.side, price |-> price, filled |-> TRUE,
              events |-> EventKeys(f), stay |-> StayOf(f), planned |-> stage.pending # "none" ]
    BY <1>5 DEF Fill
  <2>2. /\ x.side = d.side /\ x.price = price /\ x.stay = StayOf(f)
        /\ x.events = EventKeys(f)
    BY ONLY <2>1
  <2>3. x.filled = TRUE /\ x.planned = (stage.pending # "none")
    BY ONLY <2>1, Zenon
  <2> QED
    BY <2>2, <2>3
<1>8. account.cash \in Int /\ Qty \in Nat /\ StartCash \in Int
  BY <1>1, PaperAssumption DEF AccountRecords
<1>9. CostOf("BUY") \in Int /\ CostOf("SELL") \in Int
  BY CostsAreNumbers
<1> DEFINE worth == price * Qty
<1>10. worth \in Int
  BY <1>4, <1>8
<1>11. account'.cash = account.cash + Spent(x) /\ Spent(x) \in Int
  <2>1. CASE d.side = "BUY"
    <3>1. Spent(x) = -worth - CostOf("BUY")
      BY <1>7, <2>1 DEF Spent
    <3>2. account'.cash = account.cash - worth - CostOf("BUY")
      BY <1>3, <2>1 DEF Traded
    <3> HIDE DEF worth
    <3> QED
      BY ONLY <1>8, <1>9, <1>10, <3>1, <3>2, LegAdds
  <2>2. CASE d.side = "SELL"
    <3>1. Spent(x) = worth - CostOf("SELL")
      BY <1>7, <2>2 DEF Spent
    <3>2. account'.cash = account.cash + worth - CostOf("SELL")
      BY <1>3, <2>2 DEF Traded
    <3> HIDE DEF worth
    <3> QED
      BY ONLY <1>8, <1>9, <1>10, <3>1, <3>2, LegAdds
  <2> QED
    BY <1>2, <2>1, <2>2 DEF TradeSides
<1>12. stage.waiting => stage.pending = "none"
  BY <1>1 DEF OneStage
<1> QED
  BY <1>2, <1>3, <1>5, <1>6, <1>7, <1>8, <1>11, <1>12

(* The money after a fill: the open leg brought it, or a pair gained it.   *)
LEMMA FillKeepsMoney ==
    ASSUME PaperInv, NEW x \in FillRecords, x.filled, fills' = Append(fills, x),
           StartCash \in Int, account.cash \in Int, Spent(x) \in Int,
           account'.cash = account.cash + Spent(x),
           stage' = IF stage.waiting THEN NoT
                    ELSE [NoT EXCEPT !.waiting = TRUE, !.first = x.side],
           stage.waiting => x.side = Opposite(stage.first),
           NEW n, n = Len(fills)
    PROVE  /\ MoneyInv'
           /\ Opening' = IF stage.waiting THEN Opening ELSE Opening \cup {n + 1}
<1> DEFINE c == Cardinality(FilledLegs)
           last == Greatest(FilledLegs)
<1>1. /\ n \in Nat /\ FilledLegs \subseteq 1..n /\ IsFiniteSet(FilledLegs) /\ c \in Nat
      /\ Opening \subseteq FilledLegs
  BY FilledLegsAreFinite DEF PaperInv, MoneyInv
<1>2. /\ fills \in Seq(FillRecords)
      /\ c % 2 = IF stage.waiting THEN 1 ELSE 0
      /\ stage.waiting => /\ fills[last].side = stage.first
                          /\ account.cash = StartCash + NetPnl + Spent(fills[last])
      /\ ~stage.waiting => account.cash = StartCash + NetPnl
  BY DEF PaperInv, MoneyInv
<1>3. /\ fills' \in Seq(FillRecords)
      /\ fills'[n + 1] = x /\ \A i \in 1..n : fills'[i] = fills[i]
      /\ FilledLegs' = FilledLegs \cup {n + 1}
  BY <1>2, OthersKeepPlaces
<1>4. /\ Cardinality(FilledLegs)' = c + 1
      /\ c % 2 = 0 => Opening' = Opening \cup {n + 1}
      /\ c % 2 = 1 => Opening' = Opening
      /\ LegBefore(n + 1)' = last
  BY <1>2, FurtherPlace
<1>5. (n + 1) \notin FilledLegs /\ (n + 1) \notin Opening
  BY <1>1
<1> HIDE DEF c, last
<1>6. CASE ~stage.waiting
  <2>1. c % 2 = 0 /\ (c + 1) % 2 = 1
    <3>1. c % 2 = 0
      BY <1>2, <1>6
    <3> QED
      BY <1>1, <3>1, NextIsOdd
  <2>2. Opening' = Opening \cup {n + 1}
    BY <1>4, <2>1
  <2>3. Gain(n + 1)' = 0
    BY <2>2 DEF Gain
  <2>4. NetPnl \in Int /\ NetPnl' = NetPnl
    BY <1>2, <2>3, ProfitGrows
  <2>5. stage'.waiting /\ stage'.first = x.side
    BY <1>6 DEF NoT
  <2>6. Greatest(FilledLegs)' = n + 1
    <3>1. \A m \in FilledLegs' : m <= n + 1
      BY <1>1, <1>3
    <3>2. (n + 1) \in FilledLegs' /\ FilledLegs' \subseteq Nat
      BY <1>1, <1>3
    <3>3. \E k \in FilledLegs' : \A m \in FilledLegs' : m <= k
      BY <3>1, <3>2
    <3>4. Greatest(FilledLegs)' \in FilledLegs' /\ \A m \in FilledLegs' : m <= Greatest(FilledLegs)'
      BY <3>3 DEF Greatest
    <3> QED
      BY <1>1, <3>1, <3>2, <3>4
  <2>7. fills[Greatest(FilledLegs)]' = x
    BY <1>3, <2>6
  <2>8. account'.cash = StartCash + NetPnl' + Spent(x)
    BY <1>2, <1>6, <2>4
  <2>9. Spent(x)' = Spent(x)
    BY DEF Spent, CostOf
  <2>10. MoneyInv'
    BY <1>3, <1>4, <2>1, <2>5, <2>7, <2>8 DEF MoneyInv, Spent, CostOf
  <2> QED
    BY <1>6, <2>2, <2>10
<1>7. CASE stage.waiting
  <2>1. c % 2 = 1 /\ (c + 1) % 2 = 0
    <3>1. c % 2 = 1
      BY <1>2, <1>7
    <3> QED
      BY <1>1, <3>1, NextIsOdd
  <2>2. Opening' = Opening
    BY <1>4, <2>1
  <2> DEFINE first == fills[last]
  <2>3. first \in FillRecords /\ fills'[last] = first
    <3>1. FilledLegs # {}
      <4>1. 0 % 2 # 1
        OBVIOUS
      <4> QED
        BY <2>1, <4>1, FS_EmptySet DEF c
    <3>2. last \in FilledLegs
      BY <1>2, <3>1, LastIsALeg DEF last
    <3>3. last \in 1..n /\ n = Len(fills)
      BY <1>1, <3>2
    <3> QED
      BY <1>2, <1>3, <3>3
  <2>4. Gain(n + 1)' = CyclePnl(first, x)
    <3>1. (n + 1) \in FilledLegs' \ Opening'
      BY <1>3, <1>5, <2>2
    <3> QED
      BY <1>3, <1>4, <2>3, <3>1 DEF Gain, CyclePnl, CostOf
  <2>5. first.side = stage.first /\ x.side = Opposite(first.side)
    BY <1>2, <1>7
  <2> HIDE DEF first
  <2>6. /\ first.side \in TradeSides /\ first.price \in Int
        /\ x.side \in TradeSides /\ x.price \in Int
    BY <2>3, FieldsOfFills
  <2>7. CyclePnl(first, x) \in Int /\ CyclePnl(first, x) = Spent(first) + Spent(x)
    <3> DEFINE a == first.price * Qty
               b == x.price * Qty
    <3>1. Qty \in Nat /\ CostOf("BUY") \in Int /\ CostOf("SELL") \in Int
      BY CostsAreNumbers
    <3>2. /\ a \in Int /\ b \in Int
          /\ (first.price - x.price) * Qty = a - b /\ (x.price - first.price) * Qty = b - a
      <4>1. first.price \in Int /\ x.price \in Int /\ Qty \in Int
        BY <2>6, <3>1
      <4> QED
        BY ONLY <4>1, ProductsDiffer
    <3>3. CASE first.side = "BUY"
      <4>1. x.side = "SELL"
        BY <2>5, <3>3 DEF Opposite
      <4>2. /\ CyclePnl(first, x) = (b - a) - CostOf("BUY") - CostOf("SELL")
            /\ Spent(first) = -a - CostOf("BUY") /\ Spent(x) = b - CostOf("SELL")
        BY <3>2, <3>3, <4>1 DEF CyclePnl, Spent
      <4> HIDE DEF a, b
      <4> QED
        BY ONLY <3>1, <3>2, <4>2, MoneyAdds
    <3>4. CASE first.side = "SELL"
      <4>1. x.side = "BUY"
        BY <2>5, <3>4 DEF Opposite
      <4>2. /\ CyclePnl(first, x) = (a - b) - CostOf("BUY") - CostOf("SELL")
            /\ Spent(first) = a - CostOf("SELL") /\ Spent(x) = -b - CostOf("BUY")
        BY <3>2, <3>4, <4>1 DEF CyclePnl, Spent
      <4> HIDE DEF a, b
      <4> QED
        BY ONLY <3>1, <3>2, <4>2, MoneyAdds
    <3> QED
      BY <2>6, <3>3, <3>4 DEF TradeSides
  <2>8. NetPnl \in Int /\ NetPnl' = NetPnl + CyclePnl(first, x)
    BY <1>2, <2>4, <2>7, ProfitGrows
  <2>9. ~stage'.waiting
    BY <1>7 DEF NoT
  <2>10. account.cash = StartCash + NetPnl + Spent(first) /\ Spent(first) \in Int
    <3>1. account.cash = StartCash + NetPnl + Spent(first)
      BY <1>2, <1>7 DEF first
    <3>2. Spent(first) \in Int
      <4>1. first.price * Qty \in Int
        BY <2>6, CostsAreNumbers
      <4> QED
        BY <4>1, CostsAreNumbers DEF Spent
    <3> QED
      BY <3>1, <3>2
  <2>11. account'.cash = StartCash + NetPnl'
    BY <2>7, <2>8, <2>10
  <2>12. MoneyInv'
    BY <1>3, <1>4, <2>1, <2>9, <2>11 DEF MoneyInv
  <2> QED
    BY <1>7, <2>2, <2>12
<1> QED
  BY <1>6, <1>7

(* The T's of the stays after a fill: an opened one is added to its stay,  *)
(* and the open one to the stay it is closed in.                           *)
LEMMA FillAddsACycle ==
    ASSUME fills \in Seq(FillRecords), NEW x \in FillRecords, x.filled,
           fills' = Append(fills, x), NEW n, n = Len(fills),
           stage.waiting \in BOOLEAN, stage.waiting => FilledLegs # {},
           stage'.waiting = ~stage.waiting,
           Opening' = IF stage.waiting THEN Opening ELSE Opening \cup {n + 1},
           NEW new, new = IF stage.waiting THEN Greatest(FilledLegs) ELSE n + 1
    PROVE  /\ \A s : CyclesOf(s)' = IF s = x.stay THEN CyclesOf(s) \cup {new} ELSE CyclesOf(s)
           /\ \A s : /\ new \notin Charged(s)
                     /\ CyclesOf(s) \cup {new} = Charged(s) \cup {new}
           /\ Charged(x.stay)' = IF stage.waiting THEN Charged(x.stay) \cup {new}
                                                 ELSE Charged(x.stay)
<1>1. /\ n \in Nat /\ FilledLegs \subseteq 1..n /\ Opening \subseteq FilledLegs
      /\ n + 1 \notin FilledLegs
  <2>1. n \in Nat /\ FilledLegs \subseteq 1..n /\ Opening \subseteq FilledLegs
    BY FilledLegsAreFinite
  <2> QED
    BY <2>1
<1>2. /\ fills'[n + 1] = x /\ FilledLegs' = FilledLegs \cup {n + 1}
      /\ \A i \in FilledLegs : fills'[i] = fills[i] /\ LegBefore(i)' = LegBefore(i)
  BY <1>1, OthersKeepPlaces
<1>3. LegBefore(n + 1)' = Greatest(FilledLegs)
  BY FurtherPlace
<1>4. \A s : CyclesOf(s) \subseteq FilledLegs
  BY CyclesAreCounted
<1>5. ASSUME NEW s
      PROVE  CyclesOf(s)' = IF s = x.stay THEN CyclesOf(s) \cup {new} ELSE CyclesOf(s)
  <2> DEFINE closing == {i \in FilledLegs \ Opening : fills[i].stay = s}
  <2>1. CASE stage.waiting
    <3>1. {i \in Opening' : fills'[i].stay = s} = {i \in Opening : fills[i].stay = s}
      BY <1>1, <1>2, <2>1
    <3>2. FilledLegs' \ Opening' = (FilledLegs \ Opening) \cup {n + 1}
      BY <1>1, <1>2, <2>1
    <3>3. {i \in FilledLegs' \ Opening' : fills'[i].stay = s}
             = IF s = x.stay THEN closing \cup {n + 1} ELSE closing
      BY <1>1, <1>2, <3>2
    <3>4. {LegBefore(k)' : k \in closing} = {LegBefore(k) : k \in closing}
      BY <1>2
    <3> HIDE DEF closing
    <3>5. {LegBefore(k)' : k \in closing \cup {n + 1}}
             = {LegBefore(k) : k \in closing} \cup {new}
      BY <1>3, <2>1, <3>4
    <3> QED
      BY <3>1, <3>3, <3>4, <3>5 DEF CyclesOf, closing
  <2>2. CASE ~stage.waiting
    <3>1. {i \in Opening' : fills'[i].stay = s}
             = IF s = x.stay THEN {i \in Opening : fills[i].stay = s} \cup {n + 1}
               ELSE {i \in Opening : fills[i].stay = s}
      BY <1>1, <1>2, <2>2
    <3>2. FilledLegs' \ Opening' = FilledLegs \ Opening
      BY <1>1, <1>2, <2>2
    <3>3. {i \in FilledLegs' \ Opening' : fills'[i].stay = s} = closing
      BY <1>2, <3>2
    <3>4. {LegBefore(k)' : k \in closing} = {LegBefore(k) : k \in closing}
      BY <1>2
    <3> HIDE DEF closing
    <3> QED
      BY <2>2, <3>1, <3>3, <3>4 DEF CyclesOf, closing
  <2> QED
    BY <2>1, <2>2
<1>6. \A s : /\ new \notin Charged(s)
             /\ CyclesOf(s) \cup {new} = Charged(s) \cup {new}
  BY <1>1, <1>4 DEF Charged, OpenT
<1>7. OpenT' = IF stage.waiting THEN {} ELSE {new}
  <2>1. CASE stage.waiting
    BY <2>1 DEF OpenT
  <2>2. CASE ~stage.waiting
    <3>1. \A m \in FilledLegs' : m <= n + 1
      BY <1>1, <1>2
    <3>2. (n + 1) \in FilledLegs' /\ n + 1 \in Nat
      BY <1>1, <1>2
    <3>3. \A m \in FilledLegs' : m \in Nat
      <4>1. \A m \in FilledLegs : m \in Nat
        BY <1>1
      <4> QED
        BY <1>2, <3>2, <4>1
    <3>4. \E k \in FilledLegs' : \A m \in FilledLegs' : m <= k
      BY <3>1, <3>2
    <3>5. Greatest(FilledLegs)' \in FilledLegs' /\ \A m \in FilledLegs' : m <= Greatest(FilledLegs)'
      BY <3>4 DEF Greatest
    <3>6. Greatest(FilledLegs)' = n + 1
      <4>1. PICK g : g = Greatest(FilledLegs)'
        OBVIOUS
      <4>2. g \in Nat /\ g <= n + 1 /\ n + 1 <= g
        BY <3>1, <3>2, <3>3, <3>5, <4>1
      <4> QED
        BY <3>2, <4>1, <4>2
    <3> QED
      BY <2>2, <3>6 DEF OpenT
  <2> QED
    BY <2>1, <2>2
<1>8. CyclesOf(x.stay)' = CyclesOf(x.stay) \cup {new}
  BY <1>5
<1>9. Charged(x.stay)' = (CyclesOf(x.stay) \cup {new}) \ OpenT'
  BY <1>8 DEF Charged
<1>10. Charged(x.stay)' = IF stage.waiting THEN Charged(x.stay) \cup {new} ELSE Charged(x.stay)
  <2>1. CASE stage.waiting
    BY <1>6, <1>7, <1>9, <2>1
  <2>2. CASE ~stage.waiting
    <3>1. Charged(x.stay) = CyclesOf(x.stay)
      BY <2>2 DEF Charged, OpenT
    <3> QED
      BY <1>6, <1>7, <1>9, <2>2, <3>1
  <2> QED
    BY <2>1, <2>2
<1> QED
  BY <1>5, <1>6, <1>10

(* The budget and the events after a fill.                                 *)
LEMMA FillKeepsParent ==
    ASSUME PaperInv, NEW f \in Features,
           NEW x \in FillRecords, x.filled, fills' = Append(fills, x), bar' \in Nat,
           NEW p, p = ParentOf(f), NEW t, t = StayOf(f), x.stay = t, x.events = EventKeys(f),
           x.planned <=> stage.pending # "none", stay' = t,
           parent' = IF p = NoParent THEN p
                     ELSE [p EXCEPT !.consumed = @ \cup x.events,
                                    !.used = IF stage.waiting THEN @ + 1 ELSE @],
           stage'.waiting = ~stage.waiting, stage'.pending = "none",
           ~stage.waiting => stage.pending # "none" \/ ~ParentBlocks(f.side, f, p),
           NEW n, n = Len(fills),
           Opening' = IF stage.waiting THEN Opening ELSE Opening \cup {n + 1}
    PROVE  ParentInv' /\ EventInv'
<1>1. /\ n \in Nat /\ FilledLegs \subseteq 1..n /\ Opening \subseteq FilledLegs
      /\ fills \in Seq(FillRecords) /\ stage.waiting \in BOOLEAN
  BY FilledLegsAreFinite
  DEF PaperInv, MoneyInv, PositionKept, PaperTypeOK, StageRecords
<1>2. /\ fills' \in Seq(FillRecords)
      /\ fills'[n + 1] = x /\ \A i \in 1..n : fills'[i] = fills[i]
      /\ FilledLegs' = FilledLegs \cup {n + 1}
  BY <1>1, OthersKeepPlaces
<1>3. /\ p \in ParentRecords /\ (p.leg = NoLeg => p = NoParent)
      /\ t \in Nat /\ (t = 0 <=> p.leg = NoLeg) /\ t \in {stay, stay + 1}
      /\ \A i \in FilledLegs :
            /\ fills[i].stay <= t
            /\ fills[i].stay = t /\ t > 0 => fills[i].events \subseteq p.consumed
      /\ t > 0 => Cardinality(Charged(t)) <= p.used
      /\ t # stay => CyclesOf(t) = {}
      /\ /\ stage.pending # "none" \/ stage.waiting
         /\ MaxCycles > 0 /\ p # NoParent
         => p.used < MaxCycles
  BY LegsOfTheParent
<1>4. /\ p.used \in Nat /\ stay \in Nat /\ MaxCycles \in Int
      /\ p.consumed \in SUBSET (TradeSides \X Int) /\ x.events \in SUBSET (TradeSides \X Int)
  <2>1. p.used \in Nat /\ p.consumed \in SUBSET (TradeSides \X Int)
    BY <1>3 DEF ParentRecords
  <2>2. x.events \in SUBSET (TradeSides \X Int)
    BY DEF FillRecords
  <2>3. stay \in Nat /\ MaxCycles \in Int
    BY PaperAssumption DEF PaperInv, ParentInv
  <2> QED
    BY <2>1, <2>2, <2>3
<1>5. /\ parent' \in ParentRecords /\ parent'.leg = p.leg /\ (parent'.leg = NoLeg => parent' = NoParent)
      /\ p # NoParent => /\ parent'.consumed = p.consumed \cup x.events
                         /\ parent'.used = IF stage.waiting THEN p.used + 1 ELSE p.used
      /\ parent' = NoParent <=> p = NoParent
  <2>1. CASE p = NoParent
    BY <1>3, <2>1
  <2>2. CASE p # NoParent
    <3> DEFINE u == IF stage.waiting THEN p.used + 1 ELSE p.used
               c == p.consumed \cup x.events
    <3>1. parent' = [p EXCEPT !.consumed = c, !.used = u]
      BY <2>2
    <3>2. u \in Nat /\ c \in SUBSET (TradeSides \X Int)
      BY <1>4
    <3> HIDE DEF u, c
    <3>3. /\ parent' \in ParentRecords /\ parent'.leg = p.leg
          /\ parent'.consumed = c /\ parent'.used = u
      BY ONLY <1>3, <3>1, <3>2 DEF ParentRecords
    <3>4. parent' # NoParent
      BY <1>3, <2>2, <3>3 DEF NoParent
    <3> QED
      BY <2>2, <3>3, <3>4, <1>3 DEF u, c
  <2> QED
    BY <2>1, <2>2
<1>6. \A i \in FilledLegs : i \in 1..n /\ i # n + 1
  BY <1>1
<1>7. PICK new : new = IF stage.waiting THEN Greatest(FilledLegs) ELSE n + 1
  OBVIOUS
<1>8. /\ \A s : CyclesOf(s)' = IF s = t THEN Charged(t) \cup {new} ELSE CyclesOf(s)
      /\ new \notin Charged(t)
      /\ Charged(t)' = IF stage.waiting THEN Charged(t) \cup {new} ELSE Charged(t)
  <2>1. stage.waiting => FilledLegs # {}
    <3>1. 0 % 2 # 1
      OBVIOUS
    <3>2. stage.waiting => Cardinality(FilledLegs) % 2 = 1
      BY DEF PaperInv, MoneyInv
    <3> QED
      BY <3>1, <3>2, FS_EmptySet
  <2>2. /\ \A s : CyclesOf(s)' = IF s = x.stay THEN CyclesOf(s) \cup {new} ELSE CyclesOf(s)
        /\ \A s : /\ new \notin Charged(s)
                  /\ CyclesOf(s) \cup {new} = Charged(s) \cup {new}
        /\ Charged(x.stay)' = IF stage.waiting THEN Charged(x.stay) \cup {new}
                                              ELSE Charged(x.stay)
    <3>1. /\ fills \in Seq(FillRecords) /\ x \in FillRecords /\ x.filled
          /\ fills' = Append(fills, x) /\ n = Len(fills) /\ stage.waiting \in BOOLEAN
          /\ stage'.waiting = ~stage.waiting
          /\ Opening' = IF stage.waiting THEN Opening ELSE Opening \cup {n + 1}
      BY <1>1
    <3> QED
      BY ONLY <1>7, <2>1, <3>1, FillAddsACycle, ZenonT(60)
  <2> QED
    BY <2>2
<1>9. ASSUME t > 0
      PROVE  /\ p # NoParent
             /\ Cardinality(Charged(t)) \in Nat
             /\ Cardinality(Charged(t) \cup {new}) = Cardinality(Charged(t)) + 1
             /\ MaxCycles > 0 => p.used < MaxCycles
  <2>1. p # NoParent
    BY <1>3, <1>9 DEF NoParent
  <2>2. IsFiniteSet(Charged(t)) /\ Cardinality(Charged(t)) \in Nat
    BY <1>1, CyclesAreCounted
  <2>3. Cardinality(Charged(t) \cup {new}) = Cardinality(Charged(t)) + 1
    BY <1>8, <2>2, FS_AddElement
  <2>4. ASSUME MaxCycles > 0 PROVE p.used < MaxCycles
    <3>1. CASE stage.pending # "none" \/ stage.waiting
      BY <1>3, <2>1, <2>4, <3>1
    <3>2. CASE ~stage.waiting /\ ~ParentBlocks(f.side, f, p)
      <4>1. ~(p.used >= MaxCycles)
        BY <2>1, <2>4, <3>2 DEF ParentBlocks
      <4> QED
        BY <1>4, <4>1
    <3> QED
      BY <3>1, <3>2
  <2> QED
    BY <2>1, <2>2, <2>3, <2>4
<1>10. CyclesInBudget'
  <2> SUFFICES ASSUME MaxCycles > 0, NEW s \in 1..t PROVE Cardinality(CyclesOf(s)') <= MaxCycles
    BY DEF CyclesInBudget
  <2>1. CASE s = t
    <3>1. t > 0 /\ CyclesOf(s)' = Charged(t) \cup {new}
      BY <1>3, <1>8, <2>1
    <3> QED
      BY <1>3, <1>4, <1>9, <3>1
  <2>2. CASE s # t
    <3>1. s \in 1..stay /\ CyclesOf(s)' = CyclesOf(s)
      BY <1>3, <1>4, <1>8, <2>2
    <3> QED
      BY <3>1 DEF PaperInv, ParentInv, CyclesInBudget
  <2> QED
    BY <2>1, <2>2
<1>11. ASSUME t > 0 PROVE Cardinality(Charged(t)') <= parent'.used
  <2>1. CASE stage.waiting
    <3>1. Charged(t)' = Charged(t) \cup {new} /\ parent'.used = p.used + 1
      BY <1>5, <1>8, <1>9, <1>11, <2>1
    <3> QED
      BY <1>3, <1>4, <1>9, <1>11, <3>1
  <2>2. CASE ~stage.waiting
    <3>1. Charged(t)' = Charged(t) /\ parent'.used = p.used
      BY <1>5, <1>8, <1>9, <1>11, <2>2
    <3> QED
      BY <1>3, <1>11, <3>1
  <2> QED
    BY <2>1, <2>2
<1>12. ASSUME stage'.waiting, MaxCycles > 0, parent' # NoParent PROVE parent'.used < MaxCycles
  <2>1. ~stage.waiting /\ p # NoParent /\ t > 0
    <3>1. ~stage.waiting
      BY <1>12, Zenon
    <3>2. p # NoParent
      BY <1>5, <1>12
    <3> QED
      BY <1>3, <3>1, <3>2
  <2> QED
    BY <1>5, <1>9, <1>12, <2>1
<1>13. \A i \in FilledLegs' :
          /\ fills'[i].stay <= t
          /\ fills'[i].stay = t /\ t > 0 => fills'[i].events \subseteq parent'.consumed
  <2> TAKE i \in FilledLegs'
  <2>1. CASE i = n + 1
    BY <1>2, <1>3, <1>5, <1>9, <2>1
  <2>2. CASE i # n + 1
    <3>1. i \in FilledLegs /\ fills'[i] = fills[i]
      BY <1>2, <1>6, <2>2
    <3> QED
      BY <1>3, <1>5, <1>9, <3>1
  <2> QED
    BY <2>1, <2>2
<1>14. ParentInv'
  <2>1. stay' = t /\ Charged(stay)' = Charged(t)'
    BY DEF Charged, CyclesOf
  <2> QED
    BY <1>3, <1>5, <1>10, <1>11, <1>12, <1>13, <2>1 DEF ParentInv
<1>15. EventOpensOnce'
  <2> SUFFICES ASSUME NEW i \in FilledLegs', NEW j \in Opening', i < j,
                      fills'[i].stay = fills'[j].stay, fills'[j].stay > 0, ~fills'[j].planned
               PROVE  fills'[i].events \cap fills'[j].events = {}
    BY DEF EventOpensOnce
  <2>1. i \in FilledLegs
    <3>1. j \in Nat /\ j <= n + 1
      BY <1>1, <1>2
    <3> QED
      BY <1>1, <1>2, <3>1
  <2>2. fills'[i] = fills[i]
    BY <1>6, <1>2, <2>1
  <2>3. CASE j \in Opening
    <3>1. fills'[j] = fills[j]
      BY <1>1, <1>2, <2>3
    <3> QED
      BY <2>1, <2>2, <2>3, <3>1 DEF PaperInv, EventInv, EventOpensOnce
  <2>4. CASE j \notin Opening
    <3>1. j = n + 1 /\ ~stage.waiting /\ fills'[j] = x
      BY <1>2, <2>4
    <3>2. t > 0 /\ fills[i].stay = t
      BY <2>2, <3>1
    <3>3. fills[i].events \subseteq p.consumed
      BY <1>3, <2>1, <3>2
    <3>4. ~ParentBlocks(f.side, f, p) /\ p # NoParent
      BY <1>9, <3>1, <3>2
    <3>5. x.events \cap p.consumed = {}
      BY <3>4 DEF ParentBlocks
    <3> QED
      BY <2>2, <3>1, <3>3, <3>5
  <2> QED
    BY <2>3, <2>4
<1>16. EventInv'
  BY <1>13, <1>15 DEF EventInv
<1> QED
  BY <1>14, <1>16

LEMMA InitPaper == PaperInit => PaperInv
<1> SUFFICES ASSUME PaperInit PROVE PaperInv
  OBVIOUS
<1>1. /\ fills = <<>> /\ bar = 1 /\ stage = NoT /\ account.cash = StartCash
      /\ \/ parent = NoParent
         \/ \E l \in Legs, s \in TradeSides :
               parent = [NoParent EXCEPT !.leg = l, !.allowed = s]
      /\ stay = IF parent = NoParent THEN 0 ELSE 1
  BY DEF PaperInit
<1>2. fills \in Seq(FillRecords) /\ FilledLegs = {} /\ Opening = {}
  <2>1. fills = <<>>
    BY <1>1
  <2>2. \A S : <<>> \in Seq(S)
    BY EmptySeq
  <2>3. DOMAIN fills = {} /\ fills \in Seq(FillRecords)
    <3> HIDE DEF FillRecords
    <3> QED
      BY <2>1, <2>2
  <2>4. FilledLegs = {}
    BY <2>3 DEF FilledLegs
  <2> QED
    BY <2>3, <2>4 DEF Opening
<1>3. NetPnl = 0
  <2> DEFINE gains == [i \in DOMAIN fills |-> Gain(i)]
  <2>1. fills = <<>>
    BY <1>1
  <2>2. gains \in Seq(Int) /\ Len(gains) = 0
    BY ONLY <2>1
  <2> HIDE DEF gains
  <2>3. Sums(gains, 0, SumsOf(gains))
    BY <2>2, SumsAreSums
  <2>4. Total(gains) = 0
    BY <2>2, <2>3, TotalIsASum DEF Sums
  <2> QED
    BY <2>4 DEF NetPnl, gains
<1>4. Cardinality(FilledLegs) = 0 /\ \A s : CyclesOf(s) = {}
  BY <1>2, FS_EmptySet DEF CyclesOf
<1>5. StartCash \in Int /\ 0 % 2 = 0
  BY PaperAssumption
<1>6. MoneyInv
  <2>1. stage.waiting = FALSE /\ account.cash = StartCash
    BY <1>1 DEF NoT
  <2>2. account.cash = StartCash + NetPnl
    BY ONLY <1>3, <1>5, <2>1
  <2>3. Cardinality(FilledLegs) % 2 = 0
    BY <1>4, <1>5
  <2> QED
    BY ONLY <1>2, <2>1, <2>2, <2>3 DEF MoneyInv
<1>7. parent \in ParentRecords /\ (parent.leg = NoLeg => parent = NoParent) /\ parent.used = 0
  <2>1. NoParent \in ParentRecords
    BY DEF NoParent, ParentRecords
  <2>2. CASE parent = NoParent
    BY <2>1, <2>2 DEF NoParent
  <2>3. CASE \E l \in Legs, s \in TradeSides :
               parent = [NoParent EXCEPT !.leg = l, !.allowed = s]
    <3>1. PICK l \in Legs, s \in TradeSides : parent = [NoParent EXCEPT !.leg = l, !.allowed = s]
      BY <2>3
    <3>2. parent = [leg |-> l, allowed |-> s, used |-> 0, consumed |-> {}]
      BY <3>1 DEF NoParent
    <3>3. l # NoLeg
      BY PaperAssumption DEF NoLeg
    <3> QED
      BY <3>2, <3>3 DEF ParentRecords
  <2> QED
    BY <1>1, <2>2, <2>3
<1>8. CyclesInBudget
  <2> SUFFICES ASSUME MaxCycles > 0, NEW s \in 1..stay PROVE Cardinality(CyclesOf(s)) <= MaxCycles
    BY DEF CyclesInBudget
  <2>1. Cardinality(CyclesOf(s)) = 0 /\ MaxCycles \in Int
    BY <1>4, FS_EmptySet, PaperAssumption
  <2> QED
    BY <2>1
<1>9. stage.pending = "none" /\ stage.waiting = FALSE
  BY <1>1 DEF NoT
<1>10. ParentInv
  <2>1. bar \in Nat
    BY <1>1
  <2>2. Cardinality(Charged(stay)) <= parent.used
    <3>1. Charged(stay) = {}
      BY <1>4 DEF Charged
    <3>2. Cardinality(Charged(stay)) = 0
      BY <3>1, FS_EmptySet
    <3> QED
      BY <1>7, <3>2
  <2>3. stay \in Nat /\ (stay = 0 <=> parent.leg = NoLeg)
    <3>1. parent.leg = NoLeg <=> parent = NoParent
      BY <1>7 DEF NoParent
    <3>2. stay = IF parent = NoParent THEN 0 ELSE 1
      BY <1>1
    <3> QED
      BY ONLY <3>1, <3>2
  <2> QED
    BY ONLY <1>2, <1>7, <1>8, <1>9, <2>1, <2>2, <2>3 DEF ParentInv
<1>11. EventInv
  BY <1>2 DEF EventInv, EventOpensOnce
<1> QED
  BY <1>6, <1>10, <1>11, InitPosition DEF PaperInv

LEMMA StepKeepsPaper == ASSUME PaperInv, Step PROVE PaperInv'
<1>1. PICK f \in Features :
         /\ stay' = StayOf(f)
         /\ \/ Watches(f, Decision(f, ParentOf(f)))
            \/ NoBar(f, Decision(f, ParentOf(f)))
            \/ \E nb \in NextBars : \/ Refused(f, Decision(f, ParentOf(f)), nb)
                                    \/ Filled(f, Decision(f, ParentOf(f)), nb)
  BY DEF Step
<1> DEFINE p == ParentOf(f)
           d == Decision(f, p)
<1>2. PositionKept'
  BY NextKeepsPosition DEF PaperInv, PaperNext
<1>3. bar' \in Nat
  BY DEF Step, PaperInv, ParentInv
<1>4. /\ account \in AccountRecords /\ stage \in StageRecords /\ OneStage
      /\ bar \in Nat /\ StayOf(f) \in Nat
  BY <1>1, LegsOfTheParent DEF PaperInv, PositionKept, PaperTypeOK, ParentInv
<1>5. /\ d.kind \in {"watch", "order", "pending"}
      /\ d.kind = "order" => d.side \in TradeSides
      /\ d.kind = "pending" => ~stage.waiting
  BY <1>4, DecisionKinds
<1>6. CASE Watches(f, d)
  <2>1. /\ parent' = p /\ account' = account /\ fills' = fills /\ d.kind # "order"
        /\ \/ d.kind = "pending"
              /\ stage' = [NoT EXCEPT !.pending = d.side, !.event = f.event, !.since = 1]
           \/ d.kind # "pending"
              /\ \/ stage' = [stage EXCEPT !.since = @ + 1]
                 \/ stage' = [stage EXCEPT !.bars = @ + 1]
                 \/ stage' = stage
    BY <1>6 DEF Watches
  <2>2. CASE d.kind = "pending"
    <3>1. ~stage.waiting /\ stage.first = "none" /\ stage.waiting = FALSE
      BY <1>4, <1>5, <2>2 DEF OneStage, StageRecords
    <3>2. stage'.waiting = FALSE /\ stage'.first = "none"
      BY <2>1, <2>2 DEF NoT
    <3>3. Confirm > 0 /\ ~ParentBlocks(f.side, f, p)
      <4>1. d.kind \in {"order", "pending"} /\ d.kind # "order"
        BY <2>2
      <4> QED
        BY <2>2, <3>1, <4>1, OpeningsAreAllowed
    <3> HIDE DEF d
    <3> QED
      BY <1>1, <1>2, <1>3, <2>1, <3>1, <3>2, <3>3, UnfilledKeeps DEF PaperInv
  <2>3. CASE d.kind # "pending"
    <3>1. /\ stage'.waiting = stage.waiting /\ stage'.first = stage.first
          /\ stage'.pending = stage.pending
      BY <1>4, <2>1, <2>3 DEF StageRecords
    <3> HIDE DEF d
    <3> QED
      BY <1>1, <1>2, <1>3, <2>1, <3>1, UnfilledKeeps DEF PaperInv
  <2> QED
    BY <2>2, <2>3
<1>7. CASE NoBar(f, d)
  <2>1. parent' = p /\ account' = account /\ fills' = fills /\ stage' = stage
    BY <1>7 DEF NoBar
  <2> QED
    BY <1>1, <1>2, <1>3, <2>1, UnfilledKeeps DEF PaperInv
<1>8. ASSUME NEW nb \in NextBars, Refused(f, d, nb) PROVE PaperInv'
  <2> DEFINE x == Fill(f, d.side, 0, FALSE)
  <2>1. /\ parent' = p /\ account' = account /\ stage' = stage
        /\ fills' = Append(fills, x) /\ d.kind = "order"
    BY <1>8 DEF Refused
  <2>2. x \in FillRecords
    <3>1. d.side \in TradeSides
      BY <1>4, <1>5, <2>1
    <3>2. 0 \in Int /\ FALSE \in BOOLEAN
      OBVIOUS
    <3> HIDE DEF d, p
    <3> QED
      BY <1>4, <3>1, <3>2, FillsAreTyped
  <2>3. x.filled = FALSE
    BY Zenon DEF Fill
  <2> HIDE DEF x, d
  <2> QED
    BY <1>1, <1>2, <1>3, <2>1, <2>2, <2>3, UnfilledKeeps DEF PaperInv
<1>9. ASSUME NEW nb \in NextBars, Filled(f, d, nb) PROVE PaperInv'
  <2>1. \E price : price = FillPrice(d.side, nb.open)
    OBVIOUS
  <2>2. PICK price : price = FillPrice(d.side, nb.open)
    BY <2>1
  <2>3. \E x : x = Fill(f, d.side, price, TRUE)
    OBVIOUS
  <2>4. PICK x : x = Fill(f, d.side, price, TRUE)
    BY <2>3
  <2>5. PICK n : n = Len(fills)
    OBVIOUS
  <2>6. PICK q : q = p
    OBVIOUS
  <2>7. /\ x \in FillRecords /\ x.filled /\ x.stay = StayOf(f)
        /\ x.events = EventKeys(f) /\ (x.planned <=> stage.pending # "none")
        /\ fills' = Append(fills, x)
        /\ StartCash \in Int /\ account.cash \in Int /\ Spent(x) \in Int
        /\ account'.cash = account.cash + Spent(x)
        /\ stage' = IF stage.waiting THEN NoT
                    ELSE [NoT EXCEPT !.waiting = TRUE, !.first = x.side]
        /\ stage.waiting => x.side = Opposite(stage.first) /\ stage.pending = "none"
    <3>1. PaperInv /\ f \in Features
      OBVIOUS
    <3> HIDE DEF PaperInv
    <3> QED
      BY ONLY <1>9, <2>2, <2>4, <3>1, FilledTerms, ZenonT(60)
  <2>8. /\ MoneyInv'
        /\ Opening' = IF stage.waiting THEN Opening ELSE Opening \cup {n + 1}
    BY <2>5, <2>7, FillKeepsMoney
  <2>9. stage'.waiting = ~stage.waiting /\ stage'.pending = "none"
    <3>1. stage.waiting \in BOOLEAN
      BY <1>4 DEF StageRecords
    <3>2. CASE stage.waiting
      BY <2>7, <3>2 DEF NoT
    <3>3. CASE ~stage.waiting
      BY <2>7, <3>3 DEF NoT
    <3> QED
      BY <3>1, <3>2, <3>3
  <2>10. parent' = IF q = NoParent THEN q
                   ELSE [q EXCEPT !.consumed = @ \cup x.events,
                                  !.used = IF stage.waiting THEN @ + 1 ELSE @]
    BY <1>9, <2>6, <2>7 DEF Filled, Advance
  <2>11. ~stage.waiting => stage.pending # "none" \/ ~ParentBlocks(f.side, f, q)
    <3>1. d.kind \in {"order", "pending"}
      BY <1>9 DEF Filled
    <3> QED
      BY <2>6, <3>1, OpeningsAreAllowed
  <2>12. ParentInv' /\ EventInv'
    <3> HIDE DEF d, p
    <3>1. q = ParentOf(f)
      BY <2>6 DEF p
    <3>2. PICK t : t = StayOf(f)
      OBVIOUS
    <3>3. x.stay = t /\ stay' = t
      BY <1>1, <2>7, <3>2
    <3> QED
      BY <1>1, <1>3, <2>5, <2>7, <2>8, <2>9, <2>10, <2>11, <3>1, <3>2, <3>3, FillKeepsParent
  <2> QED
    BY <1>2, <2>8, <2>12 DEF PaperInv
<1> QED
  BY <1>1, <1>6, <1>7, <1>8, <1>9

(* Whatever bars, fills and refusals come: when no T is open, the profit of *)
(* the metrics, taken from pairs of places, is the money the account gained; *)
(* the T's of a stay at a parent leg keep to the budget, the one carried    *)
(* into it included, and without bars of confirmation no event opens two of *)
(* them (replay_intraday_t_steps, build_replay_metrics).                    *)
THEOREM ReplaysAreSound == PaperSpec => []PaperSound
<1>1. PaperInit => PaperInv
  BY InitPaper
<1>2. PaperInv /\ [PaperNext]_paperVars => PaperInv'
  <2> SUFFICES ASSUME PaperInv, [PaperNext]_paperVars PROVE PaperInv'
    OBVIOUS
  <2>1. CASE Step
    BY <2>1, StepKeepsPaper
  <2>2. ASSUME UNCHANGED <<account, stage, parent, stay, fills>>, bar' \in Nat PROVE PaperInv'
    <3>1. PositionKept'
      BY <2>2 DEF PaperInv, PositionKept, PaperTypeOK, CycleBack, BaseProtected, OneStage
    <3>2. /\ FilledLegs' = FilledLegs /\ Opening' = Opening /\ NetPnl' = NetPnl
          /\ \A k : LegBefore(k)' = LegBefore(k)
      <4>1. FilledLegs' = FilledLegs /\ Opening' = Opening /\ NetPnl' = NetPnl
        BY <2>2, UnfilledKeepsLegs DEF PaperInv, MoneyInv
      <4> QED
        BY <4>1 DEF LegBefore
    <3>3. MoneyInv'
      BY <2>2, <3>2 DEF PaperInv, MoneyInv, Greatest, Spent, CostOf
    <3>4. ParentInv'
      <4>1. \A s : CyclesOf(s)' = CyclesOf(s)
        BY <2>2, <3>2 DEF CyclesOf
      <4>2. OpenT' = OpenT
        BY <2>2, <3>2 DEF OpenT, Greatest
      <4>3. CyclesInBudget'
        BY <2>2, <4>1 DEF PaperInv, ParentInv, CyclesInBudget
      <4>4. Charged(stay)' = Charged(stay)
        BY <2>2, <4>1, <4>2 DEF Charged
      <4> QED
        BY <2>2, <3>2, <4>3, <4>4 DEF PaperInv, ParentInv
    <3>5. EventInv'
      BY <2>2, <3>2 DEF PaperInv, EventInv, EventOpensOnce
    <3> QED
      BY <3>1, <3>3, <3>4, <3>5 DEF PaperInv
  <2>3. CASE SaveResult
    <3>1. bar' \in Nat
      BY <2>3 DEF SaveResult, PaperInv, ParentInv
    <3> QED
      BY <2>2, <2>3, <3>1 DEF SaveResult
  <2>4. CASE UNCHANGED paperVars
    <3>1. bar' \in Nat
      BY <2>4 DEF paperVars, PaperInv, ParentInv
    <3> QED
      BY <2>2, <2>4, <3>1 DEF paperVars
  <2> QED
    BY <2>1, <2>3, <2>4 DEF PaperNext
<1>3. PaperInv => PaperSound
  BY DEF PaperInv, MoneyInv, ParentInv, EventInv, PaperSound, PnlIsCash
<1> QED
  BY <1>1, <1>2, <1>3, PTL DEF PaperSpec

=============================================================================
