------------------------------- MODULE MCLanes -------------------------------
(***************************************************************************)
(* The parts of the repository that run alone, on small instances, each in *)
(* lanes of its own.                                                       *)
(*                                                                         *)
(* The lane "coach" is T0StateMachine: prices around one 5-minute pivot    *)
(* window of 10.00 to 10.30 yuan that later becomes another window at the  *)
(* same prices, or drifts, or is lost.                                     *)
(*                                                                         *)
(* The lanes "chain", "start" and "tape" are LevelChain, ServerStart and   *)
(* IntradayTape on the instances of their MC modules; in "tape" there are  *)
(* three quotes, or fewer and a fault or a restart.                        *)
(*                                                                         *)
(* The lane "manual" is ManualSync, with two daily files of which one is   *)
(* of a tracked symbol; requests for one symbol come on the first day.     *)
(*                                                                         *)
(* The other lanes are PaperReplay: two prices, fresh and old events, two  *)
(* parent legs.                                                            *)
(*   - "plain": four bars, first legs at once but not in the last bar, two *)
(*     bars of confirmation before the second, two cycles for a leg, an    *)
(*     expected edge asked for;                                            *)
(*   - "confirmed": five bars, a bar of confirmation before the first leg, *)
(*     one cycle for a leg;                                                *)
(*   - "given": three bars under a context of the caller or none.          *)
(***************************************************************************)
EXTENDS T0StateMachine, PaperReplay, MCLevelChain, MCServerStart, MCIntradayTape,
        ManualSync

VARIABLE lane

MCDates == 0..1
MCWindowIds == {"w1", "w2"}

W1 == [id |-> "w1", zd |-> 1000, zg |-> 1030]
W2 == [id |-> "w2", zd |-> 1000, zg |-> 1030]
Drift == [id |-> "w2", zd |-> 1005, zg |-> 1030]
Legacy == [id |-> NoId, zd |-> 1000, zg |-> 1030]

Plain == [fractal |-> "none", bi_veto |-> FALSE, short_clear |-> TRUE]
Bottom == [Plain EXCEPT !.fractal = "bottom"]
Vetoed == [Bottom EXCEPT !.bi_veto = TRUE]
Top == [Plain EXCEPT !.fractal = "top"]
Surge == [Top EXCEPT !.short_clear = FALSE]

(* The policies that derive_t0_policy_from_ppe can return, and the legacy  *)
(* mode of a caller that passes none.                                      *)
Observe == [direction |-> "OBSERVE_ONLY", size |-> 0]
Long == [direction |-> "LONG_ONLY", size |-> 100]
Probe == [direction |-> "LONG_ONLY", size |-> 10]
Short == [direction |-> "SHORT_ONLY", size |-> 50]
Both == [direction |-> "BOTH", size |-> 100]

(* A loss budget of 150 yuan, 1.5% of the notional amount.                 *)
Budget == 15000000

Input(p, v, x, y) ==
    [ date |-> 0, price |-> p, pivot |-> v, atr |-> IF v.id = "w1" THEN 5 ELSE 30,
      fractal |-> x.fractal, bi_veto |-> x.bi_veto, short_clear |-> x.short_clear,
      direction |-> y.direction, size |-> y.size,
      t0_qty |-> 10, available |-> 10,
      loss_limit |-> IF v.id = NoId THEN NoLimit ELSE Budget ]

MCMarket ==
    { Input(p, W1, x, y) :
        p \in {970, 1000, 1025, 1030}, x \in {Plain, Bottom, Top}, y \in {Long, Short} }
    \cup { Input(p, Drift, x, y) :
        p \in {970, 1000, 1030}, x \in {Bottom, Top}, y \in {Long, Short} }
    \cup { Input(1000, W1, Vetoed, Long), Input(1000, W1, Bottom, Probe),
           Input(1030, W1, Surge, Short), Input(1000, W1, Bottom, Observe) }
    \cup { Input(p, NoPivot, Plain, Observe) : p \in {970, 1000, 1030} }
    \cup { Input(1000, Legacy, Bottom, Both), Input(1030, Legacy, Top, Both) }

-----------------------------------------------------------------------------
MCLegs == 1..2
MCAllows == <<"SELL", "BUY">>
OneAllows == <<"SELL", "none">>

WithBars ==
    INSTANCE PaperReplay WITH
        Confirm <- 1, SecondConfirm <- 0, MinRemaining <- 0, Bars <- 5, Ages <- {0},
        MaxCycles <- 1, MinEdge <- 0
Given ==
    INSTANCE PaperReplay WITH
        Allows <- OneAllows, AutoParent <- FALSE, MinRemaining <- 0, Bars <- 3,
        Ages <- {0, 2, 3}, MaxCycles <- 1

TwoFiles == <<"sh.600000", "sz.000001">>
OneTracked == <<"sz.000001">>
DayAnd5 == <<"day", "5">>

PaperLanes == {"plain", "confirmed", "given"}
Lanes == PaperLanes \cup {"coach", "chain", "start", "tape", "manual"}

MCInit ==
    /\ lane \in Lanes
    /\ Init
    /\ IF lane = "given" THEN Given!PaperInit ELSE PaperInit
    /\ IF lane = "chain" THEN ChainInit ELSE NoChainInit
    /\ StartInit /\ (lane # "start" => Untouched)
    /\ TapeInit /\ ManualInit

Others(own) ==
    LET left(part, itsVars) == part # own => UNCHANGED itsVars
    IN  /\ left("coach", vars) /\ left("paper", paperVars) /\ left("chain", chainVars)
        /\ left("start", startVars) /\ left("tape", tapeVars)
        /\ left("manual", manualVars)

MCNext ==
    /\ lane' = lane
    /\ \/ lane = "coach" /\ Next /\ Others("coach")
       \/ lane = "plain" /\ PaperNext /\ Others("paper")
       \/ lane = "confirmed" /\ WithBars!PaperNext /\ Others("paper")
       \/ lane = "given" /\ Given!PaperNext /\ Others("paper")
       \/ lane = "chain" /\ ChainNext /\ Others("chain")
       \/ lane = "start" /\ StartNext /\ Others("start")
       \/ lane = "tape" /\ TapeNext /\ Len(taken') + faults' + restarts' <= 3 /\ Others("tape")
       \/ /\ lane = "manual" /\ ManualNext /\ Others("manual")
          /\ tradingDay' = 1 \/ refresh'.at = "idle"

MCSpec ==
    MCInit /\ [][MCNext]_<<vars, paperVars, chainVars, startVars, tapeVars, manualVars, lane>>

-----------------------------------------------------------------------------
(* PaperSound, with the budget of each lane: the metrics agree with the    *)
(* cash, and a stay at a parent leg keeps to its T's and its events.       *)
PaperSoundInLanes ==
    CASE lane = "confirmed" -> WithBars!PaperSound
      [] lane = "given" -> Given!PaperSound
      [] lane = "plain" -> PaperSound
      [] OTHER -> TRUE
=============================================================================
