----------------------------- MODULE MCT0Engine -----------------------------
(***************************************************************************)
(* T0Engine on small instances: windows of one pivot, prices at its lower  *)
(* edge, at its upper edge and below the structural stop.  The lanes are   *)
(* instances of their own:                                                 *)
(*   - "alone": the engine without the sweeper over two days; every write  *)
(*     succeeds and the pivot is never lost;                               *)
(*   - "workers": both workers and the endpoints on one day, failing       *)
(*     inserts and failing saves, and all the windows, long and short;     *)
(*   - "restarts": the engine without the sweeper over two days, two       *)
(*     restarts at any point, failing saves;                               *)
(*   - "faults": both workers and one window over two days, a restart at   *)
(*     any point, failing writes and a midnight between a fill and its     *)
(*     record.                                                             *)
(***************************************************************************)
EXTENDS T0Engine

VARIABLE lane

OneDay == {0}
TwoDays == 0..1
MCWindowIds == {"w1", "w2"}

W1 == [id |-> "w1", zd |-> 1000, zg |-> 1030]
W2 == [W1 EXCEPT !.id = "w2"]

Input(p, v, fractal, direction) ==
    [ date |-> 0, price |-> p, pivot |-> v, atr |-> 5,
      fractal |-> fractal, bi_veto |-> FALSE, short_clear |-> TRUE,
      direction |-> direction, size |-> 100,
      t0_qty |-> 2, available |-> 2, loss_limit |-> 10000000 ]

OneWindowMarket ==
    {Input(1000, W1, "bottom", "LONG_ONLY")}
        \cup {Input(p, W1, "none", "OBSERVE_ONLY") : p \in {990, 1030}}

LongMarket ==
    {Input(1000, v, "bottom", "LONG_ONLY") : v \in {W1, W2}}
        \cup {Input(p, W1, "none", "OBSERVE_ONLY") : p \in {990, 1030}}

LostPivotMarket ==
    LongMarket \cup {Input(1030, NoPivot, "none", "OBSERVE_ONLY")}

FullMarket ==
    LostPivotMarket \cup {Input(1030, W2, "top", "SHORT_ONLY")}

Alone ==
    INSTANCE T0Engine WITH
        Market <- LongMarket,
        Events <- {}, MaxRestarts <- 0
Restarts ==
    INSTANCE T0Engine WITH
        Market <- LongMarket,
        Events <- {"save_fails"}
Workers ==
    INSTANCE T0Engine WITH
        Dates <- OneDay, Market <- FullMarket,
        Events <- {"record_fails", "save_fails", "sweep", "toggle"}, MaxRestarts <- 0
Faults ==
    INSTANCE T0Engine WITH
        Market <- OneWindowMarket, MaxRestarts <- 1

LaneInit ==
    \/ lane = "alone" /\ Alone!EngineInit
    \/ lane = "restarts" /\ Restarts!EngineInit
    \/ lane = "workers" /\ Workers!EngineInit
    \/ lane = "faults" /\ Faults!EngineInit

LaneNext ==
    /\ lane' = lane
    /\ \/ lane = "alone" /\ Alone!EngineNext
       \/ lane = "restarts" /\ Restarts!EngineNext
       \/ lane = "workers" /\ Workers!EngineNext
       \/ lane = "faults" /\ Faults!EngineNext

LaneSpec == LaneInit /\ [][LaneNext]_<<allVars, lane>>

-----------------------------------------------------------------------------
(* The properties of T0Engine, in the lanes of which they speak; those it  *)
(* states of every lane (EngineTypeOK, SweptOnce) are checked as they are. *)

(* ClosedOnce and ClosesRecorded: a long that is gone has one closing fill *)
(* in the ledger, not more and, between rounds, not less; RowShowsMachine: *)
(* between rounds the row shows what the machine is.                       *)
BooksOfTheEngineAlone ==
    lane = "alone" => Alone!ClosedOnce /\ Alone!ClosesRecorded /\ Alone!RowShowsMachine

(* LongsInTurn: what restarts from older rows leave in the ledger.         *)
LongsInTurnOverRestarts == lane = "restarts" => Restarts!LongsInTurn

(* NothingAfterStop: no opening after a recorded stop.                     *)
NothingAfterStopByWorkers == lane = "workers" => Workers!NothingAfterStop
=============================================================================
