------------------------------- MODULE MCDesk -------------------------------
(***************************************************************************)
(* Desk and PriceAlerts on small instances.  In the lane "books" the pages *)
(* work on the trades, name no edge of a pivot, and the monitor sleeps; in *)
(* the lane "alerts" one page trades while the monitor makes its rounds.   *)
(***************************************************************************)
EXTENDS PriceAlerts

VARIABLE lane

vars == <<deskVars, alertVars, lane>>

MCDrafts == {"first", "second"}
MCBatchOf == [first |-> "monday", second |-> "again"]
MCTwinOf == [first |-> {"second"}, second |-> {"first"}]
MCRowOf == [d \in MCDrafts |-> [direction |-> "BUY", quantity |-> 1]]
MCOldRows ==
    {[quantity |-> 2, basis |-> <<Calibrated>>, zg |-> 0, stop |-> 100, trailing |-> 0]}

MCInit ==
    /\ DeskInit /\ AlertInit
    /\ lane \in {"books", "alerts"}
    /\ lane = "books" => price = Max(Prices)

Books == lane = "books" /\ DeskNext /\ position'.zg = 0 /\ UNCHANGED <<alertVars, lane>>

Trading ==
    /\ lane = "alerts" /\ recorded < 2 /\ UNCHANGED <<alertVars, lane>>
    /\ Buy("page") \/ CheckSale("page") \/ Sell("page")

Monitoring == lane = "alerts" /\ AlertNext /\ UNCHANGED lane

MCNext == Books \/ Trading \/ Monitoring

FairDeskSpec ==
    /\ MCInit /\ [][MCNext]_vars
    /\ WF_vars(lane = "alerts" /\ MonitorStep /\ UNCHANGED <<deskVars, lane>>)

(* The rows of both are of their types, the row of positions is what the    *)
(* trades give (PositionIsFold), and no alert is sent twice on a day        *)
(* (PushedOnceADay).                                                        *)
DeskSound == DeskTypeOK /\ AlertTypeOK /\ PositionIsFold /\ PushedOnceADay

(* BrokenIsAlerted, in the lane in which the monitor runs.                 *)
BrokenIsAlertedHere == lane = "alerts" => BrokenIsAlerted
=============================================================================
