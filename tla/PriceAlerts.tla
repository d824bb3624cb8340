----------------------------- MODULE PriceAlerts ----------------------------
(***************************************************************************)
(* The price monitor over the position of Desk.  A round reads the rows    *)
(* that have a line to watch, waits for the prices, records the alerts of  *)
(* the day in one transaction, scans the reminders (module Scenarios), and *)
(* only then sends what it has recorded.  The pages trade in the meantime. *)
(***************************************************************************)
EXTENDS Desk

CONSTANTS
    Prices,         \* prices, in the unit of the lines
    MaxDay,         \* bound: the days, which for alerts begin at midnight UTC
    MaxMoves,       \* bound: how often the price changes
    MaxFaults       \* bound: how often a statement, a scan or a push fails

ASSUME AlertBounds == MaxDay \in Nat \ {0} /\ {MaxMoves, MaxFaults} \subseteq Nat

VARIABLES
    day, price,
    alerts,         \* the rows of the table alerts, by type and day
    pushed,         \* history: alert -> how often it was sent
    unsent,         \* history: the alerts that something has kept from being sent
    monitor,        \* where the round is, and what it has read
    moves, faults   \* history: see MaxMoves, MaxFaults

alertVars == <<day, price, alerts, pushed, unsent, monitor, moves, faults>>

AlertTypes ==
    {"TRAILING_STOP_BROKEN", "STOP_LOSS_BROKEN", "STOP_LOSS_WARNING", "M5_STRUCTURE_BROKEN"}
Alerts == AlertTypes \X (1..MaxDay)
NoPrice == 0
Rounds ==
    [ at : {"idle", "prices", "update", "scan", "push"}, row : Rows, price : Prices \cup {NoPrice},
      messages : SUBSET Alerts ]
Asleep == [at |-> "idle", row |-> NoPosition, price |-> NoPrice, messages |-> {}]

AlertTypeOK ==
    /\ day \in 1..MaxDay /\ price \in Prices
    /\ alerts \subseteq Alerts /\ unsent \subseteq Alerts
    /\ pushed \in [Alerts -> Nat]
    /\ monitor \in Rounds
    /\ moves \in 0..MaxMoves /\ faults \in 0..MaxFaults

AlertInit ==
    /\ day = 1 /\ price \in Prices
    /\ alerts = {} /\ unsent = {}
    /\ pushed = [a \in Alerts |-> 0]
    /\ monitor = Asleep
    /\ moves = 0 /\ faults = 0

-----------------------------------------------------------------------------
(* evaluate_price_alerts.                                                  *)

EffectiveStop(row) == Max({row.stop, row.trailing})

Broken(row, p) == EffectiveStop(row) > 0 /\ p <= EffectiveStop(row)
Near(row, p) == EffectiveStop(row) > 0 /\ 100 * p <= 103 * EffectiveStop(row)

Evaluate(row, p) ==
    IF Broken(row, p)
    THEN {IF row.trailing > row.stop THEN "TRAILING_STOP_BROKEN" ELSE "STOP_LOSS_BROKEN"}
    ELSE {type \in {"STOP_LOSS_WARNING", "M5_STRUCTURE_BROKEN"} :
             CASE type = "STOP_LOSS_WARNING" -> Near(row, p)
               [] type = "M5_STRUCTURE_BROKEN" -> row.zg > 0 /\ p < row.zg}

(* The WHERE clause of _db_get_positions.                                  *)
Watched(row) == row.quantity > 0 /\ Max({row.stop, row.trailing, row.zg}) > 0

-----------------------------------------------------------------------------
(* The round of _check_stop_losses.                                        *)

Round(at) == monitor.at = at
Fault == faults < MaxFaults /\ faults' = faults + 1

ReadPositions ==
    /\ Round("idle") /\ Watched(position)
    /\ monitor' = [monitor EXCEPT !.at = "prices", !.row = position]
    /\ UNCHANGED <<day, price, alerts, pushed, unsent, moves, faults>>

GetBatchPrices ==
    /\ Round("prices")
    /\ monitor' = [monitor EXCEPT !.at = "update", !.price = price]
    /\ UNCHANGED <<day, price, alerts, pushed, unsent, moves, faults>>

NoPrices ==
    /\ Round("prices") /\ Fault
    /\ monitor' = Asleep
    /\ UNCHANGED <<day, price, alerts, pushed, unsent, moves>>

(* Mutant: the alerts of other days count too.                             *)
NewAlertsEver(types) ==
    {<<type, day>> : type \in {t \in types : \A d \in 1..MaxDay : <<t, d>> \notin alerts}}

(* Mutant: the alerts of the day are not looked up.                        *)
NewAlertsAlways(types) == {<<type, day>> : type \in types}

(* The SELECT of _trigger_alert_db: one alert of a type a day.             *)
NewAlerts(types) == {<<type, day>> : type \in types} \ alerts

(* _db_update_and_alert: current_price of a row that may be gone by now,   *)
(* and the alerts.  An INSERT that fails is swallowed; so is an event log  *)
(* that fails after it, and then the row stays without a message.          *)
UpdateAndAlert ==
    /\ Round("update")
    /\ LET new == NewAlerts(Evaluate(monitor.row, monitor.price)) IN
       \/ /\ alerts' = alerts \cup new
          /\ monitor' = [monitor EXCEPT !.at = "scan", !.messages = new]
          /\ UNCHANGED <<unsent, faults>>
       \/ \E lost \in new :
             /\ Fault
             /\ monitor' = [monitor EXCEPT !.at = "scan", !.messages = new \ {lost}]
             /\ \/ alerts' = alerts \cup (new \ {lost}) /\ UNCHANGED unsent
                \/ alerts' = alerts \cup new /\ unsent' = unsent \cup {lost}
    /\ UNCHANGED <<day, price, pushed, moves>>

ScanReminders ==
    /\ Round("scan")
    /\ monitor' = [monitor EXCEPT !.at = "push"]
    /\ UNCHANGED <<day, price, alerts, pushed, unsent, moves, faults>>

(* create_task(send_stop_loss_alert), which reports its errors to no one.  *)
Send ==
    /\ Round("push")
    /\ pushed' = [a \in Alerts |-> IF a \in monitor.messages THEN pushed[a] + 1 ELSE pushed[a]]
    /\ monitor' = Asleep
    /\ UNCHANGED <<day, price, alerts, unsent, moves, faults>>

(* A statement raises or the process stops: _monitor_loop sleeps and reads *)
(* again, or is started again; what was to be sent is forgotten.  A push   *)
(* that fails is forgotten too.                                            *)
RoundFails ==
    /\ ~Round("idle") /\ Fault
    /\ unsent' = unsent \cup monitor.messages
    /\ monitor' = Asleep
    /\ UNCHANGED <<day, price, alerts, pushed, moves>>

PriceMoves ==
    /\ moves < MaxMoves /\ moves' = moves + 1
    /\ price' \in Prices \ {price}
    /\ UNCHANGED <<day, alerts, pushed, unsent, monitor, faults>>

Midnight ==
    /\ day < MaxDay /\ day' = day + 1
    /\ UNCHANGED <<price, alerts, pushed, unsent, monitor, moves, faults>>

MonitorStep == ReadPositions \/ GetBatchPrices \/ UpdateAndAlert \/ ScanReminders \/ Send
AlertNext == (MonitorStep \/ NoPrices \/ RoundFails \/ PriceMoves \/ Midnight) /\ UNCHANGED deskVars

-----------------------------------------------------------------------------
(* What must be true.                                                      *)

(* An alert is sent once at most, and only when its row is there: the row  *)
(* is what keeps the next round, and the process after a restart, from     *)
(* sending it again.  One that is recorded and not sent has met a fault.   *)
PushedOnceADay ==
    \A a \in Alerts :
        /\ pushed[a] <= 1
        /\ pushed[a] = 1 => a \in alerts
        /\ a \in alerts => pushed[a] = 1 \/ a \in unsent \/ a \in monitor.messages

(* A line that stays broken is alerted on the day, whatever was traded and *)
(* whichever round has failed before.                                      *)
BrokenIsAlerted ==
    \A type \in AlertTypes :
        <>[](type \in Evaluate(position, price)) => <>[](<<type, day>> \in alerts)

=============================================================================
