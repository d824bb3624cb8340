------------------------------- MODULE T0Engine -------------------------------
(***************************************************************************)
(* The T+0 coach of one user and one symbol at run time:                   *)
(*   - the engine worker (server/workers/t0_engine_worker.py), which ticks *)
(*     the T0StateMachine object in its memory, records a fill and saves   *)
(*     the row of t0_state_cache;                                          *)
(*   - the sweeper worker (server/workers/t0_sweeper_worker.py), a second  *)
(*     thread that restores a copy of the object from that row at 14:55,   *)
(*     sweeps the copy and saves it back;                                  *)
(*   - the ledger (engines/t0/t0_paper_service.py), whose idempotency key  *)
(*     is the date, the signal and the trade count;                        *)
(*   - the enable and disable endpoints (server/api/t0.py).                *)
(* Every database call may interleave with the other thread, and the       *)
(* process may stop between any two of them.                               *)
(***************************************************************************)
EXTENDS T0StateMachine, Bags

CONSTANTS
    Events,         \* the events of the environment that a run allows
    MaxRestarts     \* bound: how often the process is restarted

ASSUME EventsAssumption ==
    Events \subseteq {"record_fails", "save_fails", "sweep", "toggle",
                      "midnight_race"}
ASSUME MaxRestartsAssumption == MaxRestarts \in Nat

VARIABLES
    loaded,         \* the object is in _machines
    enabled,        \* watchlist_items.t0_enabled
    cache,          \* the row of t0_state_cache: its state column, its state_json
    ledger,         \* paper_fills, as a bag of idempotency keys
    engine,         \* where the engine worker is in _tick_symbol
    sweeper,        \* where the sweeper worker is in _sweep_all
    copy,           \* the object the sweeper works on
    swept,          \* the symbol is in _swept_today
    clock,          \* the part of the day
    restarts        \* history: how often the process has been restarted

engineVars == <<loaded, enabled, cache, ledger, engine, sweeper, copy, swept, clock,
                restarts>>
allVars == <<vars, engineVars>>

Row(m) == [state |-> m.state, json |-> m]
NoRow == [state |-> "", json |-> Fresh(0, T0Qty)]
NoCopy == Fresh(0, T0Qty)       \* the sweeper's local variable between rounds

EngineTypeOK ==
    /\ TypeOK
    /\ loaded \in BOOLEAN /\ enabled \in BOOLEAN /\ swept \in BOOLEAN
    /\ cache = NoRow \/ cache \in [state : T0States, json : Machines]
    /\ IsABag(ledger)
    /\ engine \in {"idle", "row", "record", "save"}
    /\ sweeper \in {"idle", "row", "record", "save"}
    /\ copy \in Machines \/ (sweeper = "idle" /\ copy = NoCopy)
    /\ clock \in {"session", "sweep", "closed"}
    /\ restarts \in 0..MaxRestarts

EngineInit ==
    /\ Init
    /\ loaded = FALSE /\ enabled = TRUE /\ cache = NoRow /\ ledger = EmptyBag
    /\ engine = "idle" /\ sweeper = "idle" /\ swept = FALSE
    /\ copy = NoCopy /\ clock = "session" /\ restarts = 0

-----------------------------------------------------------------------------
(* record_t0_signal: a key that is there already is skipped.               *)
Key(date, fill, trades) == [date |-> date, fill |-> fill, trades |-> trades]

(* Mutant: the insert without the check of the key.                        *)
RecordedAlways(l, k) == l (+) SetToBag({k})

Recorded(l, k) == IF BagIn(k, l) THEN l ELSE l (+) SetToBag({k})

(* Its exceptions are logged and swallowed by both workers.                *)
Record(k) ==
    \/ ledger' = Recorded(ledger, k)
    \/ "record_fails" \in Events /\ UNCHANGED ledger

(* _save_state_cache writes the whole row, or logs why it could not.       *)
Save(m) ==
    \/ cache' = Row(m)
    \/ "save_fails" \in Events /\ UNCHANGED cache

-----------------------------------------------------------------------------
(* The engine worker.                                                      *)

(* _tick_sync selects the enabled symbols.                                 *)
StartRound ==
    /\ engine = "idle" /\ enabled
    /\ engine' = "row"
    /\ UNCHANGED <<vars, loaded, enabled, cache, ledger, sweeper, copy, swept, clock, restarts>>

(* _load_or_create_machine, on the first round after the process starts.   *)
(* The history begins again with what the restored object remembers.       *)
LoadMachine ==
    /\ engine = "row" /\ ~loaded
    /\ loaded' = TRUE
    /\ machine' = IF cache = NoRow THEN Fresh(today, T0Qty) ELSE cache.json
    /\ round_trips' = [w \in Windows |-> IF w \in machine'.traded_pivot_ids THEN 1 ELSE 0]
    /\ UNCHANGED <<signal, today, enabled, cache, ledger, engine, sweeper, copy,
                   swept, clock, restarts>>

(* Mutant: only a fill is worth saving.                                    *)
EngineTickSavingFills ==
    /\ engine = "row" /\ loaded
    /\ \E i \in Inputs : Tick(i)
    /\ engine' = IF signal' \in Fills THEN "record" ELSE "idle"
    /\ UNCHANGED <<loaded, enabled, cache, ledger, sweeper, copy, swept, clock, restarts>>

(* Mutant: a stop, which is no take-profit, does not reach the ledger.     *)
EngineTickHidingStops ==
    /\ engine = "row" /\ loaded
    /\ \E i \in Inputs : Tick(i)
    /\ engine' = CASE signal' = "RAISED" -> "idle"
                   [] signal' \in Fills \ {"STOP_LONG"} -> "record"
                   [] OTHER -> "save"
    /\ UNCHANGED <<loaded, enabled, cache, ledger, sweeper, copy, swept, clock, restarts>>

(* Mutant: the row is written before the fill.                             *)
EngineTickSavingFirst ==
    /\ engine = "row" /\ loaded
    /\ \E i \in Inputs : Tick(i)
    /\ engine' = CASE signal' = "RAISED" -> "idle"
                   [] signal' \in Fills -> "record"
                   [] OTHER -> "save"
    /\ cache' = IF signal' \in Fills THEN Row(machine') ELSE cache
    /\ UNCHANGED <<loaded, enabled, ledger, sweeper, copy, swept, clock, restarts>>

(* machine.tick(): a fill goes on to the ledger, any other result to the   *)
(* cache, and an exception ends the round of this symbol (_tick_sync).     *)
EngineTick ==
    /\ engine = "row" /\ loaded
    /\ \E i \in Inputs : Tick(i)
    /\ engine' = CASE signal' = "RAISED" -> "idle"
                   [] signal' \in Fills -> "record"
                   [] OTHER -> "save"
    /\ UNCHANGED <<loaded, enabled, cache, ledger, sweeper, copy, swept, clock, restarts>>

(* No price: the round of this symbol ends before tick().                  *)
NoPrice ==
    /\ engine = "row" /\ loaded
    /\ engine' = "idle"
    /\ UNCHANGED <<vars, loaded, enabled, cache, ledger, sweeper, copy, swept, clock, restarts>>

(* The key takes the date of the moment it is built.                       *)
EngineRecord ==
    /\ engine = "record"
    /\ Record(Key(today, signal, machine.daily_trades))
    /\ engine' = "save"
    /\ UNCHANGED <<vars, loaded, enabled, cache, sweeper, copy, swept, clock, restarts>>

EngineSave ==
    /\ engine = "save"
    /\ Save(machine)
    /\ engine' = "idle"
    /\ UNCHANGED <<vars, loaded, enabled, ledger, sweeper, copy, swept, clock, restarts>>

-----------------------------------------------------------------------------
(* The sweeper worker.                                                     *)

(* The SELECT of the rows that show a position, and the check against      *)
(* _swept_today.                                                           *)
SweepRead ==
    /\ "sweep" \in Events /\ clock = "sweep" /\ sweeper = "idle" /\ ~swept
    /\ cache.state \in {"POSITION_LONG", "POSITION_SHORT"}
    /\ copy' = cache.json
    /\ sweeper' = "row"
    /\ UNCHANGED <<vars, loaded, enabled, cache, ledger, engine, swept, clock, restarts>>

(* force_sweep on the copy; REDUCE_LOCK is not a fill.                     *)
SweepCopy ==
    /\ sweeper = "row"
    /\ \/ /\ copy.state = "POSITION_LONG"
          /\ \E i \in Market : copy' = SweptLong(copy, i.price)
          /\ sweeper' = "record"
       \/ /\ copy.state = "POSITION_SHORT"
          /\ copy' = ReduceLocked(copy)
          /\ sweeper' = "save"
    /\ UNCHANGED <<vars, loaded, enabled, cache, ledger, engine, swept, clock, restarts>>

(* The price is missing, or the copy turns out flat: the row is left.      *)
SweepSkip ==
    /\ sweeper = "row"
    /\ sweeper' = "idle" /\ copy' = NoCopy
    /\ UNCHANGED <<vars, loaded, enabled, cache, ledger, engine, swept, clock, restarts>>

SweepRecord ==
    /\ sweeper = "record"
    /\ Record(Key(today, "SWEEP_LONG", copy.daily_trades))
    /\ sweeper' = "save"
    /\ UNCHANGED <<vars, loaded, enabled, cache, engine, copy, swept, clock, restarts>>

(* Mutant: the symbol is not remembered as swept.                          *)
SweepSaveForgotten ==
    /\ sweeper = "save"
    /\ Save(copy)
    /\ sweeper' = "idle" /\ copy' = NoCopy
    /\ UNCHANGED <<vars, loaded, enabled, ledger, engine, swept, clock, restarts>>

SweepSave ==
    /\ sweeper = "save"
    /\ Save(copy)
    /\ swept' = TRUE
    /\ sweeper' = "idle" /\ copy' = NoCopy
    /\ UNCHANGED <<vars, loaded, enabled, ledger, engine, clock, restarts>>

-----------------------------------------------------------------------------
(* The endpoints, the process and the clock.                               *)

(* disable_t0 resets the columns of the row; neither state_json nor the    *)
(* object in the engine's memory is touched.                               *)
Disable ==
    /\ "toggle" \in Events /\ enabled
    /\ enabled' = FALSE
    /\ cache' = IF cache = NoRow THEN cache ELSE [cache EXCEPT !.state = "IDLE"]
    /\ UNCHANGED <<vars, loaded, ledger, engine, sweeper, copy, swept, clock, restarts>>

Enable ==
    /\ "toggle" \in Events /\ ~enabled
    /\ enabled' = TRUE
    /\ UNCHANGED <<vars, loaded, cache, ledger, engine, sweeper, copy, swept, clock, restarts>>

(* The process stops and starts again: memory is lost, the database stays. *)
Crash ==
    /\ restarts < MaxRestarts /\ loaded
    /\ restarts' = restarts + 1
    /\ loaded' = FALSE /\ swept' = FALSE
    /\ engine' = "idle" /\ sweeper' = "idle" /\ copy' = NoCopy
    /\ machine' = Fresh(machine.trade_date, T0Qty) /\ signal' = ""
    /\ UNCHANGED <<today, round_trips, enabled, cache, ledger, clock>>

(* 14:55 and 15:00 pass; no worker but the sweeper looks at the clock.     *)
ClockAdvances ==
    /\ \/ clock = "session" /\ clock' = "sweep"
       \/ clock = "sweep" /\ clock' = "closed"
    /\ UNCHANGED <<vars, loaded, enabled, cache, ledger, engine, sweeper, copy, swept, restarts>>

(* Midnight; a sweep begun before 15:00 is over by then, and so is a fill  *)
(* on its way to the ledger unless the run allows that race.  The sweeper  *)
(* empties _swept_today when it next looks at a set of another day.        *)
Midnight ==
    /\ clock = "closed" /\ sweeper = "idle"
    /\ engine \in {"idle", "row"} \/ "midnight_race" \in Events
    /\ NewDay
    /\ clock' = "session" /\ swept' = FALSE
    /\ UNCHANGED <<loaded, enabled, cache, ledger, engine, sweeper, copy, restarts>>

EngineNext ==
    \/ StartRound \/ LoadMachine \/ EngineTick \/ NoPrice \/ EngineRecord \/ EngineSave
    \/ SweepRead \/ SweepCopy \/ SweepSkip \/ SweepRecord \/ SweepSave
    \/ Disable \/ Enable \/ Crash \/ ClockAdvances \/ Midnight

EngineSpec == EngineInit /\ [][EngineNext]_allVars

-----------------------------------------------------------------------------
(* Properties.                                                             *)

Trades == 0..(2 * MaxTrades)
CopiesOf(k) == IF BagIn(k, ledger) THEN ledger[k] ELSE 0
Copies(date, fill, t) == CopiesOf(Key(date, fill, t))

(* The fills that close the long opened as trade t: the engine books its   *)
(* exits under the same count, the sweep counts one more.                  *)
Closings(date, t) ==
    Copies(date, "SELL_LONG", t) + Copies(date, "STOP_LONG", t)
        + Copies(date, "SWEEP_LONG", t + 1)

(* Longs are booked in their turn: when a long is in the ledger, each long *)
(* before it is there as often as its closings, and itself once more at    *)
(* most, also where the process stopped between a fill and its row and     *)
(* trades on from the older row.                                           *)
LongsInTurn ==
    \A d \in Dates : \A s, t \in Trades :
        s <= t /\ Copies(d, "BUY_LONG", t) > 0
            => Copies(d, "BUY_LONG", s) <= Closings(d, s) + (IF s = t THEN 1 ELSE 0)

(* The day is swept once: with the process up, the sweeper sells at most   *)
(* one long a day, also when the engine writes the row back as a position  *)
(* or opens another one in the window.                                     *)
SweptOnce ==
    restarts = 0 => \A d \in Dates :
        \A s, t \in Trades :
            Copies(d, "SWEEP_LONG", s) + Copies(d, "SWEEP_LONG", t) = 2 => s = t

(* A long is closed by one fill.                                           *)
ClosedOnce == \A d \in Dates, t \in Trades : Closings(d, t) <= 1

(* "LOCKDOWN: no opening for the rest of the day, reset_daily() unlocks    *)
(* the next day": after a recorded stop the ledger shows no opening of a   *)
(* later trade of that day.                                                *)
NothingAfterStop ==
    \A d \in Dates : \A s, t \in Trades :
        s < t /\ Copies(d, "STOP_LONG", s) > 0
            => Copies(d, "BUY_LONG", t) = 0 /\ Copies(d, "SELL_SHORT", t) = 0

(* "If a signal is produced, record_t0_signal() is called": between rounds *)
(* a recorded long that the machine no longer holds has its closing fill.  *)
ClosesRecorded ==
    loaded /\ engine = "idle" /\ machine.trade_date = today =>
        \A t \in Trades :
            /\ Copies(today, "BUY_LONG", t) > 0
            /\ ~(machine.state = "POSITION_LONG" /\ machine.daily_trades = t)
            => Closings(today, t) >= 1

(* Between rounds the row shows what the machine is: the API and the next  *)
(* restart see the state the engine is in.                                 *)
RowShowsMachine ==
    loaded /\ engine \in {"idle", "row"} /\ signal # "RAISED" /\ cache # NoRow
        => cache = Row(machine)
=============================================================================
