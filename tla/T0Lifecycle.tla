----------------------------- MODULE T0Lifecycle -----------------------------
(***************************************************************************)
(* What the T+0 coach promises of one day of one symbol, without a price:  *)
(* the life cycle in the docstring of class T0StateMachine and the rule    *)
(* "one window, one trade".  At most one position is open; it was opened   *)
(* in a window not completed before; closing it completes its window; a    *)
(* stop locks the day, and only a later day unlocks it.                    *)
(***************************************************************************)
EXTENDS Integers

CONSTANTS
    Identified,     \* the windows that carry an id (each with a direction)
    Anonymous,      \* the windows that carry none
    NoWindow

VARIABLES phase, window, completed, day

lifecycleVars == <<phase, window, completed, day>>

Phases == {"IDLE", "POSITION_LONG", "POSITION_SHORT", "LOCKDOWN"}
Positions == {"POSITION_LONG", "POSITION_SHORT"}

LifecycleInit ==
    phase = "IDLE" /\ window = NoWindow /\ completed = {}

Open ==
    /\ phase = "IDLE"
    /\ phase' \in Positions
    /\ window' \in (Identified \cup Anonymous) \ completed
    /\ UNCHANGED <<completed, day>>

(* A closed position completes its window; a stop also locks the day.      *)
Complete ==
    /\ phase \in Positions
    /\ \/ phase' = "IDLE"
       \/ phase = "POSITION_LONG" /\ phase' = "LOCKDOWN"
    /\ window' = NoWindow
    /\ completed' = completed \cup ({window} \cap Identified)
    /\ UNCHANGED day

(* The sweep at the end of the day sells a long without completing.        *)
SweepOut ==
    /\ phase = "POSITION_LONG" /\ phase' = "IDLE" /\ window' = NoWindow
    /\ UNCHANGED <<completed, day>>

Lock ==
    /\ phase = "IDLE" /\ phase' = "LOCKDOWN"
    /\ UNCHANGED <<window, completed, day>>

(* The first call of a later day starts over, and may already open.        *)
StartDay ==
    /\ day' # day /\ completed' = {}
    /\ \/ phase' \in {"IDLE", "LOCKDOWN"} /\ window' = NoWindow
       \/ phase' \in Positions /\ window' \in Identified \cup Anonymous

LifecycleNext == Open \/ Complete \/ SweepOut \/ Lock \/ StartDay

LifecycleSpec == LifecycleInit /\ [][LifecycleNext]_lifecycleVars
=============================================================================
