----------------------------- MODULE MCScenarios ----------------------------
(***************************************************************************)
(* ContextJobs and Scenarios on small instances.  In the lane "contexts"   *)
(* contexts and their branches are made.  In the other two the branches of *)
(* a context live on: in "scenarios" one reminder, one client and whatever *)
(* stops, fails or is settled by hand, in "answers" two reminders of one   *)
(* branch and two clients that answer them, one of which may be the second *)
(* window of the same user.                                                *)
(***************************************************************************)
EXTENDS ContextJobs, Scenarios

VARIABLE lane

vars == <<ctxVars, scenarioVars, lane>>

OneWorker == {"w1"}
TwoLevels == [day |-> {"s1", "s2"}, m30 |-> {"s1"}]
OneBranch == {"observe_breakout"}
Breakout == {"observe_breakout"}
TwoReminders == {"rising", "falling"}
Rising == {"rising"}
ByOne == [r \in Reminders |-> <<"observe_breakout">>]
TwoWindows == <<"same_day", "next_day">>
Ages == [same_day |-> 0, next_day |-> 1]
TwoUsers == {"user", "tab"}

MCInit ==
    /\ ContextInit /\ ScenarioInit /\ lane \in {"contexts", "scenarios", "answers"}
    /\ lane # "contexts" => bars = [l \in Levels |-> NoBars]

(* Who takes part in a lane, and how long it lasts: in "scenarios" the     *)
(* client waits until the monitor is through with a reminder; in "answers" *)
(* nothing stops, fails or is settled by hand, and the worker settles on   *)
(* the first day only.                                                     *)
Within ==
    /\ lane = "scenarios" =>
          /\ link["falling"].status = "NONE" /\ task["tab"] = Idle
          /\ Range(task["user"].found) \cap Range(task["monitor"].found) = {}
    /\ lane = "answers" => now <= 1 /\ byHand = 0 /\ (task["worker"] = Idle \/ now = 0)

InContexts(A) == lane = "contexts" /\ A /\ UNCHANGED <<scenarioVars, lane>>
InScenarios(A) == lane # "contexts" /\ A /\ UNCHANGED <<ctxVars, lane>> /\ Within'

MCNext == InContexts(ContextNext) \/ InScenarios(ScenarioNext)

(* The fairness of FairContextSpec and of FairScenarioSpec.                *)
FairSpec ==
    /\ MCInit /\ [][MCNext]_vars
    /\ WF_vars(InContexts(Ensure))
    /\ \A l \in Levels : WF_vars(InContexts(SnapshotDone(l)))
    /\ \A w \in Workers :
          /\ WF_vars(InContexts(StartContextWorker(w)))
          /\ WF_vars(InContexts(ContextStep(w)))
    /\ \A s \in Sets : WF_vars(InContexts(ContextLockExpires(s)))
    /\ WF_vars(InScenarios(Passes)) /\ WF_vars(InScenarios(GetPrices))
    /\ WF_vars(InScenarios(SettleDue))

(* The rows of both are of their types, a successful context job has its    *)
(* context (SuccessHasContext), and a reminder is pushed once (PushedOnce). *)
ScenariosSound == ContextTypeOK /\ ScenarioTypeOK /\ SuccessHasContext /\ PushedOnce

(* CatchesUp, in the lane in which contexts are made.                      *)
CatchesUpHere == lane = "contexts" => CatchesUp

(* WindowsSettled, in the lane in which time goes on.                      *)
WindowsSettledHere == lane = "scenarios" => WindowsSettled
=============================================================================
