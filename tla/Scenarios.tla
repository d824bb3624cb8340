----------------------------- MODULE Scenarios ------------------------------
(***************************************************************************)
(* What becomes of a scenario, for one user and one symbol: the branches   *)
(* of a context, their outcomes, the reminders that a user sets on them    *)
(* and the memory of the user's mistakes.                                  *)
(*   - the outcome worker settles the branches that are due, a window at a *)
(*     time, against a price that it has waited for;                       *)
(*   - the price monitor scans the reminders, settles the branch of every  *)
(*     one that it triggers, and pushes it;                                *)
(*   - pages save branches, set reminders, settle a branch by hand, and    *)
(*     acknowledge a reminder.                                             *)
(* A price is below, between or above the two lines of a branch, and the   *)
(* two conditions of a branch lie on opposite lines, as in _derive_branches.*)
(* Every transaction is a step; the worker, the monitor and the pages run  *)
(* in one process that may stop.                                           *)
(***************************************************************************)
EXTENDS Naturals, FiniteSets, Sequences, SequencesExt, Subsequences

CONSTANTS
    Branches,       \* the branches
    Breakouts,      \* those that are triggered above, the others below
    Reminders,      \* the reminders, each with a price and a direction
    Upward,         \* those that wait for a price above
    Candidates,     \* reminder -> the branches of its context that refer to its
                    \* evidence, by their type as _find_branch_for_reminder
    Windows,        \* the settlement windows, the shortest first
    DueAge,         \* window -> the age of a branch at which it is due
    Limit,          \* how many ACTIVE branches the worker looks at
    Users,          \* the clients that acknowledge reminders
    MaxTime,        \* bound: the clock
    MaxByHand       \* bound: how often a branch is settled by hand, a process
                    \* stops or a statement raises

ASSUME ScenarioBounds ==
    /\ Breakouts \subseteq Branches /\ Upward \subseteq Reminders
    /\ {Limit, MaxTime, MaxByHand} \subseteq Nat

OtherWindows == {"manual", "ai_reminder_trigger"}

(* A window is named once, and not as what a page or a reminder settles.   *)
ASSUME WindowsAssumption ==
    /\ Windows \in Seq(Range(Windows)) \ {<<>>} /\ IsInjective(Windows)
    /\ Range(Windows) \cap OtherWindows = {}
    /\ DueAge \in [Range(Windows) -> Nat]

ASSUME RemindersAssumption ==
    IsFiniteSet(Reminders) /\ Candidates \in [Reminders -> Seq(Branches)]

ASSUME UsersAssumption == Users \cap {"worker", "monitor"} = {}

VARIABLES
    now,            \* the clock
    status,         \* scenario_branches: branch -> status, "NONE" without a row
    created,        \* branch -> its created_at
    order,          \* the branches in the order of updated_at
    outcomes,       \* scenario_outcomes
    link,           \* ai_structure_reminder_links: reminder -> row
    pushed,         \* history: reminder -> how often it was pushed
    task,           \* what the worker, the monitor and each client are doing
    byHand          \* history: see MaxByHand

scenarioVars ==
    <<now, status, created, order, outcomes, link, pushed, task, byHand>>
branchVars == <<status, created, order>>

Final == {"TRIGGERED", "INVALIDATED", "EXPIRED"}
Verdicts == {"triggered", "invalidated", "expired", "pending"}
Answers == {"none", "followed", "ignored"}
Below == 1
Between == 2
Above == 3
NoPrice == 0
Prices == {Below, Between, Above}
Actors == {"worker", "monitor"} \cup Users

Times == 0..MaxTime

Outcomes ==
    [ branch : Branches, window : Range(Windows) \cup OtherWindows, at : Times,
      verdict : Verdicts, followed : Answers ]
Links ==
    [ status : {"NONE", "ACTIVE", "TRIGGERED", "ACKED_HANDLED", "ACKED_CONTINUE_WATCH",
                "ACKED_IGNORED"},
      at : Times ]
Tasks ==
    [ at : {"idle", "settle", "push", "commit"},
      queue : Seq(Branches \X (Range(Windows) \cup OtherWindows)), found : Seq(Reminders),
      push : SUBSET Reminders,
      price : Prices \cup {NoPrice}, checked : Times, answer : Answers \cup {"watch"} ]

Idle ==
    [ at |-> "idle", queue |-> <<>>, found |-> <<>>, push |-> {}, price |-> NoPrice, checked |-> 0,
      answer |-> "none" ]

ScenarioTypeOK ==
    /\ now \in Times
    /\ status \in [Branches -> Final \cup {"NONE", "ACTIVE"}]
    /\ created \in [Branches -> Times]
    /\ Range(order) = {b \in Branches : status[b] # "NONE"} /\ IsInjective(order)
    /\ outcomes \subseteq Outcomes
    /\ \A o, p \in outcomes :
          o.branch = p.branch /\ o.window = p.window /\ o.at = p.at => o = p
    /\ link \in [Reminders -> Links]
    /\ pushed \in [Reminders -> Nat]
    /\ task \in [Actors -> Tasks]
    /\ byHand \in 0..MaxByHand

ScenarioInit ==
    /\ now = 0
    /\ status = [b \in Branches |-> "NONE"]
    /\ created = [b \in Branches |-> 0]
    /\ order = <<>>
    /\ outcomes = {}
    /\ link = [r \in Reminders |-> [status |-> "NONE", at |-> 0]]
    /\ pushed = [r \in Reminders |-> 0]
    /\ task = [a \in Actors |-> Idle]
    /\ byHand = 0

TaskAt(a, step) == task[a].at = step
Becomes(a, t) == task' = [task EXCEPT ![a] = t]
Exists(b) == status[b] # "NONE"
ByHand == byHand < MaxByHand /\ byHand' = byHand + 1

-----------------------------------------------------------------------------
(* A settlement.                                                           *)

(* _outcome_for_branch, _condition_met                                     *)
Verdict(b, price, expired) ==
    CASE expired -> "expired"
      [] ~expired /\ price = (IF b \in Breakouts THEN Above ELSE Below) -> "triggered"
      [] ~expired /\ price = (IF b \in Breakouts THEN Below ELSE Above) -> "invalidated"
      [] OTHER -> "pending"

StatusOf(verdict) ==
    CASE verdict = "triggered" -> "TRIGGERED"
      [] verdict = "invalidated" -> "INVALIDATED"
      [] verdict = "expired" -> "EXPIRED"
      [] OTHER -> "ACTIVE"

(* Mutant: an INSERT without the conflict clause.                          *)
ToEndAgain(b) == Append(order, b)

ToEnd(b) == Append(Dropping(order, b), b)

(* The transaction of settle_scenario_branch: an upsert of the outcome by  *)
(* branch, window and time, and the status of the branch, whatever it was. *)
Settle(b, window, at, price, expired, followed) ==
    LET verdict == Verdict(b, price, expired)
        other == {o \in outcomes : o.branch # b \/ o.window # window \/ o.at # at} IN
    /\ outcomes' =
         other \cup {[ branch |-> b, window |-> window, at |-> at, verdict |-> verdict,
                       followed |-> followed ]}
    /\ status' = [status EXCEPT ![b] = StatusOf(verdict)]
    /\ order' = ToEnd(b)
    /\ UNCHANGED created

-----------------------------------------------------------------------------
(* Pages.                                                                  *)

(* save_scenario_branch: the same branch of the same context again makes   *)
(* it ACTIVE again, and leaves its created_at.                             *)
SaveBranch(b) ==
    /\ now + DueAge[Last(Windows)] <= MaxTime
    /\ IF Exists(b) THEN ByHand ELSE UNCHANGED byHand
    /\ status' = [status EXCEPT ![b] = "ACTIVE"]
    /\ created' = [created EXCEPT ![b] = IF Exists(b) THEN @ ELSE now]
    /\ order' = ToEnd(b)
    /\ UNCHANGED <<now, outcomes, link, pushed, task>>

(* create_reminder_from_chat_evidence: one row for each key, whatever has  *)
(* become of it.  Its evidence is of a chat on the context, which comes    *)
(* after the branches.                                                     *)
CreateReminder(r) ==
    /\ link[r].status = "NONE"
    /\ \A b \in Range(Candidates[r]) : Exists(b)
    /\ link' = [link EXCEPT ![r].status = "ACTIVE"]
    /\ UNCHANGED <<now, branchVars, outcomes, pushed, task, byHand>>

(* POST branches/settle.  No price is as a price between the lines.        *)
SettleByHand(u, b) ==
    /\ TaskAt(u, "idle") /\ Exists(b)
    /\ ByHand
    /\ \E price \in Prices, expired \in BOOLEAN, followed \in Answers \ {"followed"} :
          /\ expired => price = Between
          /\ Settle(b, "manual", now, price, expired, followed)
    /\ UNCHANGED <<now, link, pushed, task>>

-----------------------------------------------------------------------------
(* The outcome worker: tick, settle_due_scenario_outcomes.                 *)

(* Mutant: the windows are counted and not compared.                       *)
UnsettledByCount(b) ==
    {i \in DOMAIN Windows : i >= Cardinality({o \in outcomes : o.branch = b})}

(* _existing_windows                                                       *)
Unsettled(b) ==
    {i \in DOMAIN Windows : ~\E o \in outcomes : o.branch = b /\ o.window = Windows[i]}

(* Mutant: a window is due on its day only.                                *)
DueOnTheDay(b) == {i \in Unsettled(b) : now = created[b] + DueAge[Windows[i]]}

(* _is_window_due                                                          *)
DueWindows(b) == {i \in Unsettled(b) : now >= created[b] + DueAge[Windows[i]]}

(* _due_branch_windows: of the ACTIVE branches that have been unchanged    *)
(* for longest, those with a window that is due, and its first such.       *)
DueBranches(limit) ==
    LET active == {i \in DOMAIN order : status[order[i]] = "ACTIVE"}
        due == {i \in active : Rank(active, i) <= limit /\ DueWindows(order[i]) # {}}
        branches == Picked(order, due)
    IN  [i \in DOMAIN branches |->
            <<branches[i], Windows[FirstOf(DueWindows(branches[i]))]>>]

(* The worker lists the symbols of what is due, waits for their prices,    *)
(* and then lists anew; nothing else is kept over the wait.                *)
GetPrices ==
    /\ TaskAt("worker", "idle")
    /\ DueBranches(Limit) # <<>>
    /\ \E price \in Prices :
          Becomes("worker", [Idle EXCEPT !.at = "settle", !.price = price, !.checked = now,
                                !.queue = DueBranches(Limit)])
    /\ UNCHANGED <<now, branchVars, outcomes, link, pushed, byHand>>

(* One of the queue; what has happened to the branch since it was listed   *)
(* is not looked at.                                                       *)
SettleDue ==
    /\ TaskAt("worker", "settle")
    /\ LET t == task["worker"] IN
       /\ Settle(Head(t.queue)[1], Head(t.queue)[2], t.checked, t.price, FALSE, "none")
       /\ Becomes("worker", IF Tail(t.queue) = <<>> THEN Idle ELSE [t EXCEPT !.queue = Tail(@)])
    /\ UNCHANGED <<now, link, pushed, byHand>>

-----------------------------------------------------------------------------
(* The price monitor: _check_stop_losses, scan_structure_reminders.        *)

Reached(r, price) == price = (IF r \in Upward THEN Above ELSE Below)

(* _find_branch_for_reminder                                               *)
Found(r, settledToo) ==
    LET found(b) == IF settledToo THEN Exists(b) ELSE status[b] = "ACTIVE"
    IN  Picked(Candidates[r], {i \in DOMAIN Candidates[r] : found(Candidates[r][i])})

(* Mutant: the alerts that are triggered already are scanned as well.      *)
WaitingOrTriggered(r) == link[r].status \in {"ACTIVE", "TRIGGERED"}

Waits(r) == link[r].status = "ACTIVE"

(* One transaction for all the reminders that the price has reached.  The  *)
(* monitor has waited for the price and reads the reminders after that.    *)
(* Its rounds are apart, so that no two triggers have the same time.       *)
Scan ==
    /\ TaskAt("monitor", "idle")
    /\ \A r \in Reminders : link[r].status \notin {"NONE", "ACTIVE"} => link[r].at < now
    /\ \E price \in Prices :
          LET hit == {r \in Reminders : Waits(r) /\ Reached(r, price)} IN
          /\ hit # {}
          /\ link' = [r \in Reminders |->
                         IF r \in hit THEN [status |-> "TRIGGERED", at |-> now] ELSE link[r]]
          /\ Becomes("monitor", [Idle EXCEPT !.at = "settle", !.price = price, !.checked = now,
                                    !.found = SetToSeq(hit), !.push = hit])
    /\ UNCHANGED <<now, branchVars, outcomes, pushed, byHand>>

NextFound ==
    LET left == Tail(task["monitor"].found) IN
    [task["monitor"] EXCEPT !.found = left, !.at = IF left = <<>> THEN "push" ELSE "settle"]

(* _auto_settle_branch_for_reminder; an exception is swallowed.            *)
AutoSettle ==
    /\ TaskAt("monitor", "settle")
    /\ LET t == task["monitor"]
           found == Found(Head(t.found), FALSE) IN
       \/ /\ found # <<>>
          /\ Settle(Head(found), "ai_reminder_trigger", t.checked, t.price, FALSE, "none")
          /\ Becomes("monitor", NextFound)
          /\ UNCHANGED byHand
       \/ /\ IF found = <<>> THEN UNCHANGED byHand ELSE ByHand
          /\ Becomes("monitor", NextFound)
          /\ UNCHANGED <<branchVars, outcomes>>
    /\ UNCHANGED <<now, link, pushed>>

(* The messages are sent after everything else.                            *)
Push ==
    /\ TaskAt("monitor", "push")
    /\ pushed' = [r \in Reminders |->
                     IF r \in task["monitor"].push THEN pushed[r] + 1 ELSE pushed[r]]
    /\ Becomes("monitor", Idle)
    /\ UNCHANGED <<now, branchVars, outcomes, link, byHand>>

-----------------------------------------------------------------------------
(* ack_structure_reminder.                                                 *)

Latest(b) ==
    LET own == {o \in outcomes : o.branch = b /\ o.window = "ai_reminder_trigger"} IN
    {o \in own : \A p \in own : p.at <= o.at}

(* The row and its branch are read, and whether the branch has an outcome. *)
ReadAck(u) ==
    /\ TaskAt(u, "idle")
    /\ \E r \in Reminders, answer \in {"followed", "ignored", "watch"} :
          LET branch == Found(r, TRUE)
              open == answer # "watch" /\ branch # <<>> /\ Latest(Head(branch)) = {} IN
          /\ link[r].status = "TRIGGERED"
          /\ Becomes(u, [Idle EXCEPT
                !.at = IF open THEN "settle" ELSE "commit", !.answer = answer,
                !.found = <<r>>,
                !.queue = IF answer = "watch" \/ branch = <<>> THEN <<>>
                          ELSE <<<<Head(branch), "ai_reminder_trigger">>>>])
    /\ UNCHANGED <<now, branchVars, outcomes, link, pushed, byHand>>

(* Without an outcome the branch is settled first, at the price and the    *)
(* time of the reminder.                                                   *)
SettleAck(u) ==
    /\ TaskAt(u, "settle")
    /\ LET t == task[u]
           r == Head(t.found) IN
       /\ Settle(Head(t.queue)[1], "ai_reminder_trigger", link[r].at,
                 IF r \in Upward THEN Above ELSE Below, FALSE, t.answer)
       /\ Becomes(u, [t EXCEPT !.at = "commit"])
    /\ UNCHANGED <<now, link, pushed, byHand>>

Acked(answer) ==
    CASE answer = "followed" -> "ACKED_HANDLED"
      [] answer = "ignored" -> "ACKED_IGNORED"
      [] OTHER -> "ACKED_CONTINUE_WATCH"

(* Mutant: the answer is not written on an outcome that exists already.    *)
CommitAckOnly(u) ==
    /\ TaskAt(u, "commit")
    /\ LET r == Head(task[u].found) IN
       IF link[r].status # "TRIGGERED" THEN UNCHANGED link
       ELSE link' = [link EXCEPT ![r].status = Acked(task[u].answer)]
    /\ Becomes(u, Idle)
    /\ UNCHANGED <<now, branchVars, outcomes, pushed, byHand>>

(* The answer goes to the latest outcome of the branch, and the row to its *)
(* ACKED status, or, when it is not TRIGGERED any more, neither.           *)
CommitAck(u) ==
    /\ TaskAt(u, "commit")
    /\ LET t == task[u]
           r == Head(t.found)
           mine == IF t.queue = <<>> THEN {} ELSE Latest(Head(t.queue)[1]) IN
       IF link[r].status # "TRIGGERED"
       THEN Becomes(u, Idle) /\ UNCHANGED <<outcomes, link>>
       ELSE /\ outcomes' = (outcomes \ mine)
                           \cup {[o EXCEPT !.followed = t.answer] : o \in mine}
            /\ link' = [link EXCEPT ![r].status = Acked(t.answer)]
            /\ Becomes(u, Idle)
    /\ UNCHANGED <<now, branchVars, pushed, byHand>>

-----------------------------------------------------------------------------
Passes == now < MaxTime /\ now' = now + 1
          /\ UNCHANGED <<branchVars, outcomes, link, pushed, task, byHand>>

StopProcess ==
    /\ ByHand
    /\ task' = [a \in Actors |-> Idle]
    /\ UNCHANGED <<now, branchVars, outcomes, link, pushed>>

ScenarioNext ==
    \/ \E b \in Branches : SaveBranch(b)
    \/ \E r \in Reminders : CreateReminder(r)
    \/ \E u \in Users : ReadAck(u) \/ SettleAck(u) \/ CommitAck(u)
                        \/ \E b \in Branches : SettleByHand(u, b)
    \/ GetPrices \/ SettleDue \/ Scan \/ AutoSettle \/ Push
    \/ Passes \/ StopProcess

ScenarioSpec == ScenarioInit /\ [][ScenarioNext]_scenarioVars

(* Time passes, the worker's loop goes on, and the quotes come sooner or   *)
(* later.                                                                  *)
FairScenarioSpec ==
    /\ ScenarioSpec
    /\ WF_scenarioVars(Passes) /\ WF_scenarioVars(GetPrices) /\ WF_scenarioVars(SettleDue)

-----------------------------------------------------------------------------
(* Properties.                                                             *)

(* The worker settles a branch once in each window, also when the process  *)
(* stops between its transactions and when a branch was settled or saved   *)
(* anew while the prices were awaited.                                     *)
OnceAWindow ==
    \A o, p \in outcomes :
        o.branch = p.branch /\ o.window = p.window /\ o.window \in Range(Windows) => o = p

(* "user_followed_plan records whether the user did as the reminder or the *)
(* plan said": a reminder becomes ACKED only in the step in which the      *)
(* answer is on the latest outcome of its branch, if it has one, and is    *)
(* not answered again; whatever the clients that answer, the monitor, the  *)
(* worker or another reminder of the branch have done since the branch and *)
(* its outcome were looked up in transactions of their own.                *)
Answered ==
    \A r \in Reminders, answer \in {"followed", "ignored"} :
        /\ link[r].status \notin {"NONE", "ACTIVE", "TRIGGERED"} => link'[r] = link[r]
        /\ link'[r].status = Acked(answer) /\ link[r].status # Acked(answer) =>
              /\ link[r].status = "TRIGGERED"
              /\ \/ Found(r, TRUE) = <<>>
                 \/ \E b \in Range(Candidates[r]) :
                       Latest(b)' # {} /\ \A o \in Latest(b)' : o.followed = answer

AnswerWithAck == [][Answered]_scenarioVars

(* A reminder is pushed once at most, and never before it is triggered.    *)
PushedOnce ==
    \A r \in Reminders :
        /\ pushed[r] <= 1
        /\ pushed[r] = 1 => link[r].status \notin {"NONE", "ACTIVE"}

(* Every branch is settled in all of its windows, or not ACTIVE any more,  *)
(* in the end, when the worker looks at all of the ACTIVE branches.        *)
WindowsSettled ==
    \A b \in Branches :
        status[b] = "ACTIVE" ~> status[b] # "ACTIVE" \/ Unsettled(b) = {}
=============================================================================
