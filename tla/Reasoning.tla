----------------------------- MODULE Reasoning ------------------------------
(***************************************************************************)
(* When a full reasoning of a symbol is asked for, and what it leaves, for *)
(* one user: the gate of ai_trigger_service.py, the two calls of the       *)
(* language model of unified_reasoning_service.py, the three commits of    *)
(* their result and the log that the gate reads the next time.             *)
(* The requests run on one event loop: between two awaits, in one step,    *)
(* nothing else of the loop happens.  The three commits and the log follow *)
(* each other without an await; they are steps of their own because the    *)
(* process may stop, or a statement may raise, between them.               *)
(* A snapshot of a symbol is a number, the newest one the greatest; the    *)
(* texts are numbered in the order in which they come to be saved.         *)
(***************************************************************************)
EXTENDS Naturals, FiniteSets, Sequences, SequencesExt

CONSTANTS
    Names,          \* the symbols, in the order of their names
    Pages,          \* the requests of pages that may be open at a time
    PerUser,        \* AI_UNIFIED_REASONING_SYMBOLS_PER_USER
    Cooldown,       \* AI_TRIGGER_COOLDOWN_SECONDS
    AutoEnabled,    \* AI_TRIGGER_ENABLED and AI_AUTO_FULL_REASONING_ENABLED
    ManualEnabled,  \* AI_TRIGGER_ENABLED and AI_MANUAL_FULL_REASONING_ENABLED
    MaxSnapshot,    \* bound: the snapshots of a symbol
    MaxTime,        \* bound: the clock
    MaxChanges      \* bound: how often, together, the board changes, a page asks,
                    \* the process stops or a statement or a call raises

ASSUME ReasoningBounds ==
    /\ PerUser \in Nat \ {0}
    /\ {Cooldown, MaxSnapshot, MaxTime, MaxChanges} \subseteq Nat
    /\ Names \in Seq(Range(Names))

Symbols == Range(Names)
Requests == {"worker"} \cup Pages

VARIABLES
    clock,
    newest,         \* symbol -> its newest snapshot, 0 without one
    board,          \* the symbols on the visible groups of the watchlist
    held,           \* the symbols with a position
    reasoned,       \* ai_structure_reasoning_runs: the runs that succeeded, one
                    \* for each symbol and snapshot
    explained,      \* ai_structure_contexts of this version, likewise
    trail,          \* ai_trigger_logs of the requests that generated a reasoning;
                    \* nothing reads the others
    request,        \* what the worker and each page are doing
    texts,          \* how many texts have come to be saved
    changes         \* history: see MaxChanges

reasoningVars ==
    <<clock, newest, board, held, reasoned, explained, trail, request, texts, changes>>
worldVars == <<clock, newest, board, held>>

Texts == [ symbol : Symbols, snapshot : 1..MaxSnapshot, text : Nat ]
Logs == [ symbol : Symbols, at : Nat, text : Nat ]
Working == [ at : {"think", "extract", "run", "context", "attach", "log"},
             symbol : Symbols, snapshot : 1..MaxSnapshot, text : Nat,
             queue : Seq(Symbols) ]
Waiting == [ at : {"idle"}, queue : Seq(Symbols) ]

ReasoningTypeOK ==
    /\ clock \in 0..MaxTime
    /\ newest \in [Symbols -> 0..MaxSnapshot]
    /\ board \subseteq Symbols /\ held \subseteq Symbols
    /\ \A table \in {reasoned, explained} :
          /\ table \subseteq Texts
          /\ \A x, y \in table :
                x.symbol = y.symbol /\ x.snapshot = y.snapshot => x = y
    /\ trail \subseteq Logs
    /\ request \in [Requests -> Waiting \cup Working]
    /\ texts \in Nat
    /\ changes \in 0..MaxChanges

Free == [ at |-> "idle", queue |-> <<>> ]

ReasoningInit ==
    /\ clock = 0
    /\ newest = [s \in Symbols |-> 0]
    /\ board = Symbols
    /\ held = {}
    /\ reasoned = {}
    /\ explained = {}
    /\ trail = {}
    /\ request = [q \in Requests |-> Free]
    /\ texts = 0
    /\ changes = 0

RequestAt(q, step) == request[q].at = step
Proceeds(q, state) == request' = [request EXCEPT ![q] = state]

(* Nobody is between the commits, which hold the loop.                     *)
LoopFree == \A q \in Requests : request[q].at \notin {"run", "context", "attach", "log"}

Changes == changes < MaxChanges /\ changes' = changes + 1

(* A row for the symbol and the snapshot: a new one, or in the place of    *)
(* the old one.                                                            *)
Upsert(table, new) ==
    {t \in table : t.symbol # new.symbol \/ t.snapshot # new.snapshot} \cup {new}

-----------------------------------------------------------------------------
(* The board.                                                              *)

(* resolve_watchboard_universe: the held symbols first, then by name.      *)
Precedes(a, b) ==
    \/ a \in held /\ b \notin held
    \/ /\ a \in held <=> b \in held
       /\ \E i, j \in DOMAIN Names : i < j /\ Names[i] = a /\ Names[j] = b

(* The only order of the board, in a set.                                  *)
Universe ==
    { order \in [1..Cardinality(board) -> board] :
        \A i, j \in DOMAIN order : i < j => Precedes(order[i], order[j]) }

Takes(n, seq) == SubSeq(seq, 1, IF Len(seq) < n THEN Len(seq) ELSE n)

BoardChanges ==
    /\ Changes /\ LoopFree
    /\ \E s \in Symbols :
          \/ /\ board' = IF s \in board THEN board \ {s} ELSE board \cup {s}
             /\ UNCHANGED held
          \/ /\ held' = IF s \in held THEN held \ {s} ELSE held \cup {s}
             /\ UNCHANGED board
    /\ UNCHANGED <<clock, newest, reasoned, explained, trail, request, texts>>

NewSnapshot(s) ==
    /\ LoopFree
    /\ newest[s] < MaxSnapshot
    /\ newest' = [newest EXCEPT ![s] = @ + 1]
    /\ UNCHANGED <<clock, board, held, reasoned, explained, trail, request, texts, changes>>

TimePasses ==
    /\ LoopFree
    /\ clock < MaxTime
    /\ clock' = clock + 1
    /\ UNCHANGED <<newest, board, held, reasoned, explained, trail, request, texts, changes>>

-----------------------------------------------------------------------------
(* A request: request_ai_reasoning, trigger_unified_reasoning.             *)

(* _in_cooldown                                                            *)
InCooldown(s) ==
    \E l \in trail : l.symbol = s /\ l.at + Cooldown >= clock

(* _decide                                                                 *)
Granted(q, s, forced) ==
    /\ IF q = "worker" THEN AutoEnabled /\ s \in board ELSE ManualEnabled
    /\ forced \/ ~(Cooldown > 0 /\ InCooldown(s))

(* Back to the caller, which goes on with its next symbol.                 *)
Returns(q) == Proceeds(q, [at |-> "idle", queue |-> request[q].queue])

(* insert_ai_trigger_log of a reasoning that was generated.                *)
LogsText(q) ==
    trail' = trail \cup
        {[symbol |-> request[q].symbol, at |-> clock, text |-> request[q].text]}

(* Without a snapshot the request ends in a log of the error, which no     *)
(* other request looks at; the worker goes on with its next symbol.        *)
Ask(q, s, forced, rest) ==
    Proceeds(q, IF ~Granted(q, s, forced) \/ newest[s] = 0 THEN [at |-> "idle", queue |-> rest]
                ELSE [ at |-> "think", symbol |-> s, snapshot |-> newest[s], text |-> 0,
                       queue |-> rest ])

(* tick of the worker: the universe is read once, its first symbols are    *)
(* asked for one after the other.                                          *)
WorkerTicks ==
    /\ LoopFree
    /\ RequestAt("worker", "idle") /\ request["worker"].queue = <<>>
    /\ board # {}
    /\ \E order \in Universe :
          Proceeds("worker", [at |-> "idle", queue |-> Takes(PerUser, order)])
    /\ UNCHANGED <<worldVars, reasoned, explained, trail, texts, changes>>

(* Mutant: a round ends with its first symbol.                             *)
WorkerAsksFirst ==
    /\ LoopFree
    /\ RequestAt("worker", "idle") /\ request["worker"].queue # <<>>
    /\ Ask("worker", Head(request["worker"].queue), FALSE, <<>>)
    /\ UNCHANGED <<worldVars, reasoned, explained, trail, texts, changes>>

WorkerAsks ==
    /\ LoopFree
    /\ RequestAt("worker", "idle") /\ request["worker"].queue # <<>>
    /\ LET queue == request["worker"].queue IN
       Ask("worker", Head(queue), FALSE, Tail(queue))
    /\ UNCHANGED <<worldVars, reasoned, explained, trail, texts, changes>>

(* POST unified-reasoning/trigger: any symbol, forced or not.              *)
PageAsks(p) ==
    /\ LoopFree
    /\ RequestAt(p, "idle")
    /\ Changes
    /\ \E s \in Symbols, forced \in BOOLEAN : Ask(p, s, forced, <<>>)
    /\ UNCHANGED <<worldVars, reasoned, explained, trail, texts>>

(* The long call returns a text...                                         *)
Answers(q) ==
    /\ LoopFree
    /\ RequestAt(q, "think")
    /\ Proceeds(q, [request[q] EXCEPT !.at = "extract"])
    /\ UNCHANGED <<worldVars, reasoned, explained, trail, texts, changes>>

(* ... or it raises, or the text is empty.                                 *)
AnswerFails(q) ==
    /\ LoopFree
    /\ RequestAt(q, "think")
    /\ Changes
    /\ Returns(q)
    /\ UNCHANGED <<worldVars, reasoned, explained, trail, texts>>

(* extract_watchboard_payload: its errors only leave an empty card.        *)
Extracts(q) ==
    /\ LoopFree
    /\ RequestAt(q, "extract")
    /\ texts' = texts + 1
    /\ Proceeds(q, [request[q] EXCEPT !.at = "run", !.text = texts + 1])
    /\ UNCHANGED <<worldVars, reasoned, explained, trail, changes>>

(* save_unified_reasoning_result: the run, the context of the same         *)
(* symbol and snapshot, and the run again with the id of the context.      *)
TextOf(q) ==
    LET r == request[q] IN [symbol |-> r.symbol, snapshot |-> r.snapshot, text |-> r.text]

(* Mutant: the rows are only ever added.                                   *)
SavesRunAgain(q) ==
    /\ RequestAt(q, "run")
    /\ reasoned' = reasoned \cup {TextOf(q)}
    /\ Proceeds(q, [request[q] EXCEPT !.at = "context"])
    /\ UNCHANGED <<worldVars, explained, trail, texts, changes>>

SavesRun(q) ==
    /\ RequestAt(q, "run")
    /\ reasoned' = Upsert(reasoned, TextOf(q))
    /\ Proceeds(q, [request[q] EXCEPT !.at = "context"])
    /\ UNCHANGED <<worldVars, explained, trail, texts, changes>>

SavesContext(q) ==
    /\ RequestAt(q, "context")
    /\ explained' = Upsert(explained, TextOf(q))
    /\ Proceeds(q, [request[q] EXCEPT !.at = "attach"])
    /\ UNCHANGED <<worldVars, reasoned, trail, texts, changes>>

AttachesRun(q) ==
    /\ RequestAt(q, "attach")
    /\ reasoned' = Upsert(reasoned, TextOf(q))
    /\ Proceeds(q, [request[q] EXCEPT !.at = "log"])
    /\ UNCHANGED <<worldVars, explained, trail, texts, changes>>

Logged(q) ==
    /\ RequestAt(q, "log")
    /\ LogsText(q)
    /\ Returns(q)
    /\ UNCHANGED <<worldVars, reasoned, explained, texts, changes>>

(* Mutant: what was saved before the exception is reported as generated.   *)
SaveRaisesGenerated(q) ==
    /\ request[q].at \in {"run", "context", "attach"}
    /\ Changes
    /\ LogsText(q)
    /\ Returns(q)
    /\ UNCHANGED <<worldVars, reasoned, explained, texts>>

(* One of the three commits raises: those before it stand, and the log     *)
(* says that the request has failed.                                       *)
SaveRaises(q) ==
    /\ request[q].at \in {"run", "context", "attach"}
    /\ Changes
    /\ Returns(q)
    /\ UNCHANGED <<worldVars, reasoned, explained, trail, texts>>

(* The process stops: CancelledError is not an Exception, nothing is       *)
(* logged.                                                                 *)
ProcessStops ==
    /\ Changes
    /\ request' = [q \in Requests |-> Free]
    /\ UNCHANGED <<worldVars, reasoned, explained, trail, texts>>

ReasoningNext ==
    \/ BoardChanges \/ TimePasses \/ ProcessStops \/ WorkerTicks \/ WorkerAsks
    \/ \E s \in Symbols : NewSnapshot(s)
    \/ \E p \in Pages : PageAsks(p)
    \/ \E q \in Requests :
          \/ Answers(q) \/ AnswerFails(q) \/ Extracts(q)
          \/ SavesRun(q) \/ SavesContext(q) \/ AttachesRun(q) \/ Logged(q) \/ SaveRaises(q)

ReasoningSpec == ReasoningInit /\ [][ReasoningNext]_reasoningVars

(* The event loop goes on, the worker ticks, and a call of the language    *)
(* model returns: it has a timeout.                                        *)
FairReasoningSpec ==
    /\ ReasoningSpec
    /\ WF_reasoningVars(WorkerTicks) /\ WF_reasoningVars(WorkerAsks)
    /\ \A q \in Requests :
          /\ WF_reasoningVars(Answers(q)) /\ WF_reasoningVars(Extracts(q))
          /\ WF_reasoningVars(SavesRun(q)) /\ WF_reasoningVars(SavesContext(q))
          /\ WF_reasoningVars(AttachesRun(q)) /\ WF_reasoningVars(Logged(q))

-----------------------------------------------------------------------------
(* Properties.                                                             *)

(* What is logged as generated can be read: the run and the context of the *)
(* symbol are there with this text or a later one.                         *)
GeneratedIsThere ==
    \A l \in trail, table \in {reasoned, explained} :
        \E t \in table : t.symbol = l.symbol /\ t.text >= l.text

(* Every symbol that stays on the board, once it has a snapshot, gets its  *)
(* reasoning in the end, when the worker asks for as many as there are.    *)
BoardReasoned ==
    \A s \in Symbols :
        s \in board /\ newest[s] > 0
            ~> s \notin board \/ \E run \in reasoned : run.symbol = s

(* ReasoningTypeOK and GeneratedIsThere: the tables are of their types, and *)
(* what is logged as generated can be read (request_ai_reasoning,          *)
(* save_unified_reasoning_result).                                         *)
ReasoningSound == ReasoningTypeOK /\ GeneratedIsThere
=============================================================================
