------------------------------ MODULE ServerStart ------------------------------
(***************************************************************************)
(* The start of the server (app.py lifespan): init_db runs the schema      *)
(* script and the migrations over the database it finds, init_lake brings  *)
(* the four lakes up and splits a lake of the time before the split, the   *)
(* default user is made, and the workers start.  The program is a list of  *)
(* statements; each commits of its own (DDL does not open a transaction    *)
(* in sqlite3), but the rebuilds of trades and alerts, which are           *)
(* transactions.  The process may stop between any two commits and be      *)
(* started again.                                                          *)
(*                                                                         *)
(* A table is known by what migrations change: its moved columns, the      *)
(* tables its foreign keys name, whether its CHECK (or unique key) is the  *)
(* wide one of today, its rows, and the rows with a preset.  An index is   *)
(* kept where it is on a moved column or goes with a rebuilt table.        *)
(***************************************************************************)
EXTENDS Integers, Sequences, SequencesExt, FiniteSets

CONSTANTS
    Databases,      \* databases that may be found: functions from table names
    OldLakes,       \* the bars of kline_lake.db that may be found; {}: no file
    Lakes,          \* lakes that may be found, one for every source
    Rows,           \* rows of trades and alerts
    RawDays,        \* bars of freq day and adjustflag 3
    Torn,           \* the process may stop inside a migration of rows
    MaxStops        \* bound on the stops

VARIABLES
    db,         \* name -> [refs, cols, wide, rows, filled], the tables there are
    indexes,    \* names of the indexes
    lakes,      \* source -> name -> [rows, wide], klines and klines_old
    marks,      \* source -> bars whose synchronisation is marked
    oldLake,    \* the bars of kline_lake.db
    phase,      \* off, starting, up, failed
    at,         \* the next statement
    stops,      \* stops so far
    found       \* the rows and bars of before the first start

startVars == <<db, indexes, lakes, marks, oldLake, phase, at, stops, found>>

Sources == {"tdx", "baostock", "qmt", "intraday"}
-----------------------------------------------------------------------------
(* Statements. *)

Create(t, refs) == [do |-> "create", of |-> t, refs |-> refs]
Index(i, t, column) == [do |-> "index", of |-> i, on |-> t, column |-> column]
Add(t, column) == [do |-> "add", of |-> t, column |-> column]
Do(what) == [do |-> what]
Lake(what, source) == [do |-> what, of |-> source]

Of(tables, refs) == [k \in 1..Len(tables) |-> Create(tables[k], refs)]
Adds(t, columns) == [k \in 1..Len(columns) |-> Add(t, columns[k])]

User == {"users"}
Account == {"users", "paper_accounts"}
InRun == Account \cup {"paper_replay_runs"}

TradeTables ==
    Of(<<"trades", "trade_import_batches">>, User)
        \o <<Create("trade_import_drafts", {"users", "trade_import_batches"})>>
        \o Of(<<"positions", "alerts", "behavior_stats">>, User)

StructureTables ==
    Of(<<"structure_snapshots", "structure_snapshot_jobs">>, {})
        \o Of(<<"ai_structure_contexts", "ai_structure_reasoning_runs", "ai_trigger_logs">>,
              User)

ScenarioTables ==
    Of(<<"ai_structure_context_jobs", "scenario_branches", "ai_structure_chat_sessions",
         "ai_structure_chat_messages", "ai_structure_reminder_links", "scenario_outcomes",
         "ai_symbol_memory_profiles">>, User)

UniqueImport == Index("idx_trades_import_draft_unique", "trades", "import_draft_id")

TradeIndexes ==
    <<Index("idx_trades_user", "trades", ""), UniqueImport,
      Index("idx_alerts_user", "alerts", "")>>

EventTables ==
    <<Create("coach_events", User),
      Create("strategy_triggers", {"users", "coach_events"}),
      Create("alert_deliveries", {"users", "coach_events"})>>

WatchTables ==
    <<Create("watchlist_groups", User), Create("watchlist_items", {"watchlist_groups"})>>
        \o EventTables \o <<Create("scan_results", {})>>

PaperTables ==
    <<Create("paper_accounts", User), Create("paper_positions", {"paper_accounts"}),
      Create("paper_replay_runs", Account), Create("paper_intents", InRun),
      Create("paper_decisions", InRun \cup {"paper_intents"}),
      Create("paper_fills", InRun \cup {"paper_intents"}),
      Create("paper_feature_cache", {})>>

Schema ==
    <<Create("users", {})>> \o TradeTables \o StructureTables \o ScenarioTables
        \o <<Create("portfolio_strategies", User)>> \o TradeIndexes \o WatchTables
        \o PaperTables \o <<Create("market_data_batches", {})>>

ImportColumns == <<"broker", "is_aggregated", "import_batch_id", "import_draft_id">>
StrategyColumns == <<"strategy_id", "strategy_version", "strategy_contract">>
PositionColumns == <<"entry_date", "strategy_type", "m5_entry_zg", "entry_thesis_json">>
PlanColumns == <<"plan_relationship", "discipline_tag", "coach_event_id">>
ContextColumns == <<"reasoning_json", "main_level", "trigger_level", "coach_summary">>
CoachColumns == <<"t0_enabled", "t0_qty">>

ColumnMigrations ==
    Adds("positions", PositionColumns) \o Adds("trades", PlanColumns \o ImportColumns)
        \o Adds("scan_results", <<"fundamental">>) \o Adds("alerts", StrategyColumns)
        \o Adds("ai_structure_contexts", ContextColumns)

ImportMigrations ==
    EventTables
        \o <<Create("trade_import_batches", User),
             Create("trade_import_drafts", {"users", "trade_import_batches"}),
             Index("idx_trades_import_batch", "trades", "import_batch_id"), UniqueImport>>

CoachMigrations ==
    <<Create("t0_state_cache", {})>> \o Adds("watchlist_items", CoachColumns)
        \o <<Create("market_data_batches", {})>>

(* The tables of the schema once more, for a database that lacks them.     *)
PaperMigrations == PaperTables
StructureMigrations == StructureTables
ScenarioMigrations == ScenarioTables

Migrations ==
    ColumnMigrations \o ImportMigrations \o PaperMigrations \o StructureMigrations
        \o ScenarioMigrations \o CoachMigrations
        \o <<Do("preset"), Do("fill")>> \o Adds("trades", ImportColumns)
        \o <<Do("trades")>> \o Adds("alerts", StrategyColumns) \o <<Do("alerts")>>

InitLake(source) ==
    <<Lake("klines", source), Lake("rename", source), Lake("recreate", source),
      Lake("refill", source)>>

Program ==
    Schema \o Migrations
        \o InitLake("tdx") \o InitLake("baostock") \o InitLake("qmt") \o InitLake("intraday")
        \o <<Do("split tdx"), Do("split baostock"), Do("user")>>
-----------------------------------------------------------------------------
(* Tables. *)

(* The columns that migrations add, and those a new table lacks.           *)
Moved ==
    [t \in {"positions", "trades", "scan_results", "alerts", "ai_structure_contexts",
            "watchlist_items", "paper_feature_cache"} |->
        ToSet(CASE t = "positions" -> PositionColumns
                [] t = "trades" -> PlanColumns \o ImportColumns
                [] t = "scan_results" -> <<"fundamental">>
                [] t = "alerts" -> StrategyColumns
                [] t = "ai_structure_contexts" -> ContextColumns
                [] t = "watchlist_items" -> CoachColumns
                [] OTHER -> <<"engine_preset">>)]

NewTable(t, refs) ==
    [refs |-> refs,
     cols |-> IF t \in DOMAIN Moved \ {"watchlist_items"} THEN Moved[t] ELSE {},
     wide |-> TRUE, rows |-> {}, filled |-> {}]

With(f, x, y) == [z \in DOMAIN f \cup {x} |-> IF z = x THEN y ELSE f[z]]
Without(f, x) == [z \in DOMAIN f \ {x} |-> f[z]]

(* ALTER TABLE ... RENAME: the foreign keys that name the table follow it, *)
(* and stay with the old name when the renamed table is dropped.           *)
Renamed(d, t, old) ==
    LET repoint(x) ==
          [x EXCEPT !.refs = IF t \in @ THEN (@ \ {t}) \cup {old} ELSE @]
    IN  [u \in DOMAIN d \ {t} |-> repoint(d[u])]

(* The indexes of a table go with it.                                      *)
IndexesOf(t) ==
    IF t = "trades"
    THEN {"idx_trades_user", "idx_trades_import_batch", "idx_trades_import_draft_unique"}
    ELSE {"idx_alerts_user"}

(* Mutant: the rebuild leaves the unique index out.                        *)
RemadeWithoutUnique(t) == IndexesOf(t) \ {"idx_trades_import_draft_unique"}

(* The indexes that a rebuild makes again.                                 *)
Remade(t) == IndexesOf(t)

(* A rebuild makes the table anew with all its columns and the wide check, *)
(* copies the rows, drops the old one and makes the indexes again.         *)
Rebuilt(d, t) ==
    With(Renamed(d, t, t \o "_old"), t, [NewTable(t, User) EXCEPT !.rows = d[t].rows])
-----------------------------------------------------------------------------
(* What is found. *)

Columns == UNION {Moved[t] : t \in DOMAIN Moved}
Tables == {Program[k].of : k \in {j \in DOMAIN Program : Program[j].do = "create"}}

TableRecords ==
    [refs: SUBSET Tables, cols: SUBSET Columns, wide: BOOLEAN,
     rows: SUBSET (Rows \cup {"dev"}), filled: SUBSET Rows]

(* A table that is found: no foreign key names trades or alerts, in any    *)
(* version of the schema, and what may be narrow is rebuilt.               *)
FoundTables ==
    [refs: SUBSET (Tables \ {"trades", "alerts"}), cols: SUBSET Columns, wide: BOOLEAN,
     rows: SUBSET (Rows \cup {"dev"}), filled: SUBSET Rows]

FoundCache(t) ==
    t.rows \subseteq Rows /\ ("engine_preset" \in t.cols => t.filled = t.rows)

ASSUME StartAssumption ==
    /\ Torn \in BOOLEAN
    /\ \A d \in Databases :
          /\ DOMAIN d \subseteq Tables /\ \A t \in DOMAIN d : d[t] \in FoundTables
          /\ \A t \in DOMAIN d \ {"trades", "alerts"} : d[t].wide
          /\ "paper_feature_cache" \in DOMAIN d => FoundCache(d["paper_feature_cache"])
    /\ \A f \in Lakes :
          DOMAIN f = Sources /\ \A s \in Sources : DOMAIN f[s] \subseteq {"klines"}

(* Where the bars of kline_lake.db belong; they are split into lakes that  *)
(* are both empty.                                                         *)
ShareOf(source) ==
    CASE source = "tdx" -> oldLake \cap RawDays
      [] source = "baostock" -> oldLake \ RawDays
      [] OTHER -> {}

BarsIn(lake) == IF "klines" \in DOMAIN lake THEN lake["klines"].rows ELSE {}

SplitDue == oldLake # {} /\ BarsIn(lakes["tdx"]) \cup BarsIn(lakes["baostock"]) = {}

StartInit ==
    /\ db \in Databases
    /\ indexes = {}
    /\ oldLake \in OldLakes
    /\ lakes \in Lakes
    /\ marks = [s \in Sources |-> BarsIn(lakes[s])]
    /\ phase = "off" /\ at = 1 /\ stops = 0
    /\ found = [rows |-> [t \in DOMAIN db |-> db[t].rows],
                bars |-> [s \in Sources |-> BarsIn(lakes[s]) \cup
                                            (IF SplitDue THEN ShareOf(s) ELSE {})]]
-----------------------------------------------------------------------------
(* Statements at work. *)

Now == Program[at]
Due(what) == phase = "starting" /\ at <= Len(Program) /\ Now.do = what
Go(n) == at' = at + n /\ UNCHANGED <<oldLake, stops, found>>

(* Mutant: the script makes its tables anew, also those that are there.    *)
CreateTableAnew ==
    /\ Due("create")
    /\ db' = With(db, Now.of, NewTable(Now.of, Now.refs))
    /\ Go(1) /\ UNCHANGED <<indexes, lakes, marks, phase>>

CreateTable ==
    /\ Due("create")
    /\ db' = IF Now.of \in DOMAIN db THEN db ELSE With(db, Now.of, NewTable(Now.of, Now.refs))
    /\ Go(1) /\ UNCHANGED <<indexes, lakes, marks, phase>>

(* A statement of the script that fails ends the start; run_migrations     *)
(* goes on after any error of one of its own.                              *)
Tolerated == at > Len(Schema)

CreateIndex ==
    LET possible == Now.column \in db[Now.on].cols \cup {""}
    IN  /\ Due("index")
        /\ indexes' = IF possible THEN indexes \cup {Now.of} ELSE indexes
        /\ phase' = IF possible \/ Tolerated THEN phase ELSE "failed"
        /\ Go(1) /\ UNCHANGED <<db, lakes, marks>>

AddColumn ==
    /\ Due("add")
    /\ db' = [db EXCEPT ![Now.of].cols = @ \cup {Now.column}]
    /\ Go(1) /\ UNCHANGED <<indexes, lakes, marks, phase>>

(* migrate_paper_feature_cache_engine_preset: the column, then the update  *)
(* of the rows, which the caller commits; with the column there is no      *)
(* update.                                                                 *)
AddPreset ==
    LET cache == "paper_feature_cache"
    IN  /\ Due("preset")
        /\ db' = [db EXCEPT ![cache].cols = @ \cup {"engine_preset"}]
        /\ Go(IF "engine_preset" \in db[cache].cols THEN 2 ELSE 1)
        /\ UNCHANGED <<indexes, lakes, marks, phase>>

FillPreset ==
    /\ Due("fill")
    /\ db' = [db EXCEPT !["paper_feature_cache"].filled = db["paper_feature_cache"].rows]
    /\ Go(1) /\ UNCHANGED <<indexes, lakes, marks, phase>>

(* migrate_trade_source_check and migrate_alert_type_check: one            *)
(* transaction.                                                            *)
Rebuild(t) ==
    /\ Due(t)
    /\ \/ db[t].wide /\ UNCHANGED <<db, indexes>>
       \/ /\ ~db[t].wide
          /\ db' = Rebuilt(db, t)
          /\ indexes' = (indexes \ IndexesOf(t)) \cup Remade(t)
    /\ Go(1) /\ UNCHANGED <<lakes, marks, phase>>

SetLake(source, lake) == lakes' = [lakes EXCEPT ![source] = lake]

CreateKlines ==
    LET lake == lakes[Now.of]
        fresh == [rows |-> {}, wide |-> TRUE]
    IN  /\ Due("klines")
        /\ SetLake(Now.of, IF "klines" \in DOMAIN lake THEN lake ELSE With(lake, "klines", fresh))
        /\ Go(1) /\ UNCHANGED <<db, indexes, marks, phase>>

(* _ensure_adjustflag_unique_key: the rename and the new table are         *)
(* committed at once, the copy and the drop at the end.                    *)
RenameKlines ==
    LET lake == lakes[Now.of]
    IN  /\ Due("rename")
        /\ \/ lake["klines"].wide /\ Go(3) /\ UNCHANGED lakes
           \/ /\ ~lake["klines"].wide
              /\ SetLake(Now.of, With(Without(lake, "klines"), "klines_old", lake["klines"]))
              /\ Go(1)
        /\ UNCHANGED <<db, indexes, marks, phase>>

RecreateKlines ==
    /\ Due("recreate")
    /\ SetLake(Now.of, With(lakes[Now.of], "klines", [rows |-> {}, wide |-> TRUE]))
    /\ Go(1) /\ UNCHANGED <<db, indexes, marks, phase>>

(* Mutant: the copy takes the raw bars, as of the time of the old key.     *)
CopiedRaw(lake) == lake["klines_old"].rows \cap RawDays

(* The rows that the copy takes over.                                      *)
Copied(lake) == lake["klines_old"].rows

RefillKlines ==
    LET lake == lakes[Now.of]
    IN  /\ Due("refill")
        /\ SetLake(Now.of, With(Without(lake, "klines_old"), "klines",
                                [rows |-> Copied(lake), wide |-> TRUE]))
        /\ Go(1) /\ UNCHANGED <<db, indexes, marks, phase>>

(* _maybe_migrate_legacy_lake: each of the two lakes has its own commit.   *)
Receive(source) ==
    /\ SetLake(source, [lakes[source] EXCEPT !["klines"].rows = @ \cup ShareOf(source)])
    /\ marks' = [marks EXCEPT ![source] = @ \cup ShareOf(source)]

SplitTdx ==
    /\ Due("split tdx")
    /\ \/ SplitDue /\ Receive("tdx") /\ Go(1)
       \/ ~SplitDue /\ UNCHANGED <<lakes, marks>> /\ Go(2)
    /\ UNCHANGED <<db, indexes, phase>>

SplitBaostock ==
    /\ Due("split baostock")
    /\ Receive("baostock")
    /\ Go(1) /\ UNCHANGED <<db, indexes, phase>>

DefaultUser ==
    /\ Due("user")
    /\ db' = [db EXCEPT !["users"].rows = @ \cup {"dev"}]
    /\ Go(1) /\ UNCHANGED <<indexes, lakes, marks, phase>>
-----------------------------------------------------------------------------
(* The process. *)

Begin ==
    /\ phase \in {"off", "failed"}
    /\ phase' = "starting" /\ at' = 1
    /\ UNCHANGED <<db, indexes, lakes, marks, oldLake, stops, found>>

Ready ==
    /\ phase = "starting" /\ at > Len(Program)
    /\ phase' = "up"
    /\ UNCHANGED <<db, indexes, lakes, marks, oldLake, at, stops, found>>

(* A page books a trade that comes from a screenshot: it needs the columns *)
(* of the import and the wide check.                                       *)
Book(r) ==
    /\ phase = "up" /\ db["trades"].wide
    /\ r \notin db["trades"].rows
    /\ db' = [db EXCEPT !["trades"].rows = @ \cup {r}]
    /\ UNCHANGED <<indexes, lakes, marks, oldLake, phase, at, stops, found>>

(* The commits after which a stop leaves a migration of rows half done,    *)
(* and the next start takes it as done.                                    *)
InMigration ==
    phase = "starting" /\ at <= Len(Program)
    /\ Now.do \in {"fill", "recreate", "refill", "split baostock"}

Stop ==
    /\ phase \in {"starting", "up"} /\ stops < MaxStops
    /\ InMigration => Torn
    /\ phase' = "off" /\ stops' = stops + 1
    /\ UNCHANGED <<db, indexes, lakes, marks, oldLake, at, found>>

StartNext ==
    \/ CreateTable \/ CreateIndex \/ AddColumn \/ AddPreset \/ FillPreset
    \/ Rebuild("trades") \/ Rebuild("alerts")
    \/ CreateKlines \/ RenameKlines \/ RecreateKlines \/ RefillKlines
    \/ SplitTdx \/ SplitBaostock \/ DefaultUser
    \/ Begin \/ Ready \/ Stop
    \/ \E r \in Rows : Book(r)

StartSpec == StartInit /\ [][StartNext]_startVars
-----------------------------------------------------------------------------
(* The variables are of their types; outside of a rebuild a lake has       *)
(* klines once the start came to it.                                       *)
StartTypeOK ==
    /\ DOMAIN db \subseteq Tables /\ \A t \in DOMAIN db : db[t] \in TableRecords
    /\ \A s \in Sources : marks[s] \subseteq BarsIn(lakes[s]) \cup oldLake \cup found.bars[s]
    /\ phase \in {"off", "starting", "up", "failed"} /\ at \in 1..(Len(Program) + 1)

(* Whatever database was found, and however often the start was cut short, *)
(* a server that is up works on the tables of today: every table is there  *)
(* with the columns that migrations add, the checks admit today's values,  *)
(* no foreign key names a table that a rebuild dropped, the index that     *)
(* keeps a draft from being booked twice is there, every cached row has    *)
(* its preset.                                                             *)
UpIsCurrent ==
    phase = "up" =>
        /\ DOMAIN db = Tables
        /\ \A t \in Tables : db[t].wide /\ db[t].refs \subseteq Tables
        /\ \A t \in DOMAIN Moved : Moved[t] \subseteq db[t].cols
        /\ IndexesOf("trades") \cup IndexesOf("alerts") \subseteq indexes
        /\ db["paper_feature_cache"].filled = db["paper_feature_cache"].rows

(* No start loses a trade, an alert or a cached row.                       *)
RowsKept ==
    \A t \in DOMAIN found.rows :
        found.rows[t] \subseteq UNION {db[u].rows : u \in {t} \cap DOMAIN db}

(* kline_lake.py:301: the old lake is split "so that the history does not  *)
(* become invisible": a server that is up serves every bar that was there  *)
(* before its first start, and what is marked as synchronised is there.    *)
BarsKept ==
    phase = "up" =>
        \A s \in Sources : found.bars[s] \cup marks[s] \subseteq BarsIn(lakes[s])

(* A start: tables of their types, a server that is up has the current     *)
(* schema, and no row or bar is lost by the migrations, wherever between   *)
(* them the process stops (run_migrations, init_lake).                     *)
StartSound == StartTypeOK /\ UpIsCurrent /\ RowsKept /\ BarsKept

(* database.py:803: run_migrations is for databases that exist already:    *)
(* the server comes up on each of them.                                    *)
ExistingDatabaseStarts == phase # "failed"
=============================================================================
