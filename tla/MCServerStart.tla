---------------------------- MODULE MCServerStart ----------------------------
(***************************************************************************)
(* The start of the server over databases and lakes of several ages.       *)
(***************************************************************************)
EXTENDS ServerStart

Table(refs, cols, wide, rows) ==
    [refs |-> refs, cols |-> cols, wide |-> wide, rows |-> rows, filled |-> {}]

Pick(names, f) == [t \in names |-> f[t]]

(* A database of today's schema but for what the older ones lack.          *)
Full ==
    [t \in Tables \ {"t0_state_cache"} |->
        LET made == CHOOSE k \in DOMAIN Program :
                      Program[k].do = "create" /\ Program[k].of = t
        IN  NewTable(t, Program[made].refs)]

(* Before the second rebuilds: the checks are narrow, the cache has the    *)
(* preset under its former name.                                           *)
DriftedDb ==
    [Full EXCEPT !["trades"] = Table(User, Moved["trades"], FALSE, {"r1"}),
                 !["alerts"] = Table(User, {}, FALSE, {"r1"}),
                 !["paper_feature_cache"] = Table({}, {}, TRUE, {"r1"})]

(* The tables of test_database_migrations.py, without trades.              *)
Early ==
    [Pick({"users", "positions", "scan_results", "alerts"}, Full) EXCEPT
        !["positions"].cols = {}, !["scan_results"].cols = {},
        !["alerts"] = Table(User, {}, FALSE, {"r1"})]

(* The trades of test_trade_import_migrations.py, without import columns.  *)
BeforeImports ==
    [Pick({"users", "positions", "alerts", "trades"}, Full) EXCEPT
        !["positions"].cols = {}, !["alerts"] = Table(User, {}, FALSE, {}),
        !["trades"] = Table({}, {}, FALSE, {"r1"})]

FreshDb == Pick({}, Full)

Served == {FreshDb, DriftedDb, Early}
Found == Served \cup {BeforeImports}

NoLake == [s \in Sources |-> <<>>]
NarrowLake ==
    [s \in Sources |->
        IF s = "baostock" THEN [t \in {"klines"} |-> [rows |-> {"qfq"}, wide |-> FALSE]]
        ELSE <<>>]
BothLakes == {NoLake, NarrowLake}
SomeOldLakes == {{}, {"raw", "qfq"}}
OneRow == {"r1", "r2"}
OneRaw == {"raw"}

(* One of the initial states, for an instance in which nothing starts.     *)
Untouched == db = FreshDb /\ lakes = NoLake /\ oldLake = {}
=============================================================================
