----------------------------- MODULE MCKlineSync -----------------------------
(***************************************************************************)
(* KlineSync with a held symbol and one that is put on the watchlist while *)
(* the worker is at work, on two trading days.                             *)
(***************************************************************************)
EXTENDS KlineSync

MCFreqs == <<"day", "5">>

(* A page forces a synchronisation only of the local files, and the other  *)
(* symbol comes to the watchlist only where BaoStock is the source.        *)
SyncHere ==
    /\ SyncNext
    /\ IF tdx THEN watchlist' = watchlist ELSE pass'["page"] = NoPass

(* The clock goes on, and a thread of the pool that was given a step takes *)
(* it.                                                                     *)
FairSyncSpec ==
    /\ SyncInit /\ [][SyncHere]_syncVars
    /\ WF_syncVars(StartWorker \/ WorkerBegins)
    /\ \A c \in Callers : WF_syncVars(PassStep(c))
    /\ WF_syncVars(Clock)

(* BarsReachStructure, where BaoStock is the source.                       *)
BarsReachThere == tdx \/ BarsReachStructure
=============================================================================
