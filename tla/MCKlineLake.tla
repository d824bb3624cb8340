----------------------------- MODULE MCKlineLake -----------------------------
(***************************************************************************)
(* KlineLake on small instances.  In the lane "tdx" there are TDX passes,  *)
(* and BaoStock has some bars or none; in the lane "baostock" only the     *)
(* threads of BaoStock are at work.                                        *)
(***************************************************************************)
EXTENDS KlineLake

CONSTANT Lanes

VARIABLE lane

vars == <<lakeVars, lane>>

TwoWeeks == <<1, 2, 2>>

MCInit == LakeInit /\ lane \in Lanes

MCNext ==
    /\ LakeNext /\ lane' = lane
    /\ IF lane = "tdx" THEN UNCHANGED <<thread, published>>
       ELSE UNCHANGED <<pass, dayFile, minFile>> /\ today' < MaxDay

(* The worker makes a full pass each evening, whatever the pages do; a     *)
(* pass that has begun goes on.                                            *)
FairLakeSpec ==
    /\ MCInit /\ [][MCNext]_vars
    /\ \A c \in Callers :
          WF_vars(PassStep(c) /\ lane = "tdx" /\ UNCHANGED <<lane>>)
    /\ SF_vars(Begin("worker", "full") /\ lane = "tdx" /\ UNCHANGED <<lane>>)
    /\ WF_vars(DaysCome /\ lane = "tdx" /\ UNCHANGED <<lane>>)
    /\ \A t \in Threads : WF_vars(ThreadStep(t) /\ lane = "baostock" /\ UNCHANGED <<lane>>)
    /\ WF_vars(Nightly("night") /\ lane = "baostock" /\ UNCHANGED <<lane>>)
    /\ WF_vars(Publish /\ lane = "baostock" /\ UNCHANGED <<lane>>)

(* The properties, in the lanes in which something works for them.         *)
BaoStockHealsHere == lane = "baostock" => BaoStockHeals
PublishedIsServedHere == lane = "tdx" => PublishedIsServed
=============================================================================
