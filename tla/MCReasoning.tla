----------------------------- MODULE MCReasoning -----------------------------
(***************************************************************************)
(* Reasoning and StructureChat on small instances.  In the lane "worker"   *)
(* the worker and a page ask for reasonings; in the lane "chat" the user   *)
(* asks about what was reasoned.                                           *)
(***************************************************************************)
EXTENDS Reasoning, MCStructureChat

VARIABLE lane

lanesVars == <<reasoningVars, chatVars, lane>>

TwoNames == <<"s1", "s2">>
OnePage == {"page"}

MCInit == ReasoningInit /\ ChatInit /\ lane \in {"worker", "chat"}

(* A step of Reasoning in its lane.                                        *)
Works(step) == lane = "worker" /\ step /\ UNCHANGED <<chatVars, lane>>

MCNext ==
    \/ Works(ReasoningNext)
    \/ lane = "chat" /\ ChatNext /\ UNCHANGED <<reasoningVars, lane>>

(* FairReasoningSpec in the lane of the worker.                            *)
FairLanesSpec ==
    /\ MCInit /\ [][MCNext]_lanesVars
    /\ WF_lanesVars(Works(WorkerTicks)) /\ WF_lanesVars(Works(WorkerAsks))
    /\ \A q \in Requests :
          /\ WF_lanesVars(Works(Answers(q))) /\ WF_lanesVars(Works(Extracts(q)))
          /\ WF_lanesVars(Works(SavesRun(q))) /\ WF_lanesVars(Works(SavesContext(q)))
          /\ WF_lanesVars(Works(AttachesRun(q))) /\ WF_lanesVars(Works(Logged(q)))

(* BoardReasoned, in the lane in which the worker runs.                    *)
BoardReasonedHere == lane = "worker" => BoardReasoned
=============================================================================
