---------------------------- MODULE ReasoningRuns ----------------------------
(***************************************************************************)
(* One row of ai_structure_reasoning_runs: what save_reasoning_run of      *)
(* structure_context_service.py makes of it.  There is one row for each    *)
(* user, symbol, prompt version and set of snapshots; a text is a number,  *)
(* new at every answer of the language model, and 0 is the empty text.     *)
(***************************************************************************)
EXTENDS Naturals

RunStatuses == {"NONE", "THINK_SUCCESS", "SUCCESS", "FAILED"}

Runs == [ status : RunStatuses, text : Nat, summary : Nat ]
NoRun == [ status |-> "NONE", text |-> 0, summary |-> 0 ]

(* The upsert: a FAILED attempt leaves a SUCCESS alone, an empty text      *)
(* leaves the text; everything else is overwritten.                        *)
Saved(run, status, text, summary) ==
    LET keeps == run.status = "SUCCESS" /\ status = "FAILED" IN
    [ status |-> IF keeps THEN run.status ELSE status,
      text |-> IF text # 0 THEN text ELSE run.text,
      summary |-> IF keeps THEN run.summary ELSE summary ]
=============================================================================
