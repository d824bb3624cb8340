--------------------------- MODULE MCStructureChat ---------------------------
(***************************************************************************)
(* A question that names a subject and one that carries on, about a        *)
(* context between its lines and a later one without lines; answers with   *)
(* and without a last stop and the disclaimer.                             *)
(***************************************************************************)
EXTENDS StructureChat

MCQuestions ==
    {[subjects |-> {"reminder", "divergence"}, carries |-> TRUE, hint |-> "none"],
     [subjects |-> {}, carries |-> TRUE, hint |-> "none"]}
MCContexts == <<[zg |-> 12, zd |-> 10, price |-> 11], [zg |-> 0, zd |-> 0, price |-> 0]>>
MCSayings == {<<>>, <<"say", "say.">>, <<"risk", "say">>}
=============================================================================
