---------------------------- MODULE MCIntradayTape ----------------------------
(***************************************************************************)
(* The tape of three minutes in two 5-minute bars, quoted by the sampler   *)
(* and a page.                                                             *)
(***************************************************************************)
EXTENDS IntradayTape

MCGroupOf == [m \in 1..LastMinute |-> IF m < 3 THEN 1 ELSE 2]
=============================================================================
