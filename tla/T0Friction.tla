----------------------------- MODULE T0Friction -----------------------------
(***************************************************************************)
(* The transaction costs of server/engines/t0/t0_friction.py.              *)
(*                                                                         *)
(* Units.  A price is an integer number of ticks (0.01 yuan), a quantity   *)
(* an integer number of lots (100 shares), so price * lots is the traded   *)
(* amount in whole yuan.  Money is counted in 1e-5 yuan: every rate of the *)
(* code is then an integer factor of the amount.  The code rounds a cost   *)
(* to 1e-4 yuan; on amounts that are multiples of 10 yuan the rounding     *)
(* changes nothing, and below that it moves a cost by less than 1e-4 yuan. *)
(***************************************************************************)
EXTENDS Integers

Larger(a, b) == IF a >= b THEN a ELSE b

MinCommission == 500000          \* five yuan
CommissionRate == 15             \* 0.00015 of the amount
TransferRate == 1                \* 0.00001 of the amount
StampRate == 50                  \* 0.0005 of the amount, on a sale only
Slippage == 100000               \* one tick on each share of a lot

(* calculate_friction(price, qty, "BUY") and (..., "SELL"): the total.     *)
BuyCost(price, lots) ==
    Larger(MinCommission, CommissionRate * (price * lots))
        + TransferRate * (price * lots) + Slippage * lots

SellCost(price, lots) ==
    BuyCost(price, lots) + StampRate * (price * lots)

(* calculate_round_trip_friction(...)["total_cost"].                       *)
RoundTripCost(price, lots) == BuyCost(price, lots) + SellCost(price, lots)

(* A move of so many ticks, earned on so many lots, in money.              *)
Gross(ticks, lots) == 100000 * (ticks * lots)

(* is_grid_viable: the spread of the grid pays three round trips.          *)
GridViable(spread, price, lots) ==
    Gross(spread, lots) >= 3 * RoundTripCost(price, lots)

(* _has_enough_edge: the expected move pays more than two round trips.     *)
EnoughEdge(edge, price, lots) ==
    Gross(edge, lots) > 2 * RoundTripCost(price, lots)
=============================================================================
