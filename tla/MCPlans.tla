------------------------------ MODULE MCPlans -------------------------------
(* Module Plans on a horizon of three instants, with a short and a long      *)
(* opening and two prices.                                                   *)
EXTENDS Plans

CONSTANTS w1

MCOffers == {[cost |-> 1, at |-> 0, stop |-> 1], [cost |-> 1, at |-> 0, stop |-> 2],
             [cost |-> 2, at |-> 1, stop |-> 3]}
=============================================================================
