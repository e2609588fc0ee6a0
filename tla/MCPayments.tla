----------------------------- MODULE MCPayments -----------------------------
(* Two methods, one of them asked over the network, two calls at once.     *)
EXTENDS Payments, TLC

CONSTANTS a, b, cod, paymob

MCSymmetry == Permutations({a, b})
=============================================================================
