------------------------------- MODULE MCCart -------------------------------
(* One product sold plain and in one variant, two requests at once.        *)
EXTENDS Cart, TLC

CONSTANTS r1, r2, p, v

Plain == [product |-> p, variant |-> NoVariant]
Sized == [product |-> p, variant |-> v]
MCOffers == {Plain, Sized}
MCPrice == Plain :> 2 @@ Sized :> 3
MCStock == Plain :> 2 @@ Sized :> 2
MCLineIds == BOOLEAN
MCSymmetry == Permutations(Requests)
=============================================================================
