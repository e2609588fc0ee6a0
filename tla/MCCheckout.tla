----------------------------- MODULE MCCheckout -----------------------------
(***************************************************************************)
(* A small shop for TLC: two products and a variant, two units of each.    *)
(* r1 and r2 take a product and the variant in opposite orders, on one     *)
(* proof and with one coupon that is good for one use.  r3 is a signed-in  *)
(* customer's order that names the other product twice, leaving none for   *)
(* r2, and carries the idempotency key of r1; the server may interrupt its *)
(* transaction, as in a failover.                                          *)
(***************************************************************************)
EXTENDS Checkout

CONSTANTS r1, r2, r3, product, gift, variant, key, proof, coupon

MCRequests == {r1, r2, r3}

One(i) == [item |-> i, quantity |-> 1]

MCLines ==
  [r \in MCRequests |->
    CASE r = r1 -> <<One(product), One(variant)>>
      [] r = r2 -> <<One(gift), One(variant), One(product)>>
      [] r = r3 -> <<One(gift), One(gift)>>]

MCInitialStock == [i \in {product, gift, variant} |-> 2]
MCThreshold    == [i \in {product, gift, variant} |-> 1]

MCKeyOf    == [r \in MCRequests |-> IF r = r2 THEN NoKey ELSE key]
MCProofOf  == [r \in MCRequests |-> IF r = r3 THEN NoProof ELSE proof]
MCCouponOf == [r \in MCRequests |-> IF r = r3 THEN NoCoupon ELSE coupon]
MCEmailOf  == [r \in MCRequests |-> "ali@shop"]
MCLowercase == [e \in {"ali@shop"} |-> e]

MCUsageLimit       == [c \in {coupon} |-> 1]
MCPerCustomerLimit == [c \in {coupon} |-> 1]
=============================================================================
