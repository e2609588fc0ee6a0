-------------------------- MODULE MCCustomerLimit --------------------------
(***************************************************************************)
(* One customer sends two orders with a coupon that is good for one use    *)
(* each.  The address is typed with a capital in both; its lower-case      *)
(* form is that of the account.  r3 is an order without items.             *)
(***************************************************************************)
EXTENDS Checkout

CONSTANTS r1, r2, r3, product, coupon

MCRequests == {r1, r2, r3}

MCLines ==
  [r \in MCRequests |->
    IF r = r3 THEN <<>> ELSE <<[item |-> product, quantity |-> 1]>>]

MCInitialStock == [i \in {product} |-> 2]
MCThreshold    == [i \in {product} |-> 1]

MCKeyOf    == [r \in MCRequests |-> NoKey]
MCProofOf  == [r \in MCRequests |-> NoProof]
MCCouponOf == [r \in MCRequests |-> IF r = r3 THEN NoCoupon ELSE coupon]

MCEmails    == {"ali@shop", "Ali@shop"}
MCLowercase == [e \in MCEmails |-> "ali@shop"]
MCEmailOf   == [r \in MCRequests |-> "Ali@shop"]

MCUsageLimit       == [c \in {coupon} |-> 0]
MCPerCustomerLimit == [c \in {coupon} |-> 1]
=============================================================================
