---------------------------- MODULE MCInventory ----------------------------
(***************************************************************************)
(* A product and a variant, two units each, and one order of both.  Any    *)
(* three of the calls overlap in every way, and any four that are not      *)
(* edits of the product; RacePair is an administrator and a customer at    *)
(* work on the same product.                                               *)
(***************************************************************************)
EXTENDS Inventory

CONSTANTS sale, adjust, reserve, release, set, cancel, again, reopen,
          edit, retune, note, product, variant, placed

MCCalls == {sale, adjust, reserve, release, set, cancel, again, reopen,
            edit, retune, note}

ThreeOrFour ==
  {some \in SUBSET Calls :
     \/ Cardinality(some) = 3
     \/ Cardinality(some) = 4 /\ some \cap {edit, retune, note} = {}}
RacePair == {{sale, adjust}}

MCKind ==
  [c \in Calls |->
    CASE c = sale -> "sale"
      [] c = adjust -> "adjust"
      [] c = reserve -> "reserve"
      [] c = release -> "release"
      [] c = set -> "set"
      [] c = edit -> "edit"
      [] c = retune -> "threshold"
      [] c = note -> "movement"
      [] c \in {cancel, again} -> "cancel"
      [] c = reopen -> "status"]

A(i, q) == [item |-> i, quantity |-> q]

MCLines ==
  [c \in Calls |->
    CASE c = sale -> <<A(product, 1), A(variant, 1)>>
      [] c = adjust -> <<A(product, -2)>>
      [] c \in {reserve, release} -> <<A(variant, 3)>>
      [] c = set -> <<A(product, 0)>>
      [] c = edit -> <<A(product, 2)>>
      [] c = retune -> <<A(product, 3)>>
      [] c = note -> <<A(product, -1)>>
      [] c \in {cancel, again} -> <<A(product, 1), A(variant, 1)>>
      [] OTHER -> <<>>]

MCStock     == [i \in {product, variant} |-> 2]
MCThreshold == [i \in {product, variant} |-> 1]
MCOrderOf   == [c \in Calls |-> placed]
MCNewStatus == [c \in Calls |-> "pending"]
=============================================================================
