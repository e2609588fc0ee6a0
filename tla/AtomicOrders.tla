---------------------------- MODULE AtomicOrders ----------------------------
(***************************************************************************)
(* What placing an order promises, in one step: an order takes all its     *)
(* lines from the stock at once or nothing, never more than there is, and  *)
(* an idempotency key buys once.  Checkout implements this specification.  *)
(***************************************************************************)
EXTENDS Naturals, Functions

CONSTANTS Requests, Items, Lines, InitialStock, KeyOf, NoKey

VARIABLES stock, placed

\* The units of item i in the lines of r.
Quantity(r, i) ==
  SumFunction([k \in DOMAIN Lines[r] |->
                 IF Lines[r][k].item = i THEN Lines[r][k].quantity ELSE 0])

Init == stock = InitialStock /\ placed = {}

PlaceOrder(r) ==
  /\ r \notin placed
  /\ KeyOf[r] # NoKey => \A q \in placed : KeyOf[q] # KeyOf[r]
  /\ \A i \in Items : Quantity(r, i) <= stock[i]
  /\ stock' = [i \in Items |-> stock[i] - Quantity(r, i)]
  /\ placed' = placed \cup {r}

Next == \E r \in Requests : PlaceOrder(r)

Spec == Init /\ [][Next]_<<stock, placed>>
=============================================================================
