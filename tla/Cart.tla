-------------------------------- MODULE Cart --------------------------------
(***************************************************************************)
(* The cart of one customer: the document the cart service reads, edits    *)
(* and saves, the requests that do so at the same time, and the copy the   *)
(* page shows.                                                             *)
(*                                                                         *)
(* A request reads the whole document, works on its own copy and saves     *)
(* what it changed.  Saving follows the library the service uses: a pushed *)
(* line is added to whatever lines are stored, a changed quantity is       *)
(* written at its position, a removed line or a cleared cart rewrites the  *)
(* whole list; the last two require the version that was read, and the     *)
(* plain fields (subtotal, discount, total) are written only where the     *)
(* copy changed them, with no check at all.                                *)
(*                                                                         *)
(* The schema declares the `_id` of a line itself, with no default, so     *)
(* whether a stored line has an identifier is up to the library: both      *)
(* answers are explored.  Without one no line can be named by a request.   *)
(***************************************************************************)
EXTENDS Integers, FiniteSets, SequencesExt

CONSTANTS
  Requests,        \* request slots: how many can be under way at once
  Offers,          \* what can be asked for: [product, variant]
  NoVariant,       \* the request names no variant
  Price,           \* current price of an offer
  Stock,           \* stock of an offer
  Quantities,      \* quantities a customer asks for
  CouponValue,     \* a fixed-amount coupon
  CouponMinimum,   \* and the subtotal it requires
  LineIds,         \* may a stored line have an identifier: subset of BOOLEAN
  MaxSent          \* bound: requests sent

ASSUME CartAssumption ==
  /\ IsFiniteSet(Requests) /\ Offers # {} /\ Quantities \subseteq Nat \ {0}
  /\ Price \in [Offers -> Nat] /\ Stock \in [Offers -> Nat]
  /\ CouponValue \in Nat /\ CouponMinimum \in Nat
  /\ LineIds \in (SUBSET BOOLEAN) \ {{}} /\ MaxSent \in Nat

VARIABLES
  carts,     \* the carts of this customer, in the order findOne meets them
  shown,     \* the copy in the cart store of the page
  req,       \* per slot: what it does, its copy and the cart it came from
  lineIds,   \* do stored lines have identifiers
  sent,      \* requests sent so far
  added,     \* history: lines ever pushed; the number of the last one
  taken,     \* history: lines removed or cleared
  wrote,     \* history: the quantities written for each line
  mixed,     \* history: totals were last computed while another request ran
  seen       \* history: the page shows the answer of a request that ran alone

vars == <<carts, shown, req, lineIds, sent, added, taken, wrote, mixed, seen>>

-----------------------------------------------------------------------------
(* The document and the arithmetic on it.                                  *)

NewCart == [lines |-> <<>>, subtotal |-> 0, discount |-> 0, total |-> 0,
            coupon |-> FALSE, version |-> 0]

Visible(c) == [lines |-> c.lines, subtotal |-> c.subtotal,
               discount |-> c.discount, total |-> c.total,
               coupon |-> c.coupon]

SumOf(lines) ==
  SumFunction([i \in DOMAIN lines |-> Price[lines[i].of] * lines[i].quantity])

AtLeastZero(n) == IF n < 0 THEN 0 ELSE n
Least(m, n) == IF m < n THEN m ELSE n

Total(c) == IF c.coupon /\ c.discount > 0
            THEN AtLeastZero(SumOf(c.lines) - c.discount)
            ELSE SumOf(c.lines)

\* Mutant of calculateCart: the total is left for the next coupon change.
CalculatedSubtotalOnly(c) == [c EXCEPT !.subtotal = SumOf(c.lines)]

calculateCart(c) == [c EXCEPT !.subtotal = SumOf(c.lines), !.total = Total(c)]

-----------------------------------------------------------------------------
(* What a request does to the copy it read.                                *)

Positions(c) == DOMAIN c.lines
First(S) == {i \in S : \A j \in S : i <= j}

\* Without a variant the first line of the product matches, whatever its own.
Existing(c, of) ==
  {i \in Positions(c) :
     /\ c.lines[i].of.product = of.product
     /\ of.variant # NoVariant => c.lines[i].of.variant = of.variant}

LineAt(c, id) == {i \in Positions(c) : c.lines[i].id = id}

Line(id, ask) == [id |-> id, of |-> ask.of, quantity |-> ask.quantity]

(* One kind of change each: what happens to the list of lines.             *)
Push(ask) == [kind |-> "push", line |-> Line(added + 1, ask)]
Put(i, q) == [kind |-> "put", at |-> i, quantity |-> q]
Whole(lines) == [kind |-> "whole", lines |-> lines]
Leave == [kind |-> "leave"]

Edited(lines, e) ==
  CASE e.kind = "push"  -> Append(lines, e.line)
    [] e.kind = "put"   -> [lines EXCEPT ![e.at].quantity = e.quantity]
    [] e.kind = "whole" -> e.lines
    [] OTHER            -> lines

(* The edits a request may make of its copy: none when it is refused.      *)
Edits(c, ask) ==
  CASE ask.do = "add" ->
         IF ask.quantity > Stock[ask.of] THEN {}
         ELSE IF Existing(c, ask.of) = {} THEN {Push(ask)}
         ELSE LET q(i) == c.lines[i].quantity + ask.quantity
              IN  {Put(i, q(i)) :
                     i \in {j \in First(Existing(c, ask.of)) : q(j) <= Stock[ask.of]}}
    [] ask.do = "update" ->
         {Put(i, ask.quantity) : i \in
            {j \in LineAt(c, ask.id) : ask.quantity <= Stock[c.lines[j].of]}}
    [] ask.do = "remove" ->
         {Whole(RemoveAt(c.lines, i)) : i \in LineAt(c, ask.id)}
    [] ask.do = "coupon" ->
         {e \in {Leave} : c.lines # <<>> /\ SumOf(c.lines) >= CouponMinimum}
    [] ask.do = "clear" -> {IF c.lines = <<>> THEN Leave ELSE Whole(<<>>)}
    [] OTHER -> {Leave}

(* The coupon fields afterwards; the discount is an amount that later      *)
(* changes of the lines do not reconsider.                                 *)
Discounted(c, ask) ==
  CASE ask.do = "coupon" ->
         [c EXCEPT !.coupon = TRUE,
                   !.discount = Least(CouponValue, SumOf(c.lines))]
    [] ask.do \in {"dropCoupon", "clear"} ->
         [c EXCEPT !.coupon = FALSE, !.discount = 0]
    [] OTHER -> c

Worked(c, ask, e) ==
  calculateCart(Discounted([c EXCEPT !.lines = Edited(c.lines, e)], ask))

-----------------------------------------------------------------------------
(* Saving: the library writes what the copy changed.                       *)

\* An edit that writes what is already there is no edit.
Changes(c, e) == Edited(c.lines, e) # c.lines

\* Mutant of VersionHolds: the quantity is set by an update of its own at the
\* position found, with no version in its filter.
HoldsForLists(stored, copy, e) ==
  e.kind = "whole" => stored.version = copy.version

\* Mutant of VersionHolds: the list is replaced by an update of its own, with
\* no version in its filter.
HoldsForPositions(stored, copy, e) ==
  e.kind = "put" => stored.version = copy.version

VersionHolds(stored, copy, e) ==
  e.kind \in {"put", "whole"} /\ Changes(copy, e) =>
    stored.version = copy.version

Written(stored, copy, new, e) ==
  [lines    |-> IF Changes(copy, e) THEN Edited(stored.lines, e)
                                    ELSE stored.lines,
   subtotal |-> IF new.subtotal # copy.subtotal THEN new.subtotal
                                                ELSE stored.subtotal,
   discount |-> IF new.discount # copy.discount THEN new.discount
                                                ELSE stored.discount,
   total    |-> IF new.total # copy.total THEN new.total ELSE stored.total,
   coupon   |-> IF new.coupon # copy.coupon THEN new.coupon
                                            ELSE stored.coupon,
   version  |-> IF Changes(copy, e) /\ e.kind \in {"push", "whole"}
                THEN stored.version + 1 ELSE stored.version]

-----------------------------------------------------------------------------
Idle == [at |-> "idle"]
Active(r) == req[r].at # "idle"
Quiet == \A r \in Requests : ~Active(r)

Init ==
  /\ carts = <<>> /\ shown = Visible(NewCart)
  /\ req = [r \in Requests |-> Idle]
  /\ lineIds \in LineIds
  /\ sent = 0 /\ added = 0 /\ taken = {} /\ wrote = <<>>
  /\ mixed = FALSE /\ seen = FALSE

(* What the page can ask for, given what it shows.                         *)
Asks ==
  {[do |-> d] : d \in {"load", "clear", "coupon"}}
  \cup {[do |-> "dropCoupon"] : x \in {y \in {1} : shown.coupon}}
  \cup [do : {"add"}, of : Offers, quantity : Quantities]
  \cup (IF lineIds
        THEN LET ids == {shown.lines[i].id : i \in DOMAIN shown.lines}
             IN  [do : {"remove"}, id : ids]
                 \cup [do : {"update"}, id : ids, quantity : Quantities]
        ELSE {})

(* A request leaves the page.  The navigation bar empties the store before *)
(* it loads the cart.                                                      *)
Send(r) ==
  /\ ~Active(r) /\ sent < MaxSent
  /\ sent' = sent + 1
  /\ \E ask \in Asks :
       /\ req' = [s \in Requests |->
                    IF s = r THEN [at |-> "sent", ask |-> ask, alone |-> Quiet]
                    ELSE IF Active(s) THEN [req[s] EXCEPT !.alone = FALSE]
                    ELSE req[s]]
       /\ shown' = IF ask.do = "load" THEN Visible(NewCart) ELSE shown
       /\ seen' = (seen /\ ask.do # "load")
  /\ UNCHANGED <<carts, lineIds, added, taken, wrote, mixed>>

\* Mutant of Found: the cart is looked up by a session nobody has.
FoundNone == {}

\* findOne: the first cart of the customer.
Found == {i \in {1} : carts # <<>>}

With(r, i, c) ==
  [req EXCEPT ![r] =
     IF @.ask.do = "load"
     THEN [at |-> "answer", alone |-> @.alone, cart |-> Visible(c)]
     ELSE [at |-> "have", ask |-> @.ask, alone |-> @.alone,
           of |-> i, copy |-> c]]

(* getCart, its two steps: look the cart up, and create it when there is   *)
(* none.                                                                   *)
Find(r) ==
  /\ req[r].at = "sent"
  /\ IF Found = {} THEN req' = [req EXCEPT ![r].at = "create"]
     ELSE \E i \in Found : req' = With(r, i, carts[i])
  /\ UNCHANGED <<carts, shown, lineIds, sent, added, taken, wrote, mixed, seen>>

CreateCart(r) ==
  /\ req[r].at = "create"
  /\ carts' = Append(carts, NewCart)
  /\ req' = With(r, Len(carts) + 1, NewCart)
  /\ UNCHANGED <<shown, lineIds, sent, added, taken, wrote, mixed, seen>>

(* The rest of the handler: work on the copy and save it.  No page clears  *)
(* the stored cart; a client that does leaves the page as it is.           *)
Save(r) ==
  /\ req[r].at = "have"
  /\ LET i == req[r].of  copy == req[r].copy  ask == req[r].ask
     IN \E e \in Edits(copy, ask) :
          LET new == Worked(copy, ask, e)
              ids(lines) == {lines[j].id : j \in DOMAIN lines}
          IN
          /\ VersionHolds(carts[i], copy, e)
          /\ carts' = [carts EXCEPT ![i] = Written(@, copy, new, e)]
          /\ req' = [req EXCEPT ![r] =
                       IF ask.do = "clear" THEN Idle
                       ELSE [at |-> "answer", alone |-> @.alone, cart |-> Visible(new)]]
          /\ seen' = (seen /\ ask.do # "clear")
          /\ added' = IF e.kind = "push" THEN added + 1 ELSE added
          /\ wrote' = IF e.kind = "push" THEN Append(wrote, {ask.quantity})
                     ELSE IF e.kind = "put" /\ Changes(copy, e)
                     THEN [wrote EXCEPT ![copy.lines[e.at].id] = @ \cup {e.quantity}]
                     ELSE wrote
          /\ taken' = taken \cup (ids(copy.lines) \ ids(new.lines))
          /\ mixed' = ~req[r].alone
  /\ UNCHANGED <<shown, lineIds, sent>>

(* The handler refuses the request, or the save finds another version.     *)
Refuse(r) ==
  /\ req[r].at = "have"
  /\ LET i == req[r].of  copy == req[r].copy  ask == req[r].ask
     IN  \A e \in Edits(copy, ask) : ~VersionHolds(carts[i], copy, e)
  /\ req' = [req EXCEPT ![r] = Idle]
  /\ UNCHANGED <<carts, shown, lineIds, sent, added, taken, wrote, mixed, seen>>

(* Answers reach the store in any order, and each replaces what it shows.  *)
Show(r) ==
  /\ req[r].at = "answer"
  /\ shown' = req[r].cart
  /\ seen' = req[r].alone
  /\ req' = [req EXCEPT ![r] = Idle]
  /\ UNCHANGED <<carts, lineIds, sent, added, taken, wrote, mixed>>

(* The network fails: the request is given up wherever it is, its effect   *)
(* stays.  The page shows no error and keeps its copy.                     *)
LoseAnswer(r) ==
  /\ req[r].at \in {"sent", "answer"}
  /\ req' = [req EXCEPT ![r] = Idle]
  /\ seen' = FALSE
  /\ UNCHANGED <<carts, shown, lineIds, sent, added, taken, wrote, mixed>>

(* An order is placed with the lines shown: the page empties its store.    *)
(* The service would clear the stored cart for a request that carries the  *)
(* cookie cart_session, which nothing in the repository sets.              *)
PlaceOrder ==
  /\ Quiet /\ shown.lines # <<>>
  /\ shown' = Visible(NewCart)
  /\ seen' = FALSE
  /\ UNCHANGED <<carts, req, lineIds, sent, added, taken, wrote, mixed>>

Next ==
  \/ \E r \in Requests :
       Send(r) \/ Find(r) \/ CreateCart(r) \/ Save(r) \/ Refuse(r)
         \/ Show(r) \/ LoseAnswer(r)
  \/ PlaceOrder

Spec == Init /\ [][Next]_vars

-----------------------------------------------------------------------------
LineType(ids) == [id : ids, of : Offers, quantity : Nat \ {0}]

(* Every stored and shown cart is a list of bought lines with natural      *)
(* amounts, and a customer has no more carts than requests that can        *)
(* overlap: getCart (cart.service.ts:32) checks and creates in two steps,  *)
(* and a later one finds what is there.                                    *)
TypeOK ==
  /\ \A c \in {carts[i] : i \in DOMAIN carts} \cup {shown} :
       /\ \A i \in DOMAIN c.lines : c.lines[i] \in LineType(1..added)
       /\ {c.subtotal, c.discount, c.total} \subseteq Nat
       /\ c.coupon \in BOOLEAN
  /\ Len(carts) <= Cardinality(Requests)
  /\ sent \in 0..MaxSent /\ Len(wrote) = added /\ taken \subseteq 1..added
  /\ {mixed, seen, lineIds} \subseteq BOOLEAN
  /\ \A r \in Requests :
       req[r].at \in {"idle", "sent", "create", "have", "answer"}

(* What the customer sees is right: when the last answer came from a       *)
(* request that ran alone and nothing is under way, the page shows the     *)
(* stored cart (setCart of each answer), and its subtotal and total are    *)
(* those of its lines and discount, except after requests that overlapped: *)
(* each then wrote the sums of its own copy, and they stay wrong, reload   *)
(* after reload, until a request that runs alone computes them again       *)
(* (recalculateCart, calculateCart).                                       *)
ShownCartIsRight ==
  Quiet /\ seen =>
    /\ carts # <<>> /\ shown = Visible(carts[1])
    /\ mixed \/ /\ shown.subtotal = SumOf(shown.lines)
                /\ shown.total = Total(shown)

(* No line is lost to another request: a line that was added and neither   *)
(* removed nor cleared by a request that saw it is in a stored cart. A     *)
(* rewritten list (removeItem, clearCart) must not overwrite a line pushed *)
(* after it was read.                                                      *)
NoLineLost ==
  \A id \in (1..added) \ taken :
    \E i \in DOMAIN carts : LineAt(carts[i], id) # {}

(* A quantity is only ever written to the line it was meant for: the       *)
(* position found in the copy (addItem, updateItemQuantity) must still be  *)
(* that line when the copy is saved.  It may be overwritten: a changed     *)
(* quantity leaves the version alone, so a removal that read before it     *)
(* puts the earlier quantities back.                                       *)
QuantityHitsItsLine ==
  \A i \in DOMAIN carts : \A j \in Positions(carts[i]) :
    carts[i].lines[j].quantity \in wrote[carts[i].lines[j].id]
=============================================================================
