------------------------------ MODULE Checkout ------------------------------
(***************************************************************************)
(* Placing an order: CheckoutService.createOrder and the services it       *)
(* calls, run by several HTTP requests at once against one MongoDB.        *)
(*                                                                         *)
(* A request is a process; an action is one database call and the code up  *)
(* to the next await.  Stock documents, movements and orders are written   *)
(* inside a MongoDB transaction; the order counter, the coupon counter,    *)
(* the coupon usage and the verification proof are written outside it, at  *)
(* once, and stay written when the transaction aborts.                     *)
(*                                                                         *)
(* The transaction (MongoDB's, external to this repository) reads from the *)
(* snapshot taken by its first operation.  A write to a document that      *)
(* another open transaction has written, or that was committed after the   *)
(* snapshot, is a write conflict, which the loop of createOrder retries.   *)
(* A key of the unique index on idempotencyKey behaves as a document.      *)
(***************************************************************************)
EXTENDS Naturals, Sequences, FiniteSets

CONSTANTS
  Requests,          \* the calls of createOrder
  Items,             \* the documents that hold stock: products and variants
  Variants,          \* those of Items that are product variants
  Lines,             \* Lines[r]: the ordered items and quantities of r
  InitialStock,      \* the stock of each item before the first request
  Threshold,         \* lowStockThreshold of each item
  Keys, NoKey,       \* idempotency keys, and a request without one
  KeyOf,             \* KeyOf[r]: the idempotency key r carries
  Proofs, NoProof,   \* verification proofs, and a signed-in request's none
  ProofOf,           \* ProofOf[r]: the proof r carries
  Coupons, NoCoupon, \* coupons, and a request without one
  CouponOf,          \* CouponOf[r]: the coupon r names
  UsageLimit,        \* usageLimit of each coupon, 0 for none
  PerCustomerLimit,  \* perCustomerLimit of each coupon
  Emails,            \* addresses as a customer may type them
  EmailOf,           \* EmailOf[r]: the address r was sent with
  Lowercase,         \* Lowercase[e]: the lower-case form of e
  MaxRetries,        \* attempts createOrder makes
  Interruptible      \* requests whose transaction the server may interrupt

Line == [item : Items, quantity : Nat \ {0}]

ASSUME CheckoutAssumption ==
  /\ Variants \subseteq Items
  /\ Lines \in [Requests -> Seq(Line)]
  /\ InitialStock \in [Items -> Nat] /\ Threshold \in [Items -> Nat]
  /\ NoKey \notin Keys /\ Keys \cap Items = {} /\ NoKey \notin Items
  /\ KeyOf \in [Requests -> Keys \cup {NoKey}]
  /\ NoProof \notin Proofs /\ ProofOf \in [Requests -> Proofs \cup {NoProof}]
  /\ NoCoupon \notin Coupons /\ CouponOf \in [Requests -> Coupons \cup {NoCoupon}]
  /\ UsageLimit \in [Coupons -> Nat] /\ PerCustomerLimit \in [Coupons -> Nat]
  /\ EmailOf \in [Requests -> Emails] /\ Lowercase \in [Emails -> Emails]
  /\ MaxRetries \in Nat \ {0} /\ Interruptible \subseteq Requests

VARIABLES
  \* Local to a request.
  pc,        \* where the request is
  attempt,   \* iteration of the retry loop
  line,      \* index of the line the transaction is at
  number,    \* order number drawn in this attempt, 0 before
  \* The request's transaction.
  open,      \* requests whose transaction has taken its snapshot
  view,      \* stock as the transaction reads it: snapshot and own writes
  dirty,     \* documents and index keys the transaction has written
  stale,     \* documents and index keys committed since its snapshot
  pending,   \* movements the transaction has inserted
  \* Committed documents.
  stock, status, movements, orders,
  \* Written outside any transaction.
  counter,   \* seq of the order counter
  used,      \* usedCount of each coupon
  usages,    \* requests a CouponUsage document stands for
  consumed   \* proofs whose consumedAt is set

local == <<pc, attempt, line, number>>
txn   == <<open, view, dirty, stale, pending>>
docs  == <<stock, status, movements, orders>>
side  == <<counter, used, usages, consumed>>
vars  == <<local, txn, docs, side>>

-----------------------------------------------------------------------------

Documents == Items \cup Keys

\* An InventoryMovement of type SALE; req is the request that sold (the
\* document only says reference 'order').
Movement == [req : Requests, item : Items, quantity : Nat,
             previousStock : Nat, newStock : Nat]

Order == [req : Requests, number : Nat]

Working == {"identify", "consume", "lookup", "validate", "read", "write",
            "draw", "insert", "count", "usage", "commit"}
Ended   == {"placed", "replayed", "rejected", "exhausted", "interrupted", "failed"}

\* The status a product is given with its new stock.
StatusFor(i, n) ==
  IF n = 0 THEN "out_of_stock"
  ELSE IF n <= Threshold[i] THEN "low_stock" ELSE "in_stock"

NoView == [i \in Items |-> 0]

Init ==
  /\ pc = [r \in Requests |-> "identify"]
  /\ attempt = [r \in Requests |-> 1]
  /\ line = [r \in Requests |-> 1]
  /\ number = [r \in Requests |-> 0]
  /\ open = {}
  /\ view = [r \in Requests |-> NoView]
  /\ dirty = [r \in Requests |-> {}]
  /\ stale = [r \in Requests |-> {}]
  /\ pending = [r \in Requests |-> {}]
  /\ stock = InitialStock
  /\ status = [i \in Items |-> StatusFor(i, InitialStock[i])]
  /\ movements = {}
  /\ orders = {}
  /\ counter = 0
  /\ used = [c \in Coupons |-> 0]
  /\ usages = {}
  /\ consumed = {}

Goto(r, label) == pc' = [pc EXCEPT ![r] = label]

-----------------------------------------------------------------------------
(* Before the transaction.                                                 *)

\* The account check of a signed-in customer, or a guest's proof read and
\* checked; an unknown, foreign or expired proof is Refuse.
Identify(r) ==
  /\ pc[r] = "identify"
  /\ \/ ProofOf[r] = NoProof /\ Goto(r, "lookup")
     \/ ProofOf[r] \in Proofs \ consumed /\ Goto(r, "consume")
     \/ ProofOf[r] \in consumed /\ Goto(r, "rejected")
  /\ UNCHANGED <<attempt, line, number, txn, docs, side>>

\* Mutant of Consume: consumedAt is set on the document and not saved.
ConsumeUnsaved(r) ==
  /\ pc[r] = "consume"
  /\ Goto(r, "lookup")
  /\ UNCHANGED <<attempt, line, number, txn, docs, side>>

\* consumedAt is set and saved, whatever happened since the proof was read.
Consume(r) ==
  /\ pc[r] = "consume"
  /\ consumed' = consumed \cup {ProofOf[r]}
  /\ Goto(r, "lookup")
  /\ UNCHANGED <<attempt, line, number, txn, docs, counter, used, usages>>

\* Mutant of KeyTaken: the index on idempotencyKey is not unique.
KeyNeverTaken(k) == FALSE

KeyTaken(k) == \E o \in orders : KeyOf[o.req] = k

\* An order that already carries the request's key is returned as it is.
Lookup(r) ==
  /\ pc[r] = "lookup"
  /\ Goto(r, IF KeyOf[r] # NoKey /\ KeyTaken(KeyOf[r]) THEN "replayed" ELSE "validate")
  /\ UNCHANGED <<attempt, line, number, txn, docs, side>>

UsesBy(c, e) == {u \in usages : CouponOf[u] = c /\ EmailOf[u] = e}

\* Mutant of CouponAccepted: the uses of the customer are not counted.
CouponAcceptedAgain(r) ==
  LET c == CouponOf[r] IN UsageLimit[c] # 0 => used[c] < UsageLimit[c]

\* The usage limits validateCoupon enforces: usages are stored under the
\* address as typed and counted under its lower-case form.
CouponAccepted(r) ==
  LET c == CouponOf[r] IN
  /\ UsageLimit[c] # 0 => used[c] < UsageLimit[c]
  /\ Cardinality(UsesBy(c, Lowercase[EmailOf[r]])) < PerCustomerLimit[c]

\* Mutant of FirstOperation: the items are not taken from the stock.
FirstOperationInsert(r) == "draw"

\* The first operation of an attempt's transaction.
FirstOperation(r) == IF Lines[r] = <<>> THEN "draw" ELSE "read"

Validate(r) ==
  /\ pc[r] = "validate"
  /\ Goto(r, IF CouponOf[r] # NoCoupon => CouponAccepted(r)
             THEN FirstOperation(r) ELSE "rejected")
  /\ UNCHANGED <<attempt, line, number, txn, docs, side>>

\* Any other refusal before the transaction: account blocked, proof unknown
\* or expired, item withdrawn, coupon inactive, no delivery to the address.
Refuse(r) ==
  /\ pc[r] \in {"identify", "validate"}
  /\ Goto(r, "rejected")
  /\ UNCHANGED <<attempt, line, number, txn, docs, side>>

-----------------------------------------------------------------------------
(* The transaction.                                                        *)

\* What the transaction sees: its first operation takes the snapshot.
ViewOf(r) == IF r \in open THEN view[r] ELSE stock

\* Mutant of Conflict: stock is written without the transaction's session.
ConflictIgnored(r, d) == FALSE

\* MongoDB's write conflict on document or index key d.
Conflict(r, d) ==
  \/ d \in stale[r]
  \/ \E q \in Requests \ {r} : d \in dirty[q]

\* Mutant of Discard: an aborted transaction keeps its locks.
DiscardKeepsLocks(r) ==
  /\ open' = open \ {r}
  /\ view' = [view EXCEPT ![r] = NoView]
  /\ stale' = [stale EXCEPT ![r] = {}]
  /\ pending' = [pending EXCEPT ![r] = {}]
  /\ UNCHANGED dirty

\* Nothing of the transaction remains: at once, also where MongoDB must first
\* notice that its process has died.
Discard(r) ==
  /\ open' = open \ {r}
  /\ view' = [view EXCEPT ![r] = NoView]
  /\ dirty' = [dirty EXCEPT ![r] = {}]
  /\ stale' = [stale EXCEPT ![r] = {}]
  /\ pending' = [pending EXCEPT ![r] = {}]

\* The catch branch for an error that is not transient.
GiveUp(r, label) ==
  /\ Discard(r)
  /\ Goto(r, label)
  /\ number' = [number EXCEPT ![r] = 0]
  /\ line' = [line EXCEPT ![r] = 1]
  /\ UNCHANGED <<attempt, docs, side>>

\* Mutant of RetryAfterConflict: attempts are not counted.
RetryForever(r, label) ==
  /\ Discard(r)
  /\ number' = [number EXCEPT ![r] = 0]
  /\ line' = [line EXCEPT ![r] = 1]
  /\ Goto(r, FirstOperation(r))
  /\ UNCHANGED <<attempt, docs, side>>

\* The catch branch for a transient error: try again, or let it out.  The
\* label says what error that was.
RetryAfterConflict(r, label) ==
  /\ Discard(r)
  /\ number' = [number EXCEPT ![r] = 0]
  /\ line' = [line EXCEPT ![r] = 1]
  /\ attempt' = [attempt EXCEPT ![r] = IF @ < MaxRetries THEN @ + 1 ELSE @]
  /\ Goto(r, IF attempt[r] < MaxRetries THEN FirstOperation(r) ELSE label)
  /\ UNCHANGED <<docs, side>>

CurrentLine(r) == Lines[r][line[r]]

\* Mutant of ReadStock: the stock is not checked.
ReadStockUnchecked(r) ==
  /\ pc[r] = "read"
  /\ open' = open \cup {r}
  /\ view' = [view EXCEPT ![r] = ViewOf(r)]
  /\ Goto(r, "write")
  /\ UNCHANGED <<attempt, line, number, dirty, stale, pending, docs, side>>

\* findById of the line's document, and the check of its stock.
ReadStock(r) ==
  /\ pc[r] = "read"
  /\ IF ViewOf(r)[CurrentLine(r).item] < CurrentLine(r).quantity
     THEN GiveUp(r, "rejected")
     ELSE /\ open' = open \cup {r}
          /\ view' = [view EXCEPT ![r] = ViewOf(r)]
          /\ Goto(r, "write")
          /\ UNCHANGED <<attempt, line, number, dirty, stale, pending, docs, side>>

\* Mutant of LogSale: the movement is created without the session.
LogSaleAtOnce(r, m) ==
  /\ movements' = movements \cup {m}
  /\ UNCHANGED pending

\* The movement is created in the transaction.
LogSale(r, m) ==
  /\ pending' = [pending EXCEPT ![r] = @ \cup {m}]
  /\ UNCHANGED movements

\* The decremented document is saved and its SALE movement inserted.
WriteStock(r) ==
  /\ pc[r] = "write"
  /\ LET i == CurrentLine(r).item
         left == view[r][i] - CurrentLine(r).quantity
     IN \/ /\ Conflict(r, i)
           /\ RetryAfterConflict(r, "exhausted")
        \/ /\ ~Conflict(r, i)
           /\ view' = [view EXCEPT ![r][i] = left]
           /\ dirty' = [dirty EXCEPT ![r] = @ \cup {i}]
           /\ LogSale(r, [req |-> r, item |-> i, quantity |-> CurrentLine(r).quantity,
                           previousStock |-> view[r][i], newStock |-> left])
           /\ line' = [line EXCEPT ![r] = @ + 1]
           /\ Goto(r, IF line[r] = Len(Lines[r]) THEN "draw" ELSE "read")
           /\ UNCHANGED <<attempt, number, open, stale, stock, status, orders, side>>

\* Mutant of DrawNumber: the counter is read and not incremented.
DrawNumberUnsaved(r) ==
  /\ pc[r] = "draw"
  /\ number' = [number EXCEPT ![r] = counter + 1]
  /\ Goto(r, "insert")
  /\ UNCHANGED <<attempt, line, txn, docs, side>>

\* generateOrderNumber: one atomic $inc, outside the transaction.
DrawNumber(r) ==
  /\ pc[r] = "draw"
  /\ counter' = counter + 1
  /\ number' = [number EXCEPT ![r] = counter + 1]
  /\ Goto(r, "insert")
  /\ UNCHANGED <<attempt, line, txn, docs, used, usages, consumed>>

\* The order is inserted; a key committed before the snapshot is E11000,
\* which is not transient.
InsertOrder(r) ==
  /\ pc[r] = "insert"
  /\ \/ /\ KeyOf[r] \notin stale[r] /\ KeyOf[r] # NoKey /\ KeyTaken(KeyOf[r])
        /\ GiveUp(r, "failed")
     \/ /\ Conflict(r, KeyOf[r])
        /\ RetryAfterConflict(r, "exhausted")
     \/ /\ ~Conflict(r, KeyOf[r])
        /\ KeyOf[r] # NoKey => ~KeyTaken(KeyOf[r])
        /\ open' = open \cup {r}
        /\ view' = [view EXCEPT ![r] = ViewOf(r)]
        /\ dirty' = [dirty EXCEPT ![r] = @ \cup ({KeyOf[r]} \ {NoKey})]
        /\ Goto(r, IF CouponOf[r] = NoCoupon THEN "commit" ELSE "count")
        /\ UNCHANGED <<attempt, line, number, stale, pending, docs, side>>

\* Mutant of CountUsage: usedCount is set only for the first use.
CountUsageOnce(r) ==
  /\ pc[r] = "count"
  /\ used' = [used EXCEPT ![CouponOf[r]] = 1]
  /\ Goto(r, "usage")
  /\ UNCHANGED <<attempt, line, number, txn, docs, counter, usages, consumed>>

\* recordUsage, first call: usedCount is incremented outside the transaction.
CountUsage(r) ==
  /\ pc[r] = "count"
  /\ used' = [used EXCEPT ![CouponOf[r]] = @ + 1]
  /\ Goto(r, "usage")
  /\ UNCHANGED <<attempt, line, number, txn, docs, counter, usages, consumed>>

\* recordUsage, second call: the CouponUsage document.
RecordUsage(r) ==
  /\ pc[r] = "usage"
  /\ usages' = usages \cup {r}
  /\ Goto(r, "commit")
  /\ UNCHANGED <<attempt, line, number, txn, docs, counter, used, consumed>>

\* Mutant of StatusAfter: the stock is saved and the status is not.
StatusKept(r) == status

\* A product is saved with the status of its new stock, a variant without.
StatusAfter(r) ==
  [i \in Items |->
     IF i \in dirty[r] \ Variants THEN StatusFor(i, view[r][i]) ELSE status[i]]

\* MongoDB makes the transaction's writes visible at once.
Apply(r) ==
  /\ stock' = [i \in Items |-> IF i \in dirty[r] THEN view[r][i] ELSE stock[i]]
  /\ status' = StatusAfter(r)
  /\ movements' = movements \cup pending[r]
  /\ orders' = orders \cup {[req |-> r, number |-> number[r]]}
  /\ open' = open \ {r}
  /\ view' = [view EXCEPT ![r] = NoView]
  /\ dirty' = [dirty EXCEPT ![r] = {}]
  /\ stale' = [q \in Requests |->
                 IF q \in open \ {r} THEN stale[q] \cup dirty[r] ELSE {}]
  /\ pending' = [pending EXCEPT ![r] = {}]

\* The commit, acknowledged ("placed") or applied with its answer lost, when
\* the abort in the catch branch throws and createOrder fails.  clearCart
\* follows; without a user it changes nothing, and its errors are swallowed.
Commit(r) ==
  /\ pc[r] = "commit"
  /\ Apply(r)
  /\ \E label \in {"placed", "failed"} : Goto(r, label)
  /\ UNCHANGED <<attempt, line, number, side>>

\* The server answers an operation of the transaction with another transient
\* error, as in a failover.
Interrupted(r) ==
  /\ r \in Interruptible
  /\ pc[r] \in {"read", "write", "insert"}
  /\ RetryAfterConflict(r, "interrupted")

\* A database call fails for good, or the process dies: the open transaction
\* is rolled back, what was written outside it stays.
Fail(r) ==
  /\ pc[r] \in Working
  /\ GiveUp(r, "failed")

-----------------------------------------------------------------------------

Step(r) ==
  \/ Identify(r) \/ Consume(r) \/ Lookup(r) \/ Validate(r) \/ Refuse(r)
  \/ ReadStock(r) \/ WriteStock(r) \/ DrawNumber(r) \/ InsertOrder(r)
  \/ CountUsage(r) \/ RecordUsage(r) \/ Commit(r) \/ Interrupted(r) \/ Fail(r)

\* Every request has been answered.
AllEnded ==
  /\ \A r \in Requests : pc[r] \in Ended
  /\ UNCHANGED vars

Next == (\E r \in Requests : Step(r)) \/ AllEnded

\* Every awaited call settles: the driver answers or times out.
Fairness == \A r \in Requests : WF_vars(Step(r))

Spec == Init /\ [][Next]_vars /\ Fairness

-----------------------------------------------------------------------------
(* Properties.                                                             *)

\* No stock is negative, in a document or as a transaction sees it, and the
\* retry loop of createOrder stays within its attempts.
TypeOK ==
  /\ pc \in [Requests -> Working \cup Ended]
  /\ attempt \in [Requests -> 1 .. MaxRetries]
  /\ line \in [Requests -> Nat \ {0}]
  /\ number \in [Requests -> Nat]
  /\ open \in SUBSET Requests
  /\ view \in [Requests -> [Items -> Nat]]
  /\ dirty \in [Requests -> SUBSET Documents]
  /\ stale \in [Requests -> SUBSET Documents]
  /\ pending \in [Requests -> SUBSET Movement]
  /\ stock \in [Items -> Nat]
  /\ status \in [Items -> {"out_of_stock", "low_stock", "in_stock"}]
  /\ movements \in SUBSET Movement
  /\ orders \in SUBSET Order
  /\ counter \in Nat
  /\ used \in [Coupons -> Nat]
  /\ usages \in SUBSET Requests
  /\ consumed \in SUBSET Proofs

\* A movement stands for the units between its two stock levels.
Covers(m, i, n) == m.item = i /\ m.newStock < n /\ n <= m.previousStock

\* No unit is sold twice: two SALE movements of one item never overlap, so
\* concurrent orders cannot both take the last unit (oversell).
NoUnitSoldTwice ==
  \A m1, m2 \in movements :
    m1 # m2 /\ m1.item = m2.item =>
      m1.previousStock <= m2.newStock \/ m2.previousStock <= m1.newStock

\* The movement log accounts for the stock, unit by unit: a unit is gone
\* exactly when some committed SALE movement took it.
LedgerMatchesStock ==
  \A i \in Items : \A n \in 1 .. InitialStock[i] :
    n > stock[i] <=> \E m \in movements : Covers(m, i, n)

Placed == {o.req : o \in orders}

\* The retry loop, the aborts and the lost answers are invisible: the stock
\* and the placed orders change together, as in one atomic step per order,
\* and never for more units than there are.
Atomic == INSTANCE AtomicOrders WITH placed <- Placed
OrdersAreAtomic == Atomic!Spec

\* Order numbers are unique although the counter is incremented outside the
\* transaction and numbers of aborted attempts are lost.
UniqueOrderNumbers ==
  \A o1, o2 \in orders : o1.number = o2.number => o1 = o2

\* One idempotency key never buys twice, although it is looked up before
\* the transaction that inserts it.
OneOrderPerKey ==
  \A o1, o2 \in orders :
    KeyOf[o1.req] = KeyOf[o2.req] /\ KeyOf[o1.req] # NoKey => o1 = o2

\* No committed order escapes the coupon's counter and its usage record,
\* although both are written before the commit and outside of it.
CouponUsesCounted ==
  \A c \in Coupons :
    LET with == {r \in Placed : CouponOf[r] = c}
    IN  with \subseteq usages /\ Cardinality(with) <= used[c]

\* A guest's order rests on a proof that is spent.
GuestProofSpent ==
  \A r \in Placed : ProofOf[r] # NoProof => ProofOf[r] \in consumed

\* The status shown for a product is the one of its stock; the variants'
\* status is not maintained by a sale.
ProductStatusFresh ==
  \A i \in Items \ Variants : status[i] = StatusFor(i, stock[i])

\* No livelock: transactions that abort each other cannot all run out of
\* attempts, whatever the server interrupts meanwhile, since the last to meet
\* a conflict met it with someone who won, or ended for another reason.
SomeoneWins == \E r \in Requests : pc[r] # "exhausted"

\* Every request is answered.
EveryRequestEnds == \A r \in Requests : <>(pc[r] \in Ended)

\* The placed orders of r's customer with r's coupon.
UsedBefore(r) ==
  {q \in Placed : CouponOf[q] = CouponOf[r] /\ Lowercase[EmailOf[q]] = Lowercase[EmailOf[r]]}

\* What the coupon's perCustomerLimit promises: a customer whose placed orders
\* have used up the coupon is refused it; see the findings.
CustomerLimitChecked ==
  [][\A r \in Requests :
       pc[r] = "validate" /\ pc'[r] = FirstOperation(r) /\ CouponOf[r] # NoCoupon =>
         Cardinality(UsedBefore(r)) < PerCustomerLimit[CouponOf[r]]]_vars

\* What the coupon's usageLimit promises; see the findings.
UsageLimitKept ==
  \A c \in Coupons : UsageLimit[c] # 0 => used[c] <= UsageLimit[c]

=============================================================================
