--------------------------- MODULE CheckoutProofs ---------------------------
(***************************************************************************)
(* Checkout is right for any number of requests, items, lines, keys and    *)
(* retries.  In four parts:                                                *)
(*                                                                         *)
(*   Types    what the control has to remember for them (TypeInv);         *)
(*   Stock    no unit is sold twice, the movements match the stock         *)
(*            (StockInv);                                                  *)
(*   Orders   numbers, keys, proofs, coupons and status (OrderInv);        *)
(*   Atomic   every step is a step, or a stutter, of AtomicOrders.         *)
(***************************************************************************)
EXTENDS Checkout, Sums

\* The retry loop stays within the lines of the order.
LineInRange ==
  \A r \in Requests :
    pc[r] \in {"read", "write"} => line[r] \in 1 .. Len(Lines[r])

\* The stock that was checked is the stock that is decremented.
StockChecked ==
  \A r \in Requests :
    pc[r] = "write" => /\ r \in open
                       /\ CurrentLine(r).quantity <= view[r][CurrentLine(r).item]

\* Outside the lines the loop stands at the first; GiveUp and retries reset it.
LineReset ==
  \A r \in Requests :
    pc[r] \in {"identify", "consume", "lookup", "validate"} => line[r] = 1

\* Only a request that carries a proof consumes one.
ProofPresented ==
  \A r \in Requests : pc[r] = "consume" => ProofOf[r] \in Proofs

TypeInv == TypeOK /\ LineInRange /\ LineReset /\ StockChecked /\ ProofPresented

\* The line a request is at.
LEMMA CurrentLineType ==
  ASSUME NEW r \in Requests, line[r] \in 1 .. Len(Lines[r])
  PROVE  /\ CurrentLine(r).item \in Items
         /\ CurrentLine(r).quantity \in Nat \ {0}
  <1>1. Lines[r] \in Seq(Line)
    BY CheckoutAssumption
  <1>2. Lines[r][line[r]] \in Line
    BY <1>1
  <1>3. QED
    BY <1>2 DEF CurrentLine, Line

\* An attempt starts at the first line, if there is one.
LEMMA FirstOperationType ==
  ASSUME NEW r \in Requests
  PROVE  /\ FirstOperation(r) \in {"draw", "read"}
         /\ FirstOperation(r) = "read" => 1 \in 1 .. Len(Lines[r])
  <1>1. Lines[r] \in Seq(Line)
    BY CheckoutAssumption
  <1>2. Lines[r] # <<>> => 1 \in 1 .. Len(Lines[r])
    BY <1>1
  <1>3. QED
    BY <1>2 DEF FirstOperation

LEMMA InitTypeInv == Init => TypeInv
  BY CheckoutAssumption
  DEF Init, TypeInv, TypeOK, LineInRange, LineReset, StockChecked, ProofPresented,
      NoView, Working, Ended, StatusFor, Documents

\* Moving r to a label, with its line unchanged or back at the first, keeps
\* the control part of the invariant if the label does not enter a line.
LEMMA LeaveKeepsControl ==
  ASSUME TypeInv, NEW r \in Requests,
         NEW label \in Ended \cup {"lookup", "validate", "draw", "insert", "count", "usage", "commit"},
         pc' = [pc EXCEPT ![r] = label],
         line' = line \/ line' = [line EXCEPT ![r] = 1],
         label \in {"lookup", "validate"} => line'[r] = 1,
         \A q \in Requests \ {r} : q \in open => q \in open' /\ view'[q] = view[q]
  PROVE  LineInRange' /\ LineReset' /\ StockChecked' /\ ProofPresented'
  <1> USE DEF TypeInv, TypeOK, Ended
  <1>1. \A q \in Requests \ {r} : pc'[q] = pc[q] /\ line'[q] = line[q]
    OBVIOUS
  <1>2. pc'[r] = label
    OBVIOUS
  <1>3. LineInRange'
    BY <1>1, <1>2 DEF LineInRange
  <1>4. LineReset'
    BY <1>1, <1>2 DEF LineReset
  <1>5. StockChecked'
    BY <1>1, <1>2 DEF StockChecked, CurrentLine
  <1>6. ProofPresented'
    BY <1>1, <1>2 DEF ProofPresented
  <1>7. QED
    BY <1>3, <1>4, <1>5, <1>6

\* Entering the line an attempt starts at.
LEMMA EnterKeepsControl ==
  ASSUME TypeInv, NEW r \in Requests,
         pc' = [pc EXCEPT ![r] = FirstOperation(r)],
         line' = line \/ line' = [line EXCEPT ![r] = 1],
         line'[r] = 1,
         \A q \in Requests \ {r} : q \in open => q \in open' /\ view'[q] = view[q]
  PROVE  LineInRange' /\ LineReset' /\ StockChecked' /\ ProofPresented'
  <1> USE DEF TypeInv, TypeOK
  <1>1. \A q \in Requests \ {r} : pc'[q] = pc[q] /\ line'[q] = line[q]
    OBVIOUS
  <1>2. pc'[r] \in {"draw", "read"} /\ (pc'[r] = "read" => 1 \in 1 .. Len(Lines[r]))
    BY FirstOperationType
  <1>3. LineInRange'
    BY <1>1, <1>2 DEF LineInRange
  <1>4. LineReset'
    BY <1>1, <1>2 DEF LineReset
  <1>5. StockChecked'
    BY <1>1, <1>2 DEF StockChecked, CurrentLine
  <1>6. ProofPresented'
    BY <1>1, <1>2 DEF ProofPresented
  <1>7. QED
    BY <1>3, <1>4, <1>5, <1>6

\* Giving up a transaction, whatever the answer, keeps the types.
LEMMA GiveUpTypeInv ==
  ASSUME TypeInv, NEW r \in Requests, NEW label \in Ended, GiveUp(r, label)
  PROVE  TypeInv'
  <1> USE DEF GiveUp, Discard, Goto, docs, side
  <1>1. TypeOK'
    BY CheckoutAssumption DEF TypeInv, TypeOK, NoView
  <1>2. \A q \in Requests \ {r} : q \in open => q \in open' /\ view'[q] = view[q]
    BY DEF TypeInv, TypeOK
  <1>3. LineInRange' /\ LineReset' /\ StockChecked' /\ ProofPresented'
    BY <1>2, LeaveKeepsControl DEF Ended
  <1>4. QED
    BY <1>1, <1>3 DEF TypeInv

\* So does retrying it.
LEMMA RetryTypeInv ==
  ASSUME TypeInv, NEW r \in Requests, NEW label \in Ended, RetryAfterConflict(r, label)
  PROVE  TypeInv'
  <1> USE DEF RetryAfterConflict, Discard, Goto, docs, side
  <1>1. TypeOK'
    BY CheckoutAssumption, FirstOperationType DEF TypeInv, TypeOK, NoView, Working, Ended
  <1>2. \A q \in Requests \ {r} : q \in open => q \in open' /\ view'[q] = view[q]
    BY DEF TypeInv, TypeOK
  <1>3. line'[r] = 1
    BY DEF TypeInv, TypeOK
  <1>4. CASE attempt[r] < MaxRetries
    BY <1>1, <1>2, <1>3, <1>4, EnterKeepsControl DEF TypeInv
  <1>5. CASE ~(attempt[r] < MaxRetries)
    BY <1>1, <1>2, <1>5, LeaveKeepsControl DEF TypeInv, Ended
  <1>6. QED
    BY <1>4, <1>5

\* The steps before the transaction touch neither lines nor stock.
LEMMA BeforeTypeInv ==
  ASSUME TypeInv, NEW r \in Requests,
         Identify(r) \/ Consume(r) \/ Lookup(r) \/ Validate(r) \/ Refuse(r)
  PROVE  TypeInv'
  <1> USE DEF Goto, txn, docs, side
  <1>1. CASE Identify(r)
    <2>1. TypeOK'
      BY <1>1 DEF Identify, TypeInv, TypeOK, Working, Ended
    <2>2. QED
      BY <1>1, <2>1, CheckoutAssumption
      DEF Identify, TypeInv, TypeOK, LineInRange, LineReset, StockChecked, ProofPresented,
          CurrentLine
  <1>2. CASE Consume(r)
    <2>1. TypeOK'
      BY <1>2 DEF Consume, TypeInv, TypeOK, ProofPresented, Working
    <2>2. line[r] = 1
      BY <1>2 DEF Consume, TypeInv, LineReset
    <2>3. QED
      BY <1>2, <2>1, <2>2, LeaveKeepsControl DEF Consume, TypeInv
  <1>3. CASE Lookup(r)
    BY <1>3
    DEF Lookup, TypeInv, TypeOK, LineInRange, LineReset, StockChecked, ProofPresented,
        CurrentLine, Working, Ended
  <1>4. CASE Validate(r)
    <2>1. TypeOK'
      BY <1>4, FirstOperationType DEF Validate, TypeInv, TypeOK, Working, Ended
    <2>2. line[r] = 1
      BY <1>4 DEF Validate, TypeInv, LineReset
    <2>3. CASE CouponOf[r] # NoCoupon => CouponAccepted(r)
      BY <1>4, <2>1, <2>2, <2>3, EnterKeepsControl DEF Validate, TypeInv
    <2>4. CASE ~(CouponOf[r] # NoCoupon => CouponAccepted(r))
      BY <1>4, <2>1, <2>2, <2>4, LeaveKeepsControl DEF Validate, TypeInv, Ended
    <2>5. QED
      BY <2>3, <2>4
  <1>5. CASE Refuse(r)
    BY <1>5
    DEF Refuse, TypeInv, TypeOK, LineInRange, LineReset, StockChecked, ProofPresented,
        CurrentLine, Working, Ended
  <1>6. QED
    BY <1>1, <1>2, <1>3, <1>4, <1>5

\* Reading a line's stock: the check is what StockChecked remembers.
LEMMA ReadStockTypeInv ==
  ASSUME TypeInv, NEW r \in Requests, ReadStock(r)
  PROVE  TypeInv'
  <1>1. line[r] \in 1 .. Len(Lines[r])
    BY DEF ReadStock, TypeInv, LineInRange
  <1>2. CurrentLine(r).item \in Items /\ CurrentLine(r).quantity \in Nat
    BY <1>1, CurrentLineType
  <1>3. ViewOf(r) \in [Items -> Nat]
    BY DEF ViewOf, TypeInv, TypeOK
  <1>4. CASE ViewOf(r)[CurrentLine(r).item] < CurrentLine(r).quantity
    BY <1>4, GiveUpTypeInv DEF ReadStock, Ended
  <1>5. CASE ~(ViewOf(r)[CurrentLine(r).item] < CurrentLine(r).quantity)
    <2>1. TypeOK'
      <3>1. /\ pc' = [pc EXCEPT ![r] = "write"] /\ open' = open \cup {r}
            /\ view' = [view EXCEPT ![r] = ViewOf(r)]
            /\ UNCHANGED <<attempt, line, number, dirty, stale, pending, docs, side>>
        BY <1>5 DEF ReadStock, Goto
      <3>2. QED
        BY <1>3, <3>1 DEF docs, side, TypeInv, TypeOK, Working
    <2>2. /\ pc'[r] = "write" /\ view'[r] = ViewOf(r) /\ line' = line /\ open' = open \cup {r}
          /\ \A q \in Requests \ {r} : pc'[q] = pc[q] /\ view'[q] = view[q]
      BY <1>5 DEF ReadStock, Goto, TypeInv, TypeOK
    <2>3. LineInRange' /\ LineReset' /\ ProofPresented'
      BY <1>1, <2>2 DEF TypeInv, LineInRange, LineReset, ProofPresented
    <2>4. StockChecked'
      <3>1. \A q \in Requests : CurrentLine(q)' = CurrentLine(q)
        BY <2>2 DEF CurrentLine
      <3>2. CurrentLine(r).quantity <= ViewOf(r)[CurrentLine(r).item]
        BY <1>2, <1>3, <1>5
      <3>3. QED
        BY <2>2, <3>1, <3>2 DEF TypeInv, StockChecked
    <2>5. QED
      BY <2>1, <2>3, <2>4 DEF TypeInv
  <1>6. QED
    BY <1>4, <1>5

\* Writing it: the decremented stock is not negative, and the next line exists.
LEMMA WriteStockTypeInv ==
  ASSUME TypeInv, NEW r \in Requests, WriteStock(r)
  PROVE  TypeInv'
  <1> DEFINE i == CurrentLine(r).item
             n == CurrentLine(r).quantity
             left == view[r][i] - n
             sale == [req |-> r, item |-> i, quantity |-> n,
                      previousStock |-> view[r][i], newStock |-> left]
  <1>1. line[r] \in 1 .. Len(Lines[r]) /\ r \in open
    BY DEF WriteStock, TypeInv, LineInRange, StockChecked
  <1>2. i \in Items /\ n \in Nat /\ left \in Nat
    BY <1>1, CurrentLineType DEF WriteStock, TypeInv, TypeOK, StockChecked
  <1>3. CASE Conflict(r, i)
    BY <1>3, RetryTypeInv DEF WriteStock, Ended
  <1>4. CASE ~Conflict(r, i)
    <2>1. /\ view' = [view EXCEPT ![r][i] = left]
          /\ dirty' = [dirty EXCEPT ![r] = @ \cup {i}]
          /\ pending' = [pending EXCEPT ![r] = @ \cup {sale}]
          /\ line' = [line EXCEPT ![r] = @ + 1]
          /\ pc' = [pc EXCEPT ![r] = IF line[r] = Len(Lines[r]) THEN "draw" ELSE "read"]
          /\ UNCHANGED <<attempt, number, open, stale, stock, status, movements, orders, side>>
      BY <1>4 DEF WriteStock, LogSale, Goto
    <2>2. sale \in Movement
      BY <1>2 DEF TypeInv, TypeOK, Movement
    <2> HIDE DEF i, n, left, sale
    <2>3. TypeOK'
      BY <1>2, <2>1, <2>2 DEF TypeInv, TypeOK, Working, Documents, side
    <2>4. Len(Lines[r]) \in Nat
      BY CheckoutAssumption
    <2>5. LineInRange' /\ LineReset' /\ ProofPresented'
      BY <1>1, <2>1, <2>4 DEF TypeInv, TypeOK, LineInRange, LineReset, ProofPresented
    <2>6. StockChecked'
      BY <2>1 DEF TypeInv, TypeOK, StockChecked, CurrentLine
    <2>7. QED
      BY <2>3, <2>5, <2>6 DEF TypeInv
  <1>5. QED
    BY <1>3, <1>4

\* The order's number, its insertion, the coupon's records.
LEMMA RestTypeInv ==
  ASSUME TypeInv, NEW r \in Requests,
         DrawNumber(r) \/ InsertOrder(r) \/ CountUsage(r) \/ RecordUsage(r)
  PROVE  TypeInv'
  <1> USE DEF Goto, txn, docs, side
  <1>1. CASE DrawNumber(r)
    <2>1. TypeOK'
      BY <1>1 DEF DrawNumber, TypeInv, TypeOK, Working
    <2>2. QED
      BY <1>1, <2>1, LeaveKeepsControl DEF DrawNumber, TypeInv
  <1>2. CASE InsertOrder(r)
    <2>1. CASE GiveUp(r, "failed")
      BY <2>1, GiveUpTypeInv DEF Ended
    <2>2. CASE RetryAfterConflict(r, "exhausted")
      BY <2>2, RetryTypeInv DEF Ended
    <2>3. CASE ~GiveUp(r, "failed") /\ ~RetryAfterConflict(r, "exhausted")
      <3>1. /\ open' = open \cup {r}
            /\ view' = [view EXCEPT ![r] = ViewOf(r)]
            /\ dirty' = [dirty EXCEPT ![r] = @ \cup ({KeyOf[r]} \ {NoKey})]
            /\ pc' = [pc EXCEPT ![r] = IF CouponOf[r] = NoCoupon THEN "commit" ELSE "count"]
            /\ UNCHANGED <<attempt, line, number, stale, pending, docs, side>>
        BY <1>2, <2>3 DEF InsertOrder
      <3>2. ViewOf(r) \in [Items -> Nat]
        BY DEF ViewOf, TypeInv, TypeOK
      <3>3. TypeOK'
        <4>1. KeyOf[r] # NoKey => KeyOf[r] \in Documents
          BY CheckoutAssumption DEF Documents
        <4>2. dirty' \in [Requests -> SUBSET Documents]
          BY <3>1, <4>1 DEF TypeInv, TypeOK
        <4>3. view' \in [Requests -> [Items -> Nat]]
          BY <3>1, <3>2 DEF TypeInv, TypeOK
        <4>4. open' \in SUBSET Requests
          BY <3>1 DEF TypeInv, TypeOK
        <4>5. pc' \in [Requests -> Working \cup Ended]
          BY <3>1 DEF TypeInv, TypeOK, Working
        <4>6. QED
          BY <3>1, <4>2, <4>3, <4>4, <4>5 DEF TypeInv, TypeOK
      <3>4. \A q \in Requests \ {r} : q \in open => q \in open' /\ view'[q] = view[q]
        BY <3>1 DEF TypeInv, TypeOK
      <3>5. LineInRange' /\ LineReset' /\ StockChecked' /\ ProofPresented'
        <4>1. CASE CouponOf[r] = NoCoupon
          <5>1. pc' = [pc EXCEPT ![r] = "commit"] /\ line' = line
            BY <3>1, <4>1
          <5>2. QED
            BY <5>1, <3>4, LeaveKeepsControl
        <4>2. CASE CouponOf[r] # NoCoupon
          <5>1. pc' = [pc EXCEPT ![r] = "count"] /\ line' = line
            BY <3>1, <4>2
          <5>2. QED
            BY <5>1, <3>4, LeaveKeepsControl
        <4>3. QED
          BY <4>1, <4>2
      <3>6. QED
        BY <3>3, <3>5 DEF TypeInv
    <2>4. QED
      BY <2>1, <2>2, <2>3
  <1>3. CASE CountUsage(r)
    <2>1. TypeOK'
      <3>1. \A c \in Coupons : used[c] + 1 \in Nat
        BY DEF TypeInv, TypeOK
      <3>2. used' \in [Coupons -> Nat]
        BY <1>3, <3>1 DEF CountUsage, TypeInv, TypeOK
      <3>3. QED
        BY <1>3, <3>2 DEF CountUsage, TypeInv, TypeOK, Working
    <2>2. QED
      BY <1>3, <2>1, LeaveKeepsControl DEF CountUsage, TypeInv
  <1>4. CASE RecordUsage(r)
    <2>1. TypeOK'
      BY <1>4 DEF RecordUsage, TypeInv, TypeOK, Working
    <2>2. QED
      BY <1>4, <2>1, LeaveKeepsControl DEF RecordUsage, TypeInv
  <1>5. QED
    BY <1>1, <1>2, <1>3, <1>4

\* The commit publishes what the transaction wrote.
LEMMA CommitTypeInv ==
  ASSUME TypeInv, NEW r \in Requests, Commit(r)
  PROVE  TypeInv'
  <1>1. PICK label \in {"placed", "failed"} : pc' = [pc EXCEPT ![r] = label]
    BY DEF Commit, Goto
  <1>2. StatusAfter(r) \in [Items -> {"out_of_stock", "low_stock", "in_stock"}]
    BY DEF StatusAfter, StatusFor, TypeInv, TypeOK
  <1>3. orders' \in SUBSET Order
    BY DEF Commit, Apply, Order, TypeInv, TypeOK
  <1>4. TypeOK'
    BY <1>1, <1>2, <1>3 DEF Commit, Apply, TypeInv, TypeOK, NoView, Ended, side
  <1>5. \A q \in Requests \ {r} : q \in open => q \in open' /\ view'[q] = view[q]
    BY DEF Commit, Apply, TypeInv, TypeOK
  <1>6. LineInRange' /\ LineReset' /\ StockChecked' /\ ProofPresented'
    BY <1>1, <1>5, LeaveKeepsControl DEF Commit, Ended
  <1>7. QED
    BY <1>4, <1>6 DEF TypeInv

LEMMA TypeInvStep == TypeInv /\ [Next]_vars => TypeInv'
  <1> SUFFICES ASSUME TypeInv, [Next]_vars PROVE TypeInv'
    OBVIOUS
  <1>1. ASSUME NEW r \in Requests, Step(r) PROVE TypeInv'
    <2>1. CASE Identify(r) \/ Consume(r) \/ Lookup(r) \/ Validate(r) \/ Refuse(r)
      BY <2>1, BeforeTypeInv
    <2>2. CASE ReadStock(r)
      BY <2>2, ReadStockTypeInv
    <2>3. CASE WriteStock(r)
      BY <2>3, WriteStockTypeInv
    <2>4. CASE DrawNumber(r) \/ InsertOrder(r) \/ CountUsage(r) \/ RecordUsage(r)
      BY <2>4, RestTypeInv
    <2>5. CASE Commit(r)
      BY <2>5, CommitTypeInv
    <2>6. CASE Fail(r)
      BY <2>6, GiveUpTypeInv DEF Fail, Ended
    <2>7. CASE Interrupted(r)
      BY <2>7, RetryTypeInv DEF Interrupted, Ended
    <2>8. QED
      BY <1>1, <2>1, <2>2, <2>3, <2>4, <2>5, <2>6, <2>7 DEF Step
  <1>2. CASE UNCHANGED vars
    BY <1>2 DEF vars, local, txn, docs, side, TypeInv, TypeOK, LineInRange, LineReset,
                StockChecked, ProofPresented, CurrentLine
  <1>3. QED
    BY <1>1, <1>2 DEF Next, AllEnded

\* Checkout is type correct: in particular no stock is ever negative, in the
\* documents or as any transaction sees it.
THEOREM TypeCorrect == Spec => []TypeOK
  <1>1. Init => TypeInv
    BY InitTypeInv
  <1>2. TypeInv => TypeOK
    BY DEF TypeInv
  <1>3. QED
    BY <1>1, <1>2, TypeInvStep, PTL DEF Spec

(***************************************************************************)
(* Stock.  A document written by an open transaction is written by no      *)
(* other and was not committed since its snapshot (Locks), so what the     *)
(* transaction sees of a document it may still write is the committed      *)
(* stock (Views), and its pending movements continue the committed ones    *)
(* downwards without gap or overlap (Ledger).                              *)
(***************************************************************************)

Locks ==
  /\ \A r \in Requests : dirty[r] # {} => r \in open
  /\ \A q, r \in Requests : q # r => dirty[q] \cap dirty[r] = {}
  /\ \A r \in Requests : dirty[r] \cap stale[r] = {}

Views ==
  \A r \in open : \A i \in Items :
    i \notin dirty[r] \cup stale[r] => view[r][i] = stock[i]

\* The movements of item i in S cover the stock levels above low, up to high,
\* each of them once.
Tiles(S, i, low, high) ==
  /\ low <= high
  /\ \A m \in S :
       m.item = i => /\ low <= m.newStock
                     /\ m.newStock < m.previousStock
                     /\ m.previousStock <= high
  /\ \A m1, m2 \in S :
       m1 # m2 /\ m1.item = i /\ m2.item = i =>
         m1.previousStock <= m2.newStock \/ m2.previousStock <= m1.newStock
  /\ \A n \in 1 .. high : low < n => \E m \in S : Covers(m, i, n)

\* The stock of i if the transaction of r committed now.
Left(r, i) == IF i \in dirty[r] THEN view[r][i] ELSE stock[i]

Ledger ==
  \A i \in Items :
    /\ Tiles(movements, i, stock[i], InitialStock[i])
    /\ \A r \in Requests : Tiles(pending[r], i, Left(r, i), stock[i])

StockInv == TypeInv /\ Locks /\ Views /\ Ledger

-----------------------------------------------------------------------------
(* Tiles.                                                                  *)

\* No movement covers no level.
LEMMA TilesEmpty ==
  ASSUME NEW i \in Items, NEW n \in Nat
  PROVE  Tiles({}, i, n, n)
  BY DEF Tiles

\* The bounds of an item none of whose movements are in S may be moved.
LEMMA TilesNone ==
  ASSUME NEW S \in SUBSET Movement, NEW i \in Items, NEW n \in Nat, NEW k \in Nat,
         Tiles(S, i, n, n)
  PROVE  Tiles(S, i, k, k)
  <1>1. \A m \in S : m.newStock \in Nat /\ m.previousStock \in Nat
    BY DEF Movement
  <1>2. \A m \in S : m.item # i
    BY <1>1 DEF Tiles
  <1>3. QED
    BY <1>2 DEF Tiles

\* Lower tiles continue upper ones.
LEMMA TilesUnion ==
  ASSUME NEW S \in SUBSET Movement, NEW T \in SUBSET Movement, NEW i \in Items,
         NEW low \in Nat, NEW mid \in Nat, NEW high \in Nat,
         Tiles(S, i, mid, high), Tiles(T, i, low, mid)
  PROVE  Tiles(S \cup T, i, low, high)
  <1>1. \A m \in S \cup T : m.newStock \in Nat /\ m.previousStock \in Nat
    BY DEF Movement
  <1>2. low <= high
    BY DEF Tiles
  <1>3. ASSUME NEW m \in S \cup T, m.item = i
        PROVE  low <= m.newStock /\ m.newStock < m.previousStock /\ m.previousStock <= high
    BY <1>1, <1>3 DEF Tiles
  <1>4. ASSUME NEW m1 \in S \cup T, NEW m2 \in S \cup T, m1 # m2, m1.item = i, m2.item = i
        PROVE  m1.previousStock <= m2.newStock \/ m2.previousStock <= m1.newStock
    BY <1>1, <1>4 DEF Tiles
  <1>5. ASSUME NEW n \in 1 .. high, low < n
        PROVE  \E m \in S \cup T : Covers(m, i, n)
    <2>1. CASE mid < n
      BY <1>5, <2>1 DEF Tiles
    <2>2. CASE n <= mid
      BY <1>5, <2>2 DEF Tiles
    <2>3. QED
      BY <2>1, <2>2
  <1>6. QED
    BY <1>2, <1>3, <1>4, <1>5 DEF Tiles

\* A movement is a tile of its item and none of another.
LEMMA TilesOne ==
  ASSUME NEW m \in Movement, m.newStock < m.previousStock, NEW i \in Items, NEW n \in Nat
  PROVE  /\ m.item = i => Tiles({m}, i, m.newStock, m.previousStock)
         /\ m.item # i => Tiles({m}, i, n, n)
  <1>1. m.newStock \in Nat /\ m.previousStock \in Nat
    BY DEF Movement
  <1>2. QED
    BY <1>1 DEF Tiles, Covers

-----------------------------------------------------------------------------
(* The stock.                                                              *)

LEMMA InitStockInv == Init => StockInv
  <1> SUFFICES ASSUME Init PROVE StockInv
    OBVIOUS
  <1>1. TypeInv
    BY InitTypeInv
  <1>2. Locks /\ Views
    BY DEF Init, Locks, Views
  <1>3. ASSUME NEW i \in Items
        PROVE  /\ Tiles(movements, i, stock[i], InitialStock[i])
               /\ \A r \in Requests : Tiles(pending[r], i, Left(r, i), stock[i])
    BY CheckoutAssumption, TilesEmpty DEF Init, Left
  <1>4. QED
    BY <1>1, <1>2, <1>3 DEF StockInv, Ledger

\* The steps outside the transaction leave it alone.
LEMMA SideKeepsStock ==
  ASSUME Locks, Views, Ledger, UNCHANGED <<txn, docs>>
  PROVE  Locks' /\ Views' /\ Ledger'
  BY DEF txn, docs, Locks, Views, Ledger, Left

\* So does giving the transaction up.
LEMMA DiscardKeepsStock ==
  ASSUME StockInv, NEW r \in Requests, Discard(r), UNCHANGED docs
  PROVE  Locks' /\ Views' /\ Ledger'
  <1> USE DEF Discard, docs, StockInv, TypeInv, TypeOK
  <1>1. Locks'
    BY DEF Locks
  <1>2. Views'
    BY DEF Views
  <1>3. ASSUME NEW i \in Items, NEW q \in Requests
        PROVE  Tiles(pending'[q], i, Left(q, i)', stock[i])
    <2>1. CASE q = r
      BY <2>1, TilesEmpty DEF Left
    <2>2. CASE q # r
      BY <2>2 DEF Ledger, Left
    <2>3. QED
      BY <2>1, <2>2
  <1>4. Ledger'
    BY <1>3 DEF Ledger
  <1>5. QED
    BY <1>1, <1>2, <1>4

\* A snapshot shows the committed stock.
LEMMA OpenKeepsStock ==
  ASSUME StockInv, NEW r \in Requests, NEW K \in SUBSET Keys,
         open' = open \cup {r},
         view' = [view EXCEPT ![r] = ViewOf(r)],
         dirty' = [dirty EXCEPT ![r] = @ \cup K],
         \A k \in K : k \notin stale[r] /\ \A q \in Requests \ {r} : k \notin dirty[q],
         UNCHANGED <<stale, pending, docs>>
  PROVE  Locks' /\ Views' /\ Ledger'
  <1> USE DEF docs, StockInv, TypeInv, TypeOK
  <1>1. Locks'
    BY DEF Locks
  <1>2. Keys \cap Items = {}
    BY CheckoutAssumption
  <1>3. \A q \in Requests : q # r => view'[q] = view[q] /\ dirty'[q] = dirty[q]
    OBVIOUS
  <1>4. view'[r] = (IF r \in open THEN view[r] ELSE stock) /\ dirty'[r] = dirty[r] \cup K
    BY DEF ViewOf
  <1>5. Views'
    BY <1>3, <1>4 DEF Views
  <1>6. ASSUME NEW i \in Items, NEW q \in Requests PROVE Left(q, i)' = Left(q, i)
    <2>1. CASE q = r
      BY <1>2, <1>4, <2>1 DEF Left, Locks
    <2>2. CASE q # r
      BY <1>3, <2>2 DEF Left
    <2>3. QED
      BY <2>1, <2>2
  <1>7. Ledger'
    BY <1>6 DEF Ledger
  <1>8. QED
    BY <1>1, <1>5, <1>7

\* A sale takes the units below those the transaction has already taken.
LEMMA SaleKeepsStock ==
  ASSUME StockInv, NEW r \in Requests, WriteStock(r), ~Conflict(r, CurrentLine(r).item)
  PROVE  Locks' /\ Views' /\ Ledger'
  <1> DEFINE i == CurrentLine(r).item
             n == CurrentLine(r).quantity
             left == view[r][i] - n
             sale == [req |-> r, item |-> i, quantity |-> n,
                      previousStock |-> view[r][i], newStock |-> left]
  <1>1. TypeOK /\ r \in open /\ line[r] \in 1 .. Len(Lines[r]) /\ n <= view[r][i]
    BY DEF WriteStock, StockInv, TypeInv, LineInRange, StockChecked
  <1>2. i \in Items /\ n \in Nat \ {0}
    BY <1>1, CurrentLineType
  <1>3. view[r][i] \in Nat /\ left \in Nat /\ left < view[r][i]
    BY <1>1, <1>2 DEF TypeOK
  <1>4. i \notin stale[r] /\ \A q \in Requests \ {r} : i \notin dirty[q]
    BY DEF Conflict
  <1>5. /\ view' = [view EXCEPT ![r][i] = left]
        /\ dirty' = [dirty EXCEPT ![r] = @ \cup {i}]
        /\ pending' = [pending EXCEPT ![r] = @ \cup {sale}]
        /\ UNCHANGED <<open, stale, stock, status, movements, orders>>
    BY DEF WriteStock, LogSale
  <1>6. sale \in Movement /\ sale.item = i /\ sale.newStock = left /\ sale.previousStock = view[r][i]
    BY <1>2, <1>3 DEF Movement
  <1>7. Left(r, i) = view[r][i]
    BY <1>1, <1>2, <1>4 DEF StockInv, Views, Left
  <1> HIDE DEF i, n, left, sale
  <1>8. Locks'
    BY <1>1, <1>4, <1>5 DEF StockInv, Locks, TypeOK
  <1>9. Views'
    BY <1>1, <1>2, <1>5 DEF StockInv, Views, TypeOK
  <1>10. ASSUME NEW j \in Items, NEW q \in Requests
         PROVE  Tiles(pending'[q], j, Left(q, j)', stock[j])
    <2>1. Tiles(pending[q], j, Left(q, j), stock[j])
      BY DEF StockInv, Ledger
    <2>2. CASE q # r
      BY <1>1, <1>5, <2>1, <2>2 DEF Left, TypeOK
    <2>3. CASE q = r
      <3>1. pending[r] \in SUBSET Movement /\ {sale} \in SUBSET Movement
            /\ pending'[r] = pending[r] \cup {sale} /\ stock[j] \in Nat /\ Left(r, j) \in Nat
        BY <1>1, <1>5, <1>6 DEF TypeOK, Left
      <3>2. CASE j = i
        <4>1. Left(r, j)' = left
          BY <1>1, <1>2, <1>5, <3>2 DEF Left, TypeOK
        <4>2. Left(r, j) = view[r][i]
          BY <1>7, <3>2
        <4>3. Tiles({sale}, j, left, Left(r, j))
          BY <1>3, <1>6, <3>2, <4>2, TilesOne
        <4>4. Tiles(pending[r] \cup {sale}, j, left, stock[j])
          BY <1>3, <2>1, <2>3, <3>1, <4>3, TilesUnion
        <4>5. QED
          BY <2>3, <3>1, <4>1, <4>4
      <3>3. CASE j # i
        <4>1. Left(r, j)' = Left(r, j)
          BY <1>1, <1>2, <1>5, <3>3 DEF Left, TypeOK
        <4>2. Tiles({sale}, j, Left(r, j), Left(r, j))
          BY <1>3, <1>6, <3>1, <3>3, TilesOne
        <4>3. QED
          BY <2>1, <2>3, <3>1, <4>1, <4>2, TilesUnion
      <3>4. QED
        BY <3>2, <3>3
    <2>4. QED
      BY <2>2, <2>3
  <1>11. Ledger'
    BY <1>5, <1>10 DEF StockInv, Ledger
  <1>12. QED
    BY <1>8, <1>9, <1>11

\* A commit appends the transaction's tiles to the committed ones, and moves
\* the stock of no item another transaction has written.
LEMMA CommitKeepsStock ==
  ASSUME StockInv, NEW r \in Requests, Apply(r)
  PROVE  Locks' /\ Views' /\ Ledger'
  <1>1. TypeOK
    BY DEF StockInv, TypeInv
  <1>2. Locks'
    BY <1>1 DEF Apply, StockInv, Locks, TypeOK
  <1>3. ASSUME NEW i \in Items PROVE stock'[i] = Left(r, i) /\ stock[i] \in Nat /\ Left(r, i) \in Nat
    BY <1>1 DEF Apply, Left, TypeOK
  <1>4. Views'
    <2>1. ASSUME NEW q \in open', NEW i \in Items, i \notin dirty'[q] \cup stale'[q]
          PROVE  view'[q][i] = stock'[i]
      <3>1. q \in open /\ q # r
        BY <2>1 DEF Apply
      <3>2. view'[q] = view[q] /\ dirty'[q] = dirty[q] /\ stale'[q] = stale[q] \cup dirty[r]
        BY <1>1, <3>1 DEF Apply, TypeOK
      <3>3. i \notin dirty[q] \cup stale[q] /\ i \notin dirty[r]
        BY <2>1, <3>2
      <3>4. QED
        BY <1>3, <3>1, <3>2, <3>3 DEF StockInv, Views, Left
    <2>2. QED
      BY <2>1 DEF Views
  <1>5. ASSUME NEW i \in Items
        PROVE  Tiles(movements', i, stock'[i], InitialStock[i])
    <2>1. Tiles(movements, i, stock[i], InitialStock[i]) /\ Tiles(pending[r], i, Left(r, i), stock[i])
      BY DEF StockInv, Ledger
    <2>2. movements' = movements \cup pending[r] /\ movements \in SUBSET Movement
          /\ pending[r] \in SUBSET Movement /\ InitialStock[i] \in Nat
      BY <1>1, CheckoutAssumption DEF Apply, TypeOK
    <2>3. QED
      BY <1>3, <2>1, <2>2, TilesUnion
  <1>6. ASSUME NEW i \in Items, NEW q \in Requests
        PROVE  Tiles(pending'[q], i, Left(q, i)', stock'[i])
    <2>1. Tiles(pending[q], i, Left(q, i), stock[i]) /\ pending[q] \in SUBSET Movement
      BY <1>1 DEF StockInv, Ledger, TypeOK
    <2>2. CASE q = r
      BY <1>1, <1>3, <2>2, TilesEmpty DEF Apply, Left, TypeOK
    <2>3. CASE q # r
      <3>1. pending'[q] = pending[q] /\ dirty'[q] = dirty[q] /\ view'[q] = view[q]
        BY <1>1, <2>3 DEF Apply, TypeOK
      <3>2. CASE i \in dirty[q]
        <4>1. stock'[i] = stock[i]
          BY <1>3, <2>3, <3>2 DEF Left, StockInv, Locks
        <4>2. QED
          BY <2>1, <3>1, <3>2, <4>1 DEF Left
      <3>3. CASE i \notin dirty[q]
        <4>1. Left(q, i) = stock[i] /\ Left(q, i)' = stock'[i]
          BY <3>1, <3>3 DEF Left
        <4>2. QED
          BY <1>3, <2>1, <3>1, <4>1, TilesNone
      <3>4. QED
        BY <3>2, <3>3
    <2>4. QED
      BY <2>2, <2>3
  <1>7. Ledger'
    BY <1>5, <1>6 DEF Ledger
  <1>8. QED
    BY <1>2, <1>4, <1>7

LEMMA StockInvStep == StockInv /\ [Next]_vars => StockInv'
  <1> SUFFICES ASSUME StockInv, [Next]_vars PROVE Locks' /\ Views' /\ Ledger'
    BY TypeInvStep DEF StockInv
  <1>1. ASSUME NEW r \in Requests, Step(r) PROVE Locks' /\ Views' /\ Ledger'
    <2>1. CASE Identify(r) \/ Consume(r) \/ Lookup(r) \/ Validate(r) \/ Refuse(r)
      BY <2>1, SideKeepsStock DEF StockInv, Identify, Consume, Lookup, Validate, Refuse
    <2>2. CASE DrawNumber(r) \/ CountUsage(r) \/ RecordUsage(r)
      BY <2>2, SideKeepsStock DEF StockInv, DrawNumber, CountUsage, RecordUsage
    <2>3. CASE \E label \in Ended : GiveUp(r, label)
      BY <2>3, DiscardKeepsStock DEF GiveUp
    <2>4. CASE \E label \in Ended : RetryAfterConflict(r, label)
      BY <2>4, DiscardKeepsStock DEF RetryAfterConflict
    <2>5. CASE ReadStock(r)
      <3>1. CASE ViewOf(r)[CurrentLine(r).item] < CurrentLine(r).quantity
        BY <2>3, <2>5, <3>1 DEF ReadStock, Ended
      <3>2. CASE ~(ViewOf(r)[CurrentLine(r).item] < CurrentLine(r).quantity)
        <4>1. /\ open' = open \cup {r}
              /\ view' = [view EXCEPT ![r] = ViewOf(r)]
              /\ UNCHANGED <<dirty, stale, pending, docs>>
          BY <2>5, <3>2 DEF ReadStock
        <4>2. dirty' = [dirty EXCEPT ![r] = @ \cup {}]
          BY <4>1 DEF StockInv, TypeInv, TypeOK
        <4>3. {} \in SUBSET Keys
          OBVIOUS
        <4>4. QED
          BY <4>1, <4>2, <4>3, OpenKeepsStock
      <3>3. QED
        BY <3>1, <3>2
    <2>6. CASE WriteStock(r)
      BY <2>4, <2>6, SaleKeepsStock DEF WriteStock, Ended
    <2>7. CASE InsertOrder(r)
      <3>1. CASE GiveUp(r, "failed") \/ RetryAfterConflict(r, "exhausted")
        BY <2>3, <2>4, <3>1 DEF Ended
      <3>2. CASE ~(GiveUp(r, "failed") \/ RetryAfterConflict(r, "exhausted"))
        <4>1. /\ ~Conflict(r, KeyOf[r])
              /\ open' = open \cup {r}
              /\ view' = [view EXCEPT ![r] = ViewOf(r)]
              /\ dirty' = [dirty EXCEPT ![r] = @ \cup ({KeyOf[r]} \ {NoKey})]
              /\ UNCHANGED <<stale, pending, docs>>
          BY <2>7, <3>2 DEF InsertOrder
        <4>2. {KeyOf[r]} \ {NoKey} \in SUBSET Keys
          BY CheckoutAssumption
        <4>3. \A k \in {KeyOf[r]} \ {NoKey} :
                k \notin stale[r] /\ \A q \in Requests \ {r} : k \notin dirty[q]
          BY <4>1 DEF Conflict
        <4>4. QED
          BY <4>1, <4>2, <4>3, OpenKeepsStock
      <3>3. QED
        BY <3>1, <3>2
    <2>8. CASE Commit(r)
      BY <2>8, CommitKeepsStock DEF Commit
    <2>9. CASE Fail(r)
      BY <2>3, <2>9 DEF Fail, Ended
    <2>10. CASE Interrupted(r)
      BY <2>4, <2>10 DEF Interrupted, Ended
    <2>11. QED
      BY <1>1, <2>1, <2>2, <2>5, <2>6, <2>7, <2>8, <2>9, <2>10 DEF Step
  <1>2. CASE UNCHANGED vars
    BY <1>2, SideKeepsStock DEF vars, StockInv
  <1>3. QED
    BY <1>1, <1>2 DEF Next, AllEnded

LEMMA StockInvariant == Spec => []StockInv
  <1>1. QED
    BY InitStockInv, StockInvStep, PTL DEF Spec

\* Concurrent checkouts never sell a unit twice, whatever the interleaving,
\* the aborts and the retries.
THEOREM NoOversell == Spec => []NoUnitSoldTwice
  <1>1. StockInv => NoUnitSoldTwice
    <2> SUFFICES ASSUME StockInv, NEW m1 \in movements, NEW m2 \in movements,
                        m1 # m2, m1.item = m2.item
                 PROVE  m1.previousStock <= m2.newStock \/ m2.previousStock <= m1.newStock
      BY DEF NoUnitSoldTwice
    <2>1. m1.item \in Items
      BY DEF StockInv, TypeInv, TypeOK, Movement
    <2>2. Tiles(movements, m1.item, stock[m1.item], InitialStock[m1.item])
      BY <2>1 DEF StockInv, Ledger
    <2>3. QED
      BY <2>2 DEF Tiles
  <1>2. QED
    BY <1>1, StockInvariant, PTL

\* The committed SALE movements account for every unit missing from the stock
\* and for no other.
THEOREM LedgerCorrect == Spec => []LedgerMatchesStock
  <1>1. StockInv => LedgerMatchesStock
    <2> SUFFICES ASSUME StockInv, NEW i \in Items, NEW n \in 1 .. InitialStock[i]
                 PROVE  n > stock[i] <=> \E m \in movements : Covers(m, i, n)
      BY DEF LedgerMatchesStock
    <2>1. Tiles(movements, i, stock[i], InitialStock[i])
      BY DEF StockInv, Ledger
    <2>2. stock[i] \in Nat /\ InitialStock[i] \in Nat
      BY CheckoutAssumption DEF StockInv, TypeInv, TypeOK
    <2>3. \A m \in movements : m.newStock \in Nat
      BY DEF StockInv, TypeInv, TypeOK, Movement
    <2>4. n > stock[i] => \E m \in movements : Covers(m, i, n)
      BY <2>1, <2>2 DEF Tiles
    <2>5. ASSUME NEW m \in movements, Covers(m, i, n) PROVE n > stock[i]
      BY <2>1, <2>2, <2>3, <2>5 DEF Tiles, Covers
    <2>6. QED
      BY <2>4, <2>5
  <1>2. QED
    BY <1>1, StockInvariant, PTL

(***************************************************************************)
(* Orders.  Each part of OrderInv says what a request on its way to the    *)
(* commit already holds: a number nobody else drew, the lock on its key, a *)
(* spent proof, a counted coupon.  The commit turns it into a property of  *)
(* the orders.                                                             *)
(***************************************************************************)

Drawn    == {"insert", "count", "usage", "commit"}
Inserted == {"count", "usage", "commit"}
Counted  == {"usage", "commit"}
Spent    == Working \ {"identify", "consume"}

Numbers ==
  /\ \A o \in orders : o.number <= counter
  /\ \A r \in Requests :
       pc[r] \in Drawn => /\ number[r] <= counter
                          /\ \A o \in orders : o.number # number[r]
  /\ \A q, r \in Requests :
       q # r /\ pc[q] \in Drawn /\ pc[r] \in Drawn => number[q] # number[r]
  /\ UniqueOrderNumbers

KeysHeld ==
  /\ \A r \in Requests :
       pc[r] \in Inserted /\ KeyOf[r] # NoKey => KeyOf[r] \in dirty[r]
  /\ \A r \in Requests : \A k \in dirty[r] \cap Keys : k = KeyOf[r] /\ ~KeyTaken(k)
  /\ OneOrderPerKey

ProofsSpent ==
  /\ \A r \in Requests :
       pc[r] \in Spent /\ ProofOf[r] # NoProof => ProofOf[r] \in consumed
  /\ GuestProofSpent

\* The requests that have been counted for coupon c and may still, or did,
\* place their order.
Using(c) == {r \in Requests : CouponOf[r] = c /\ (r \in Placed \/ pc[r] \in Counted)}

CouponsCounted ==
  /\ \A c \in Coupons : IsFiniteSet(Using(c)) /\ Cardinality(Using(c)) <= used[c]
  /\ \A r \in Requests :
       CouponOf[r] # NoCoupon /\ (r \in Placed \/ pc[r] = "commit") => r \in usages

OrderInv == Numbers /\ KeysHeld /\ ProofsSpent /\ CouponsCounted /\ ProductStatusFresh

-----------------------------------------------------------------------------
(* What a step that writes none of a part's variables, or only releases    *)
(* what the request holds, leaves of the part.                             *)

LEMMA NumbersFrame ==
  ASSUME TypeOK, Numbers, NEW r \in Requests, NEW label,
         pc' = [pc EXCEPT ![r] = label],
         label \in Drawn => pc[r] \in Drawn /\ number' = number,
         number' = number \/ number' = [number EXCEPT ![r] = 0],
         UNCHANGED <<orders, counter>>
  PROVE  Numbers'
  <1>1. \A q \in Requests : pc'[q] \in Drawn => pc[q] \in Drawn /\ number'[q] = number[q]
    BY DEF TypeOK
  <1>2. QED
    BY <1>1 DEF Numbers, UniqueOrderNumbers

LEMMA KeysFrame ==
  ASSUME TypeOK, KeysHeld, NEW r \in Requests, NEW label,
         pc' = [pc EXCEPT ![r] = label],
         label \in Inserted => pc[r] \in Inserted /\ dirty' = dirty,
         \A q \in Requests : q # r => dirty'[q] = dirty[q],
         dirty'[r] \cap Keys \subseteq dirty[r],
         orders' = orders
  PROVE  KeysHeld'
  <1>1. \A q \in Requests : pc'[q] \in Inserted => pc[q] \in Inserted /\ dirty'[q] = dirty[q]
    BY DEF TypeOK
  <1>2. QED
    BY <1>1 DEF KeysHeld, KeyTaken, OneOrderPerKey

LEMMA ProofsFrame ==
  ASSUME TypeOK, ProofsSpent, NEW r \in Requests, NEW label,
         pc' = [pc EXCEPT ![r] = label],
         label \in Spent => pc[r] \in Spent \/ ProofOf[r] = NoProof,
         UNCHANGED <<orders, consumed>>
  PROVE  ProofsSpent'
  <1>1. \A q \in Requests : pc'[q] \in Spent => pc[q] \in Spent \/ ProofOf[q] = NoProof
    BY DEF TypeOK
  <1>2. QED
    BY <1>1 DEF ProofsSpent, GuestProofSpent, Placed

LEMMA CouponsFrame ==
  ASSUME TypeOK, CouponsCounted, NEW r \in Requests, NEW label,
         pc' = [pc EXCEPT ![r] = label],
         label \in Counted => pc[r] \in Counted \/ CouponOf[r] = NoCoupon,
         label = "commit" => pc[r] = "commit" \/ CouponOf[r] = NoCoupon,
         UNCHANGED <<orders, used, usages>>
  PROVE  CouponsCounted'
  <1>1. \A q \in Requests : pc'[q] \in Counted => pc[q] \in Counted \/ CouponOf[q] = NoCoupon
    BY DEF TypeOK
  <1>2. \A q \in Requests : pc'[q] = "commit" => pc[q] = "commit" \/ CouponOf[q] = NoCoupon
    BY DEF TypeOK
  <1>3. ASSUME NEW c \in Coupons
        PROVE  IsFiniteSet(Using(c)') /\ Cardinality(Using(c)') <= used[c]
    <2>1. Using(c)' \subseteq Using(c)
      BY <1>1, CheckoutAssumption DEF Using, Placed
    <2>2. IsFiniteSet(Using(c)) /\ Cardinality(Using(c)) <= used[c] /\ used[c] \in Nat
      BY DEF CouponsCounted, TypeOK
    <2>3. /\ IsFiniteSet(Using(c)')
          /\ Cardinality(Using(c)') <= Cardinality(Using(c))
          /\ Cardinality(Using(c)') \in Nat /\ Cardinality(Using(c)) \in Nat
      BY <2>1, <2>2, FS_Subset, FS_CardinalityType
    <2>4. QED
      BY <2>2, <2>3
  <1>4. QED
    BY <1>2, <1>3 DEF CouponsCounted, Placed

-----------------------------------------------------------------------------
(* The steps.                                                              *)

LEMMA InitOrderInv == Init => OrderInv
  <1> SUFFICES ASSUME Init PROVE OrderInv
    OBVIOUS
  <1>1. Numbers /\ KeysHeld /\ ProofsSpent
    BY DEF Init, Numbers, KeysHeld, ProofsSpent, UniqueOrderNumbers, OneOrderPerKey,
           GuestProofSpent, Placed, Drawn, Inserted, Spent
  <1>2. \A c \in Coupons : Using(c) = {}
    BY DEF Init, Using, Placed, Counted
  <1>3. CouponsCounted
    <2>1. IsFiniteSet({}) /\ Cardinality({}) = 0
      BY FS_EmptySet
    <2>2. \A c \in Coupons : used[c] = 0
      BY DEF Init
    <2>3. \A r \in Requests : r \notin Placed /\ pc[r] # "commit"
      BY DEF Init, Placed
    <2>4. QED
      BY <1>2, <2>1, <2>2, <2>3 DEF CouponsCounted
  <1>4. ProductStatusFresh
    BY DEF Init, ProductStatusFresh
  <1>5. QED
    BY <1>1, <1>3, <1>4 DEF OrderInv

\* A step towards the number, or out of the loop: what it does not write it
\* keeps, and what it drops it may drop.
LEMMA MoveKeepsOrders ==
  ASSUME TypeOK, OrderInv, NEW r \in Requests,
         NEW label \in Ended \cup {"consume", "lookup", "validate", "read", "write", "draw"},
         pc' = [pc EXCEPT ![r] = label],
         label \in Spent => pc[r] \in Spent \/ ProofOf[r] = NoProof,
         number' = number \/ number' = [number EXCEPT ![r] = 0],
         \A q \in Requests : q # r => dirty'[q] = dirty[q],
         dirty'[r] \cap Keys \subseteq dirty[r],
         UNCHANGED <<stock, status, orders, side>>
  PROVE  OrderInv'
  <1> USE DEF OrderInv, side
  <1>1. label \notin Drawn /\ label \notin Inserted /\ label \notin Counted /\ label # "commit"
    BY DEF Drawn, Inserted, Counted, Ended
  <1>2. Numbers'
    BY <1>1, NumbersFrame
  <1>3. KeysHeld'
    BY <1>1, KeysFrame
  <1>4. ProofsSpent'
    BY ProofsFrame
  <1>5. CouponsCounted'
    BY <1>1, CouponsFrame
  <1>6. ProductStatusFresh'
    BY DEF ProductStatusFresh
  <1>7. QED
    BY <1>2, <1>3, <1>4, <1>5, <1>6

LEMMA GiveUpKeepsOrders ==
  ASSUME TypeOK, OrderInv, NEW r \in Requests, NEW label \in Ended, GiveUp(r, label)
  PROVE  OrderInv'
  <1>1. label \notin Spent
    BY DEF Spent, Working, Ended
  <1>2. \A q \in Requests : q # r => dirty'[q] = dirty[q]
    BY DEF GiveUp, Discard, TypeOK
  <1>3. dirty'[r] = {}
    BY DEF GiveUp, Discard, TypeOK
  <1>4. QED
    BY <1>1, <1>2, <1>3, MoveKeepsOrders DEF GiveUp, Goto, docs

LEMMA RetryKeepsOrders ==
  ASSUME TypeOK, OrderInv, NEW r \in Requests, pc[r] \in Spent,
         NEW last \in Ended, RetryAfterConflict(r, last)
  PROVE  OrderInv'
  <1> DEFINE label == IF attempt[r] < MaxRetries THEN FirstOperation(r) ELSE last
  <1>1. label \in Ended \cup {"consume", "lookup", "validate", "read", "write", "draw"}
    BY FirstOperationType DEF Ended
  <1>2. \A q \in Requests : q # r => dirty'[q] = dirty[q]
    BY DEF RetryAfterConflict, Discard, TypeOK
  <1>3. dirty'[r] = {}
    BY DEF RetryAfterConflict, Discard, TypeOK
  <1>4. pc' = [pc EXCEPT ![r] = label] /\ UNCHANGED <<stock, status, orders, side>>
        /\ number' = [number EXCEPT ![r] = 0]
    BY DEF RetryAfterConflict, Goto, docs
  <1> HIDE DEF label
  <1>5. QED
    BY <1>1, <1>2, <1>3, <1>4, MoveKeepsOrders

LEMMA BeforeKeepsOrders ==
  ASSUME TypeInv, OrderInv, NEW r \in Requests,
         Identify(r) \/ Consume(r) \/ Lookup(r) \/ Validate(r) \/ Refuse(r)
  PROVE  OrderInv'
  <1> USE DEF Goto, txn, docs, TypeInv
  <1>1. CASE Identify(r)
    <2>1. PICK label \in {"lookup", "consume", "rejected"} :
            /\ pc' = [pc EXCEPT ![r] = label]
            /\ label = "lookup" => ProofOf[r] = NoProof
      BY <1>1 DEF Identify
    <2>2. label \in Spent => ProofOf[r] = NoProof
      BY <2>1 DEF Spent, Working
    <2>3. QED
      BY <1>1, <2>1, <2>2, MoveKeepsOrders DEF Identify, Ended
  <1>2. CASE Consume(r)
    <2> USE <1>2 DEF Consume
    <2>1. Numbers' /\ KeysHeld'
      BY NumbersFrame, KeysFrame DEF OrderInv, Drawn, Inserted
    <2>2. CouponsCounted' /\ ProductStatusFresh'
      BY CouponsFrame DEF OrderInv, Counted, ProductStatusFresh
    <2>3. ProofsSpent'
      BY DEF OrderInv, ProofsSpent, GuestProofSpent, Placed, Spent, TypeOK
    <2>4. QED
      BY <2>1, <2>2, <2>3 DEF OrderInv
  <1>3. CASE Lookup(r)
    <2>1. PICK label \in {"replayed", "validate"} : pc' = [pc EXCEPT ![r] = label]
      BY <1>3 DEF Lookup
    <2>2. pc[r] \in Spent
      BY <1>3 DEF Lookup, Spent, Working
    <2>3. QED
      BY <1>3, <2>1, <2>2, MoveKeepsOrders DEF Lookup, Ended
  <1>4. CASE Validate(r)
    <2>1. PICK label \in {"read", "draw", "rejected"} : pc' = [pc EXCEPT ![r] = label]
      BY <1>4, FirstOperationType DEF Validate
    <2>2. pc[r] \in Spent
      BY <1>4 DEF Validate, Spent, Working
    <2>3. QED
      BY <1>4, <2>1, <2>2, MoveKeepsOrders DEF Validate, Ended
  <1>5. CASE Refuse(r)
    <2>1. pc' = [pc EXCEPT ![r] = "rejected"] /\ "rejected" \notin Spent
      BY <1>5 DEF Refuse, Spent, Working
    <2>2. QED
      BY <1>5, <2>1, MoveKeepsOrders DEF Refuse, Ended
  <1>6. QED
    BY <1>1, <1>2, <1>3, <1>4, <1>5

LEMMA LinesKeepOrders ==
  ASSUME TypeInv, OrderInv, NEW r \in Requests, ReadStock(r) \/ WriteStock(r)
  PROVE  OrderInv'
  <1> USE DEF TypeInv
  <1>1. pc[r] \in Spent
    BY DEF ReadStock, WriteStock, Spent, Working
  <1>2. CASE GiveUp(r, "rejected") \/ RetryAfterConflict(r, "exhausted")
    BY <1>1, <1>2, GiveUpKeepsOrders, RetryKeepsOrders DEF Ended
  <1>3. CASE ReadStock(r) /\ ~GiveUp(r, "rejected")
    BY <1>1, <1>3, MoveKeepsOrders DEF ReadStock, Goto, docs
  <1>4. CASE WriteStock(r) /\ ~RetryAfterConflict(r, "exhausted")
    <2>1. /\ dirty' = [dirty EXCEPT ![r] = @ \cup {CurrentLine(r).item}]
          /\ pc' = [pc EXCEPT ![r] = IF line[r] = Len(Lines[r]) THEN "draw" ELSE "read"]
          /\ UNCHANGED <<number, stock, status, orders, side>>
      BY <1>4 DEF WriteStock, Goto
    <2>2. CurrentLine(r).item \in Items
      BY <1>4, CurrentLineType DEF WriteStock, LineInRange
    <2>3. dirty'[r] = dirty[r] \cup {CurrentLine(r).item} /\ CurrentLine(r).item \notin Keys
          /\ \A q \in Requests : q # r => dirty'[q] = dirty[q]
      BY <2>1, <2>2, CheckoutAssumption DEF TypeOK
    <2>4. PICK label \in {"draw", "read"} : pc' = [pc EXCEPT ![r] = label]
      BY <2>1
    <2>5. dirty'[r] \cap Keys \subseteq dirty[r] /\ \A q \in Requests : q # r => dirty'[q] = dirty[q]
      BY <2>3
    <2>6. TypeOK /\ number' = number /\ UNCHANGED <<stock, status, orders, side>>
      BY <2>1
    <2>7. label \in Ended \cup {"consume", "lookup", "validate", "read", "write", "draw"}
      BY <2>4
    <2>8. QED
      BY <1>1, <2>4, <2>5, <2>6, <2>7, MoveKeepsOrders
  <1>5. QED
    BY <1>2, <1>3, <1>4

\* The number just drawn is above every other.
LEMMA DrawKeepsOrders ==
  ASSUME TypeOK, OrderInv, NEW r \in Requests, DrawNumber(r)
  PROVE  OrderInv'
  <1> USE DEF DrawNumber, Goto, txn, docs
  <1>1. Numbers'
    <2>1. \A q \in Requests : q # r => pc'[q] = pc[q] /\ number'[q] = number[q]
      BY DEF TypeOK
    <2>2. number'[r] = counter + 1 /\ counter' = counter + 1 /\ counter \in Nat
      BY DEF TypeOK
    <2>3. \A q \in Requests : number[q] \in Nat
      BY DEF TypeOK
    <2>4. \A o \in orders : o.number \in Nat /\ o.number <= counter
      BY DEF TypeOK, Order, OrderInv, Numbers
    <2>5. QED
      BY <2>1, <2>2, <2>3, <2>4 DEF OrderInv, Numbers, UniqueOrderNumbers
  <1>2. KeysHeld' /\ ProofsSpent'
    BY KeysFrame, ProofsFrame DEF OrderInv, Inserted, Spent, Working
  <1>3. CouponsCounted' /\ ProductStatusFresh'
    BY CouponsFrame DEF OrderInv, Counted, ProductStatusFresh
  <1>4. QED
    BY <1>1, <1>2, <1>3 DEF OrderInv

\* The key is free, and locked by the insertion.
LEMMA InsertKeepsOrders ==
  ASSUME TypeOK, OrderInv, NEW r \in Requests, InsertOrder(r)
  PROVE  OrderInv'
  <1>1. pc[r] = "insert" /\ pc[r] \in Spent /\ pc[r] \in Drawn
    BY DEF InsertOrder, Spent, Working, Drawn
  <1>2. CASE GiveUp(r, "failed") \/ RetryAfterConflict(r, "exhausted")
    BY <1>1, <1>2, GiveUpKeepsOrders, RetryKeepsOrders DEF Ended
  <1>3. CASE ~(GiveUp(r, "failed") \/ RetryAfterConflict(r, "exhausted"))
    <2>1. /\ KeyOf[r] # NoKey => ~KeyTaken(KeyOf[r])
          /\ dirty' = [dirty EXCEPT ![r] = @ \cup ({KeyOf[r]} \ {NoKey})]
          /\ UNCHANGED <<number, stock, status, orders, side>>
          /\ pc' = [pc EXCEPT ![r] = IF CouponOf[r] = NoCoupon THEN "commit" ELSE "count"]
      BY <1>3 DEF InsertOrder, Goto, docs
    <2>2. PICK label \in {"commit", "count"} :
            /\ pc' = [pc EXCEPT ![r] = label]
            /\ label = "commit" => CouponOf[r] = NoCoupon
      BY <2>1
    <2>3. Numbers' /\ ProofsSpent'
      BY <1>1, <2>1, <2>2, NumbersFrame, ProofsFrame DEF OrderInv, side
    <2>4. label \in Counted => label = "commit"
      BY <2>2 DEF Counted
    <2>5. CouponsCounted' /\ ProductStatusFresh'
      BY <2>1, <2>2, <2>4, CouponsFrame DEF OrderInv, side, ProductStatusFresh
    <2>6. KeysHeld'
      <3>1. \A q \in Requests : q # r => pc'[q] = pc[q] /\ dirty'[q] = dirty[q]
        BY <2>1 DEF TypeOK
      <3>2. dirty'[r] = dirty[r] \cup ({KeyOf[r]} \ {NoKey})
        BY <2>1 DEF TypeOK
      <3>3. QED
        BY <2>1, <3>1, <3>2 DEF OrderInv, KeysHeld, KeyTaken, OneOrderPerKey
    <2>7. QED
      BY <2>3, <2>5, <2>6 DEF OrderInv
  <1>4. QED
    BY <1>2, <1>3

\* The counter rises before a request counts as a user of the coupon.
LEMMA CountKeepsOrders ==
  ASSUME TypeOK, OrderInv, NEW r \in Requests, CountUsage(r)
  PROVE  OrderInv'
  <1> USE DEF CountUsage, Goto, txn, docs
  <1>1. Numbers' /\ KeysHeld'
    BY NumbersFrame, KeysFrame DEF OrderInv, Drawn, Inserted
  <1>2. ProofsSpent' /\ ProductStatusFresh'
    BY ProofsFrame DEF OrderInv, Spent, Working, ProductStatusFresh
  <1>3. ASSUME NEW c \in Coupons
        PROVE  IsFiniteSet(Using(c)') /\ Cardinality(Using(c)') <= used'[c]
    <2>1. IsFiniteSet(Using(c)) /\ Cardinality(Using(c)) <= used[c] /\ used[c] \in Nat
      BY DEF OrderInv, CouponsCounted, TypeOK
    <2>2. CASE c = CouponOf[r]
      <3>1. Using(c)' \subseteq Using(c) \cup {r}
        BY DEF Using, Placed, TypeOK
      <3>2. /\ IsFiniteSet(Using(c) \cup {r})
            /\ Cardinality(Using(c) \cup {r}) <= Cardinality(Using(c)) + 1
        <4>1. Cardinality(Using(c)) \in Nat
          BY <2>1, FS_CardinalityType
        <4>2. /\ IsFiniteSet(Using(c) \cup {r})
              /\ \/ Cardinality(Using(c) \cup {r}) = Cardinality(Using(c))
                 \/ Cardinality(Using(c) \cup {r}) = Cardinality(Using(c)) + 1
          BY <2>1, FS_AddElement, Zenon
        <4>3. QED
          BY <4>1, <4>2
      <3>3. /\ IsFiniteSet(Using(c)')
            /\ Cardinality(Using(c)') <= Cardinality(Using(c) \cup {r})
        BY <3>1, <3>2, FS_Subset
      <3>4. /\ Cardinality(Using(c)') \in Nat /\ Cardinality(Using(c)) \in Nat
            /\ Cardinality(Using(c) \cup {r}) \in Nat
        BY <2>1, <3>2, <3>3, FS_CardinalityType
      <3>5. used'[c] = used[c] + 1
        BY <2>2 DEF TypeOK
      <3>6. QED
        BY <2>1, <3>2, <3>3, <3>4, <3>5
    <2>3. CASE c # CouponOf[r]
      <3>1. Using(c)' = Using(c) /\ used'[c] = used[c]
        BY <2>3 DEF Using, Placed, TypeOK
      <3>2. QED
        BY <2>1, <3>1
    <2>4. QED
      BY <2>2, <2>3
  <1>4. CouponsCounted'
    BY <1>3 DEF OrderInv, CouponsCounted, Placed, TypeOK
  <1>5. QED
    BY <1>1, <1>2, <1>4 DEF OrderInv

LEMMA RecordKeepsOrders ==
  ASSUME TypeOK, OrderInv, NEW r \in Requests, RecordUsage(r)
  PROVE  OrderInv'
  <1> USE DEF RecordUsage, Goto, txn, docs
  <1>1. Numbers' /\ KeysHeld'
    BY NumbersFrame, KeysFrame DEF OrderInv, Drawn, Inserted
  <1>2. ProofsSpent' /\ ProductStatusFresh'
    BY ProofsFrame DEF OrderInv, Spent, Working, ProductStatusFresh
  <1>3. \A c \in Coupons : Using(c)' = Using(c)
    BY DEF Using, Placed, Counted, TypeOK
  <1>4. CouponsCounted'
    BY <1>3 DEF OrderInv, CouponsCounted, Placed, TypeOK
  <1>5. QED
    BY <1>1, <1>2, <1>4 DEF OrderInv

\* The order takes its number, its key, its proof and its use of the coupon
\* from what the request held.
LEMMA CommitKeepsOrders ==
  ASSUME StockInv, OrderInv, NEW r \in Requests, Commit(r)
  PROVE  OrderInv'
  <1> DEFINE order == [req |-> r, number |-> number[r]]
  <1>1. TypeOK /\ order.req = r /\ order.number = number[r]
    BY DEF StockInv, TypeInv
  <1>2. PICK label \in {"placed", "failed"} : pc' = [pc EXCEPT ![r] = label]
    BY DEF Commit, Goto
  <1>3. pc[r] = "commit" /\ orders' = orders \cup {order} /\ UNCHANGED <<number, side>>
        /\ dirty' = [dirty EXCEPT ![r] = {}]
    BY DEF Commit, Apply
  <1>4. pc'[r] = label /\ dirty'[r] = {}
        /\ \A q \in Requests : q # r => pc'[q] = pc[q] /\ dirty'[q] = dirty[q]
    BY <1>1, <1>2, <1>3 DEF TypeOK
  <1>5. Placed' = Placed \cup {r}
    BY <1>1, <1>3 DEF Placed
  <1> HIDE DEF order
  <1>6. Numbers'
    BY <1>1, <1>2, <1>3, <1>4 DEF OrderInv, Numbers, UniqueOrderNumbers, Drawn, side
  <1>7. KeysHeld'
    <2>1. KeyOf[r] # NoKey => KeyOf[r] \in dirty[r] /\ KeyOf[r] \in Keys
      BY <1>3, CheckoutAssumption DEF OrderInv, KeysHeld, Inserted
    <2>2. KeyOf[r] # NoKey => ~KeyTaken(KeyOf[r])
      BY <2>1 DEF OrderInv, KeysHeld
    <2>3. OneOrderPerKey'
      BY <1>1, <1>3, <2>2 DEF OrderInv, KeysHeld, OneOrderPerKey, KeyTaken
    <2>4. ASSUME NEW q \in Requests, NEW k \in dirty'[q] \cap Keys
          PROVE  k = KeyOf[q] /\ ~KeyTaken(k)'
      <3>1. q # r /\ k \in dirty[q] \cap Keys
        BY <1>4, <2>4
      <3>2. k = KeyOf[q] /\ ~KeyTaken(k) /\ k # NoKey
        BY <3>1, CheckoutAssumption DEF OrderInv, KeysHeld
      <3>3. k # KeyOf[r]
        BY <2>1, <3>1, <3>2 DEF StockInv, Locks
      <3>4. QED
        BY <1>1, <1>3, <3>2, <3>3 DEF KeyTaken
    <2>5. \A q \in Requests :
            pc'[q] \in Inserted /\ KeyOf[q] # NoKey => KeyOf[q] \in dirty'[q]
      BY <1>2, <1>4 DEF OrderInv, KeysHeld, Inserted
    <2>6. QED
      BY <2>3, <2>4, <2>5 DEF KeysHeld
  <1>8. ProofsSpent'
    BY <1>2, <1>3, <1>4, <1>5
    DEF OrderInv, ProofsSpent, GuestProofSpent, Spent, Working, side
  <1>9. CouponsCounted'
    <2>1. \A c \in Coupons : Using(c)' = Using(c)
      BY <1>2, <1>3, <1>4, <1>5 DEF Using, Counted
    <2>2. QED
      BY <1>2, <1>3, <1>4, <1>5, <2>1 DEF OrderInv, CouponsCounted, side
  <1>10. ProductStatusFresh'
    BY <1>1 DEF OrderInv, ProductStatusFresh, Commit, Apply, StatusAfter, TypeOK
  <1>11. QED
    BY <1>6, <1>7, <1>8, <1>9, <1>10 DEF OrderInv

LEMMA OrderInvStep == StockInv /\ OrderInv /\ [Next]_vars => OrderInv'
  <1> SUFFICES ASSUME StockInv, OrderInv, [Next]_vars PROVE OrderInv'
    OBVIOUS
  <1>1. TypeInv /\ TypeOK
    BY DEF StockInv, TypeInv
  <1>2. ASSUME NEW r \in Requests, Step(r) PROVE OrderInv'
    <2>1. CASE Identify(r) \/ Consume(r) \/ Lookup(r) \/ Validate(r) \/ Refuse(r)
      BY <1>1, <2>1, BeforeKeepsOrders
    <2>2. CASE ReadStock(r) \/ WriteStock(r)
      BY <1>1, <2>2, LinesKeepOrders
    <2>3. CASE DrawNumber(r)
      BY <1>1, <2>3, DrawKeepsOrders
    <2>4. CASE InsertOrder(r)
      BY <1>1, <2>4, InsertKeepsOrders
    <2>5. CASE CountUsage(r)
      BY <1>1, <2>5, CountKeepsOrders
    <2>6. CASE RecordUsage(r)
      BY <1>1, <2>6, RecordKeepsOrders
    <2>7. CASE Commit(r)
      BY <2>7, CommitKeepsOrders
    <2>8. CASE Fail(r)
      BY <1>1, <2>8, GiveUpKeepsOrders DEF Fail, Ended
    <2>9. CASE Interrupted(r)
      <3>1. pc[r] \in Spent /\ \E last \in Ended : RetryAfterConflict(r, last)
        BY <2>9 DEF Interrupted, Spent, Working, Ended
      <3>2. QED
        BY <1>1, <3>1, RetryKeepsOrders
    <2>10. QED
      BY <1>2, <2>1, <2>2, <2>3, <2>4, <2>5, <2>6, <2>7, <2>8, <2>9 DEF Step
  <1>3. CASE UNCHANGED vars
    BY <1>3 DEF vars, local, txn, docs, side, OrderInv, Numbers, KeysHeld, ProofsSpent,
                CouponsCounted, ProductStatusFresh, UniqueOrderNumbers, KeyTaken,
                OneOrderPerKey, GuestProofSpent, Using, Placed
  <1>4. QED
    BY <1>2, <1>3 DEF Next, AllEnded

LEMMA OrderInvariant == Spec => []OrderInv
  <1>1. Spec => []StockInv
    BY StockInvariant
  <1>2. QED
    BY <1>1, InitOrderInv, OrderInvStep, PTL DEF Spec

\* Order numbers are unique although the counter lives outside the transaction.
THEOREM NumbersUnique == Spec => []UniqueOrderNumbers
  <1>1. OrderInv => UniqueOrderNumbers
    BY DEF OrderInv, Numbers
  <1>2. QED
    BY <1>1, OrderInvariant, PTL

\* An idempotency key buys once, however many requests carry it.
THEOREM KeysBuyOnce == Spec => []OneOrderPerKey
  <1>1. OrderInv => OneOrderPerKey
    BY DEF OrderInv, KeysHeld
  <1>2. QED
    BY <1>1, OrderInvariant, PTL

\* A guest's order rests on a proof that is spent.
THEOREM ProofsAreSpent == Spec => []GuestProofSpent
  <1>1. OrderInv => GuestProofSpent
    BY DEF OrderInv, ProofsSpent
  <1>2. QED
    BY <1>1, OrderInvariant, PTL

\* The status of a product is never that of an earlier stock.
THEOREM StatusFresh == Spec => []ProductStatusFresh
  <1>1. OrderInv => ProductStatusFresh
    BY DEF OrderInv
  <1>2. QED
    BY <1>1, OrderInvariant, PTL

\* Every committed order with a coupon is in the coupon's counter and usages.
THEOREM CouponsAreCounted == Spec => []CouponUsesCounted
  <1>1. StockInv /\ OrderInv => CouponUsesCounted
    <2> SUFFICES ASSUME StockInv, OrderInv, NEW c \in Coupons
                 PROVE  LET with == {r \in Placed : CouponOf[r] = c}
                        IN  with \subseteq usages /\ Cardinality(with) <= used[c]
      BY DEF CouponUsesCounted
    <2> DEFINE with == {r \in Placed : CouponOf[r] = c}
    <2>1. Placed \subseteq Requests
      BY DEF Placed, StockInv, TypeInv, TypeOK, Order
    <2>2. with \subseteq usages
      BY <2>1, CheckoutAssumption DEF OrderInv, CouponsCounted
    <2>3. with \subseteq Using(c)
      BY <2>1 DEF Using
    <2>4. IsFiniteSet(Using(c)) /\ Cardinality(Using(c)) <= used[c] /\ used[c] \in Nat
      BY DEF OrderInv, CouponsCounted, StockInv, TypeInv, TypeOK
    <2>5. /\ IsFiniteSet(with) /\ Cardinality(with) <= Cardinality(Using(c))
          /\ Cardinality(with) \in Nat /\ Cardinality(Using(c)) \in Nat
      BY <2>3, <2>4, FS_Subset, FS_CardinalityType
    <2>6. QED
      BY <2>2, <2>4, <2>5
  <1>2. QED
    BY <1>1, StockInvariant, OrderInvariant, PTL

(***************************************************************************)
(* Atomic.  What a request has written and what it has taken make up the   *)
(* committed stock, line by line (Progress): so the commit takes the whole *)
(* order, and every other step is a stutter of AtomicOrders.  The same     *)
(* invariant knows that whoever causes a conflict is on its way, or has    *)
(* placed an order, and so is not exhausted.                               *)
(***************************************************************************)

Attempting == {"read", "write", "draw"} \cup Drawn

\* The units of item i in each line of r, and in the first n lines.
Units(r, i) ==
  [k \in DOMAIN Lines[r] |-> IF Lines[r][k].item = i THEN Lines[r][k].quantity ELSE 0]

Taken(r, i, n) == SumFunctionOnSet(Units(r, i), 1 .. n)

Progress(r) ==
  /\ r \in Placed => pc[r] \in {"placed", "failed"}
  /\ r \in open => pc[r] \in Attempting
  /\ stale[r] # {} => Placed # {}
  /\ pc[r] \in Working =>
       \A i \in Items : Left(r, i) + Taken(r, i, line[r] - 1) = stock[i]
  /\ pc[r] \in {"draw"} \cup Drawn => line[r] = Len(Lines[r]) + 1

AtomicInv == \A r \in Requests : Progress(r)

LEMMA UnitsType ==
  ASSUME NEW r \in Requests, NEW i \in Items
  PROVE  /\ DOMAIN Units(r, i) = 1 .. Len(Lines[r]) /\ Len(Lines[r]) \in Nat
         /\ \A k \in 1 .. Len(Lines[r]) : Units(r, i)[k] \in Nat
  <1>1. Lines[r] \in Seq(Line)
    BY CheckoutAssumption
  <1>2. DOMAIN Lines[r] = 1 .. Len(Lines[r]) /\ Len(Lines[r]) \in Nat
    BY <1>1
  <1>3. \A k \in 1 .. Len(Lines[r]) : Lines[r][k] \in Line
    BY <1>1
  <1>4. QED
    BY <1>2, <1>3 DEF Units, Line

LEMMA TakenNone == \A r \in Requests, i \in Items : Taken(r, i, 0) = 0
  <1>1. 1 .. 0 = {}
    OBVIOUS
  <1>2. QED
    BY <1>1, SumEmpty DEF Taken

LEMMA TakenType ==
  ASSUME NEW r \in Requests, NEW i \in Items, NEW n \in 0 .. Len(Lines[r])
  PROVE  Taken(r, i, n) \in Nat
  <1>1. IsFiniteSet(1 .. n) /\ \A k \in 1 .. n : Units(r, i)[k] \in Nat
    BY UnitsType, FS_Interval
  <1>2. QED
    BY <1>1, SumNat DEF Taken

\* One more line.
LEMMA TakenNext ==
  ASSUME NEW r \in Requests, NEW i \in Items, NEW n \in 1 .. Len(Lines[r])
  PROVE  Taken(r, i, n) = Taken(r, i, n - 1)
                          + (IF Lines[r][n].item = i THEN Lines[r][n].quantity ELSE 0)
  <1>1. Len(Lines[r]) \in Nat /\ n \in DOMAIN Lines[r]
    BY UnitsType DEF Units
  <1>2. /\ 1 .. n = (1 .. (n - 1)) \cup {n} /\ n \notin 1 .. (n - 1)
        /\ IsFiniteSet(1 .. (n - 1))
    <2>1. n \in Nat /\ n - 1 \in Int
      BY <1>1
    <2>2. IsFiniteSet(1 .. (n - 1))
      BY <2>1, FS_Interval
    <2>3. QED
      BY <2>1, <2>2
  <1>3. \A k \in (1 .. (n - 1)) \cup {n} : Units(r, i)[k] \in Int
    BY <1>1, UnitsType
  <1>4. SumFunctionOnSet(Units(r, i), (1 .. (n - 1)) \cup {n})
          = SumFunctionOnSet(Units(r, i), 1 .. (n - 1)) + Units(r, i)[n]
    <2> DEFINE S == 1 .. (n - 1)  f == Units(r, i)
    <2>1. IsFiniteSet(S) /\ n \notin S /\ \A k \in S \cup {n} : f[k] \in Int
      BY <1>2, <1>3
    <2> HIDE DEF S, f
    <2>2. SumFunctionOnSet(f, S \cup {n}) = SumFunctionOnSet(f, S) + f[n]
      BY <2>1, SumAdd
    <2>3. QED
      BY <2>2 DEF S, f
  <1>5. Units(r, i)[n] = IF Lines[r][n].item = i THEN Lines[r][n].quantity ELSE 0
    BY <1>1 DEF Units
  <1>6. QED
    BY <1>2, <1>4, <1>5 DEF Taken

\* The order of AtomicOrders is what all lines take.
LEMMA QuantityIsTaken ==
  ASSUME NEW r \in Requests, NEW i \in Items
  PROVE  Atomic!Quantity(r, i) = Taken(r, i, Len(Lines[r]))
  <1>1. Atomic!Quantity(r, i) = SumFunctionOnSet(Units(r, i), DOMAIN Units(r, i))
    BY DEF Atomic!Quantity, Atomic!SumFunction, Atomic!SumFunctionOnSet,
           Atomic!FoldFunctionOnSet, Atomic!MapThenFoldSet, Units,
           SumFunctionOnSet, FoldFunctionOnSet, MapThenFoldSet
  <1>2. QED
    BY <1>1, UnitsType DEF Taken

LEMMA InitAtomicInv == Init => AtomicInv
  <1> SUFFICES ASSUME Init, NEW r \in Requests PROVE Progress(r)
    BY DEF AtomicInv
  <1>1. \A i \in Items : Left(r, i) + Taken(r, i, line[r] - 1) = stock[i]
    BY TakenNone, CheckoutAssumption DEF Init, Left
  <1>2. QED
    BY <1>1 DEF Init, Progress, Placed, Drawn

\* A request that a step leaves alone.
LEMMA AsideKeepsProgress ==
  ASSUME AtomicInv, NEW q \in Requests, UNCHANGED <<stock, orders>>,
         UNCHANGED <<pc[q], line[q], view[q], dirty[q], stale[q]>>, q \in open' => q \in open
  PROVE  Progress(q)'
  <1>1. Placed' = Placed /\ Progress(q)
    BY DEF Placed, AtomicInv
  <1>2. \A i \in Items : Left(q, i)' = Left(q, i)
    BY DEF Left
  <1>3. QED
    BY <1>1, <1>2 DEF Progress

\* A request that goes on where it is in its lines.
LEMMA MoveKeepsAtomic ==
  ASSUME TypeOK, AtomicInv, NEW r \in Requests, NEW label, pc' = [pc EXCEPT ![r] = label],
         pc[r] \in Working, label \in Working \cup {"rejected", "replayed"},
         label \in {"draw"} \cup Drawn => line[r] = Len(Lines[r]) + 1,
         pc[r] \in Attempting => label \in Attempting,
         UNCHANGED <<line, txn, docs>>
  PROVE  AtomicInv'
  <1>1. \A q \in Requests \ {r} : Progress(q)'
    BY AsideKeepsProgress DEF txn, docs, TypeOK
  <1>2. pc'[r] = label /\ Placed' = Placed /\ Progress(r)
    BY DEF TypeOK, Placed, docs, AtomicInv
  <1>3. \A i \in Items : Left(r, i)' = Left(r, i)
    BY DEF Left, txn, docs
  <1>4. "placed" \notin Working /\ "failed" \notin Working
    BY DEF Working
  <1>5. r \notin Placed
    BY <1>2, <1>4 DEF Progress
  <1>6. Progress(r)'
    BY <1>2, <1>3, <1>5 DEF Progress, txn, docs
  <1>7. QED
    BY <1>1, <1>6 DEF AtomicInv

\* A transaction that is given up or tried again has taken nothing.
LEMMA DiscardKeepsAtomic ==
  ASSUME TypeOK, AtomicInv, NEW r \in Requests, pc[r] \in Working,
         NEW label \in Ended \cup {FirstOperation(r)}, pc' = [pc EXCEPT ![r] = label],
         Discard(r), line' = [line EXCEPT ![r] = 1], UNCHANGED docs
  PROVE  AtomicInv'
  <1>1. \A q \in Requests \ {r} : Progress(q)'
    BY AsideKeepsProgress DEF Discard, docs, TypeOK
  <1>2. /\ pc'[r] = label /\ line'[r] = 1 /\ dirty'[r] = {} /\ stale'[r] = {} /\ r \notin open'
        /\ Placed' = Placed /\ stock' = stock /\ Progress(r)
    BY DEF Discard, docs, TypeOK, Placed, AtomicInv
  <1>3. r \notin Placed
    BY <1>2 DEF Progress, Working
  <1>4. \A i \in Items : Left(r, i)' + Taken(r, i, line'[r] - 1) = stock'[i]
    BY <1>2, TakenNone DEF Left, TypeOK
  <1>5. label \in {"draw"} \cup Drawn => Len(Lines[r]) = 0
    BY DEF FirstOperation, Ended, Drawn
  <1>6. Progress(r)'
    BY <1>2, <1>3, <1>4, <1>5 DEF Progress
  <1>7. QED
    BY <1>1, <1>6 DEF AtomicInv

LEMMA GiveUpKeepsAtomic ==
  ASSUME TypeOK, AtomicInv, NEW r \in Requests, pc[r] \in Working,
         NEW label \in Ended, GiveUp(r, label)
  PROVE  AtomicInv'
  BY DiscardKeepsAtomic DEF GiveUp, Goto

LEMMA RetryKeepsAtomic ==
  ASSUME TypeOK, AtomicInv, NEW r \in Requests, pc[r] \in Working,
         NEW label \in Ended, RetryAfterConflict(r, label)
  PROVE  AtomicInv'
  BY DiscardKeepsAtomic DEF RetryAfterConflict, Goto, Ended

LEMMA OpenKeepsAtomic ==
  ASSUME StockInv, AtomicInv, NEW r \in Requests, NEW K \in SUBSET Keys,
         NEW label, pc' = [pc EXCEPT ![r] = label],
         \/ pc[r] = "read" /\ label = "write"
         \/ pc[r] = "insert" /\ label \in {"count", "commit"},
         open' = open \cup {r},
         view' = [view EXCEPT ![r] = ViewOf(r)],
         dirty' = [dirty EXCEPT ![r] = @ \cup K],
         UNCHANGED <<line, stale, docs>>
  PROVE  AtomicInv'
  <1>1. TypeOK /\ Locks
    BY DEF StockInv, TypeInv
  <1>2. \A q \in Requests \ {r} : Progress(q)'
    BY <1>1, AsideKeepsProgress DEF docs, TypeOK
  <1>3. /\ pc'[r] = label /\ pc[r] \in Working /\ Placed' = Placed /\ Progress(r)
        /\ label \in Attempting /\ (label \in {"draw"} \cup Drawn => pc[r] \in Drawn)
    BY <1>1 DEF TypeOK, Placed, docs, AtomicInv, Working, Attempting, Drawn
  <1>4. Keys \cap Items = {} /\ view'[r] = ViewOf(r) /\ dirty'[r] = dirty[r] \cup K
    BY <1>1, CheckoutAssumption DEF TypeOK
  <1>5. \A i \in Items : Left(r, i)' = Left(r, i)
    BY <1>1, <1>4 DEF Left, Locks, ViewOf, docs
  <1>6. r \notin Placed
    BY <1>3 DEF Progress, Working
  <1>7. Progress(r)'
    BY <1>3, <1>5, <1>6 DEF Progress, docs
  <1>8. QED
    BY <1>2, <1>7 DEF AtomicInv

\* A line is taken from what the transaction sees.
LEMMA SaleKeepsAtomic ==
  ASSUME StockInv, AtomicInv, NEW r \in Requests, WriteStock(r),
         ~Conflict(r, CurrentLine(r).item), ~RetryAfterConflict(r, "exhausted")
  PROVE  AtomicInv'
  <1> DEFINE i == CurrentLine(r).item
             n == CurrentLine(r).quantity
             next == IF line[r] = Len(Lines[r]) THEN "draw" ELSE "read"
  <1>1. /\ TypeOK /\ Views /\ r \in open /\ line[r] \in 1 .. Len(Lines[r]) /\ n <= view[r][i]
        /\ pc[r] = "write"
    BY DEF WriteStock, StockInv, TypeInv, LineInRange, StockChecked
  <1>2. i \in Items /\ n \in Nat \ {0} /\ Len(Lines[r]) \in Nat
    BY <1>1, CurrentLineType, UnitsType
  <1>3. /\ view' = [view EXCEPT ![r][i] = view[r][i] - n]
        /\ dirty' = [dirty EXCEPT ![r] = @ \cup {i}]
        /\ line' = [line EXCEPT ![r] = @ + 1]
        /\ pc' = [pc EXCEPT ![r] = next]
        /\ UNCHANGED <<open, stale, stock, orders>>
    BY DEF WriteStock, Goto
  <1>4. Left(r, i) = view[r][i]
    BY <1>1, <1>2 DEF Conflict, Views, Left
  <1>5. \A j \in Items :
          Taken(r, j, line[r]) = Taken(r, j, line[r] - 1) + (IF j = i THEN n ELSE 0)
    BY <1>1, TakenNext DEF CurrentLine
  <1> HIDE DEF i, n
  <1>6. \A q \in Requests \ {r} : Progress(q)'
    BY <1>1, <1>3, AsideKeepsProgress DEF TypeOK
  <1>7. /\ pc'[r] = next /\ line'[r] = line[r] + 1 /\ dirty'[r] = dirty[r] \cup {i}
        /\ view'[r] = [view[r] EXCEPT ![i] = view[r][i] - n]
        /\ stale'[r] = stale[r] /\ Placed' = Placed /\ Progress(r)
    BY <1>1, <1>3 DEF TypeOK, Placed, AtomicInv
  <1>8. r \notin Placed
    BY <1>1, <1>7 DEF Progress
  <1>9. ASSUME NEW j \in Items
        PROVE  Left(r, j)' + Taken(r, j, line'[r] - 1) = stock'[j]
    <2>1. Left(r, j) + Taken(r, j, line[r] - 1) = stock[j]
      BY <1>1, <1>7 DEF Progress, Working
    <2>2. Left(r, j) \in Nat /\ view[r][i] \in Nat /\ Taken(r, j, line[r] - 1) \in Nat
      <3>1. line[r] - 1 \in 0 .. Len(Lines[r])
        BY <1>1, <1>2
      <3>2. Taken(r, j, line[r] - 1) \in Nat
        BY <3>1, TakenType
      <3>3. QED
        BY <1>1, <1>2, <3>2 DEF Left, TypeOK
    <2>3. Left(r, j)' = Left(r, j) - (IF j = i THEN n ELSE 0)
      BY <1>1, <1>2, <1>3, <1>4, <1>7 DEF Left, TypeOK
    <2>4. line'[r] - 1 = line[r]
      BY <1>1, <1>2, <1>7
    <2>5. QED
      BY <1>2, <1>3, <1>5, <2>1, <2>2, <2>3, <2>4
  <1>10. next \in Attempting /\ (next \in {"draw"} \cup Drawn => line'[r] = Len(Lines[r]) + 1)
    BY <1>7 DEF Attempting, Drawn
  <1> HIDE DEF next
  <1>11. Progress(r)'
    BY <1>3, <1>7, <1>8, <1>9, <1>10 DEF Progress
  <1>12. QED
    BY <1>6, <1>11 DEF AtomicInv

LEMMA CommitKeepsAtomic ==
  ASSUME StockInv, AtomicInv, NEW r \in Requests, Commit(r)
  PROVE  AtomicInv'
  <1>1. TypeOK /\ Locks
    BY DEF StockInv, TypeInv
  <1>2. PICK label \in {"placed", "failed"} : pc' = [pc EXCEPT ![r] = label]
    BY DEF Commit, Goto
  <1>3. Apply(r) /\ UNCHANGED line
    BY DEF Commit
  <1>4. Placed' = Placed \cup {r} /\ \A i \in Items : stock'[i] = Left(r, i)
    <2>1. [req |-> r, number |-> number[r]].req = r
      OBVIOUS
    <2>2. QED
      BY <1>3, <2>1 DEF Apply, Placed, Left
  <1>5. ASSUME NEW q \in Requests \ {r} PROVE Progress(q)'
    <2>1. /\ pc'[q] = pc[q] /\ line'[q] = line[q] /\ view'[q] = view[q] /\ dirty'[q] = dirty[q]
          /\ (q \in open' <=> q \in open)
      BY <1>1, <1>2, <1>3 DEF Apply, TypeOK
    <2>2. ASSUME NEW i \in Items, pc[q] \in Working
          PROVE  Left(q, i)' + Taken(q, i, line'[q] - 1) = stock'[i]
      <3>1. Left(q, i) + Taken(q, i, line[q] - 1) = stock[i]
        BY <2>2 DEF AtomicInv, Progress
      <3>2. CASE i \in dirty[q]
        <4>1. stock'[i] = stock[i]
          BY <1>1, <1>4, <3>2 DEF Left, Locks
        <4>2. QED
          BY <2>1, <3>1, <3>2, <4>1 DEF Left
      <3>3. CASE i \notin dirty[q]
        <4>1. Left(q, i) = stock[i] /\ Left(q, i)' = stock'[i]
          BY <2>1, <3>3 DEF Left
        <4>2. stock[i] \in Nat /\ stock'[i] \in Nat /\ Taken(q, i, line[q] - 1) = 0
          <5>1. line[q] - 1 \in 0 .. Len(Lines[q])
            <6>1. Len(Lines[q]) \in Nat /\ Progress(q)
              BY UnitsType DEF AtomicInv
            <6>2. line[q] = 1 \/ line[q] \in 1 .. Len(Lines[q]) \/ line[q] = Len(Lines[q]) + 1
              BY <2>2, <6>1 DEF StockInv, TypeInv, LineInRange, LineReset, Progress, Working, Drawn
            <6>3. QED
              BY <6>1, <6>2
          <5>2. Taken(q, i, line[q] - 1) \in Nat
            BY <5>1, TakenType
          <5>3. stock[i] \in Nat /\ stock'[i] \in Nat
            BY <1>1, <1>4 DEF TypeOK, Left
          <5>4. QED
            BY <3>1, <4>1, <5>2, <5>3
        <4>3. QED
          BY <2>1, <4>1, <4>2
      <3>4. QED
        BY <3>2, <3>3
    <2>3. QED
      BY <1>4, <2>1, <2>2 DEF AtomicInv, Progress
  <1>6. Progress(r)'
    <2>1. pc'[r] = label /\ r \notin open' /\ label \notin Working /\ label \notin {"draw"} \cup Drawn
      BY <1>1, <1>2, <1>3 DEF TypeOK, Apply, Working, Drawn
    <2>2. QED
      BY <1>2, <1>4, <2>1 DEF Progress
  <1>7. QED
    BY <1>5, <1>6 DEF AtomicInv

LEMMA StepWorks == \A r \in Requests : Step(r) => pc[r] \in Working
  BY DEF Step, Identify, Consume, Lookup, Validate, Refuse, ReadStock, WriteStock, DrawNumber,
         InsertOrder, CountUsage, RecordUsage, Commit, Interrupted, Fail, Working

LEMMA AtomicInvStep == StockInv /\ AtomicInv /\ [Next]_vars => AtomicInv'
  <1> SUFFICES ASSUME StockInv, AtomicInv, [Next]_vars PROVE AtomicInv'
    OBVIOUS
  <1>1. TypeOK /\ TypeInv
    BY DEF StockInv, TypeInv
  <1>2. ASSUME NEW r \in Requests, Step(r) PROVE AtomicInv'
    <2>1. pc[r] \in Working
      BY <1>2, StepWorks
    <2>2. CASE \/ Identify(r) \/ Consume(r) \/ Lookup(r) \/ Validate(r) \/ Refuse(r)
               \/ DrawNumber(r) \/ CountUsage(r) \/ RecordUsage(r)
      <3>1. UNCHANGED <<line, txn, docs>>
        BY <2>2 DEF Identify, Consume, Lookup, Validate, Refuse, DrawNumber, CountUsage, RecordUsage
      <3>2. PICK label \in {"lookup", "consume", "rejected", "replayed", "validate", "read", "draw",
                            "insert", "usage", "commit"} :
              /\ pc' = [pc EXCEPT ![r] = label]
              /\ label \in Drawn => pc[r] \in {"draw"} \cup Drawn
              /\ label = "draw" => pc[r] = "validate" /\ FirstOperation(r) = "draw"
              /\ pc[r] \in Attempting => label \in Attempting
        BY <2>2, FirstOperationType
        DEF Identify, Consume, Lookup, Validate, Refuse, DrawNumber, CountUsage, RecordUsage,
            Goto, Drawn, Attempting
      <3>3. label = "draw" => line[r] = Len(Lines[r]) + 1
        <4>1. label = "draw" => line[r] = 1 /\ Lines[r] = <<>>
          BY <1>1, <3>2 DEF TypeInv, LineReset, FirstOperation
        <4>2. QED
          BY <4>1
      <3>4. label \in Drawn => line[r] = Len(Lines[r]) + 1
        BY <3>2 DEF AtomicInv, Progress
      <3>5. QED
        BY <1>1, <2>1, <3>1, <3>2, <3>3, <3>4, MoveKeepsAtomic DEF Working
    <2>3. CASE ReadStock(r)
      <3>1. CASE ViewOf(r)[CurrentLine(r).item] < CurrentLine(r).quantity
        BY <1>1, <2>1, <2>3, <3>1, GiveUpKeepsAtomic DEF ReadStock, Ended
      <3>2. CASE ~(ViewOf(r)[CurrentLine(r).item] < CurrentLine(r).quantity)
        <4>1. /\ pc[r] = "read" /\ pc' = [pc EXCEPT ![r] = "write"]
              /\ open' = open \cup {r}
              /\ view' = [view EXCEPT ![r] = ViewOf(r)]
              /\ UNCHANGED <<line, dirty, stale, docs>>
          BY <2>3, <3>2 DEF ReadStock, Goto
        <4>2. dirty' = [dirty EXCEPT ![r] = @ \cup {}] /\ {} \in SUBSET Keys
          BY <1>1, <4>1 DEF TypeOK
        <4>3. QED
          BY <4>1, <4>2, OpenKeepsAtomic
      <3>3. QED
        BY <3>1, <3>2
    <2>4. CASE WriteStock(r)
      BY <1>1, <2>1, <2>4, RetryKeepsAtomic, SaleKeepsAtomic DEF WriteStock, Ended
    <2>5. CASE InsertOrder(r)
      <3>1. CASE GiveUp(r, "failed") \/ RetryAfterConflict(r, "exhausted")
        BY <1>1, <2>1, <3>1, GiveUpKeepsAtomic, RetryKeepsAtomic DEF Ended
      <3>2. CASE ~(GiveUp(r, "failed") \/ RetryAfterConflict(r, "exhausted"))
        <4>1. /\ pc[r] = "insert"
              /\ open' = open \cup {r}
              /\ view' = [view EXCEPT ![r] = ViewOf(r)]
              /\ dirty' = [dirty EXCEPT ![r] = @ \cup ({KeyOf[r]} \ {NoKey})]
              /\ UNCHANGED <<line, stale, docs>>
              /\ \E label \in {"count", "commit"} : pc' = [pc EXCEPT ![r] = label]
          BY <2>5, <3>2 DEF InsertOrder, Goto
        <4>2. {KeyOf[r]} \ {NoKey} \in SUBSET Keys
          BY CheckoutAssumption
        <4>3. QED
          BY <4>1, <4>2, OpenKeepsAtomic
      <3>3. QED
        BY <3>1, <3>2
    <2>6. CASE Commit(r)
      BY <2>6, CommitKeepsAtomic
    <2>7. CASE Fail(r)
      BY <1>1, <2>1, <2>7, GiveUpKeepsAtomic DEF Fail, Ended
    <2>8. CASE Interrupted(r)
      BY <1>1, <2>1, <2>8, RetryKeepsAtomic DEF Interrupted, Ended
    <2>9. QED
      BY <1>2, <2>2, <2>3, <2>4, <2>5, <2>6, <2>7, <2>8 DEF Step
  <1>3. CASE UNCHANGED vars
    <2>1. UNCHANGED <<stock, orders, pc, line, view, dirty, stale, open>>
      BY <1>3 DEF vars, local, txn, docs
    <2>2. QED
      BY <2>1, AsideKeepsProgress DEF AtomicInv
  <1>4. QED
    BY <1>2, <1>3 DEF Next, AllEnded

LEMMA AtomicInvariant == Spec => []AtomicInv
  BY StockInvariant, InitAtomicInv, AtomicInvStep, PTL DEF Spec

\* A commit is the step of AtomicOrders that places the order.
LEMMA CommitPlacesOrder ==
  ASSUME StockInv, OrderInv, AtomicInv, NEW r \in Requests, Commit(r)
  PROVE  Atomic!PlaceOrder(r)
  <1>1. TypeOK /\ Progress(r) /\ Apply(r) /\ pc[r] = "commit"
    BY DEF StockInv, TypeInv, AtomicInv, Commit
  <1>2. r \notin Placed /\ line[r] = Len(Lines[r]) + 1
    BY <1>1 DEF Progress, Drawn
  <1>3. Placed' = Placed \cup {r}
    <2>1. [req |-> r, number |-> number[r]].req = r
      OBVIOUS
    <2>2. QED
      BY <1>1, <2>1 DEF Apply, Placed
  <1>4. ASSUME KeyOf[r] # NoKey, NEW q \in Placed PROVE KeyOf[q] # KeyOf[r]
    <2>1. KeyOf[r] \in dirty[r] \cap Keys
      BY <1>1, <1>4, CheckoutAssumption DEF OrderInv, KeysHeld, Inserted
    <2>2. ~KeyTaken(KeyOf[r])
      BY <2>1 DEF OrderInv, KeysHeld
    <2>3. QED
      BY <1>4, <2>2 DEF KeyTaken, Placed
  <1>5. ASSUME NEW i \in Items
        PROVE  /\ Atomic!Quantity(r, i) <= stock[i]
               /\ stock'[i] = stock[i] - Atomic!Quantity(r, i)
    <2>1. line[r] - 1 = Len(Lines[r]) /\ Len(Lines[r]) \in 0 .. Len(Lines[r])
      BY <1>2, UnitsType
    <2>2. Left(r, i) + Atomic!Quantity(r, i) = stock[i]
      BY <1>1, <2>1, QuantityIsTaken DEF Progress, Working
    <2>3. Left(r, i) \in Nat /\ stock[i] \in Nat /\ Atomic!Quantity(r, i) \in Nat
      BY <1>1, <2>1, TakenType, QuantityIsTaken DEF TypeOK, Left
    <2>4. stock'[i] = Left(r, i)
      BY <1>1 DEF Apply, Left
    <2>5. QED
      BY <2>2, <2>3, <2>4
  <1>6. stock' = [i \in Items |-> stock[i] - Atomic!Quantity(r, i)]
    <2>1. stock' = [i \in Items |-> stock'[i]]
      BY <1>1 DEF Apply
    <2>2. QED
      BY <1>5, <2>1
  <1>7. QED
    BY <1>2, <1>3, <1>4, <1>5, <1>6 DEF Atomic!PlaceOrder

\* The retry loop, the aborts and the lost answers are invisible: Checkout
\* implements AtomicOrders, in which an order takes all its lines in one step,
\* never more than there is, and a key buys once.
THEOREM CheckoutIsAtomic == Spec => OrdersAreAtomic
  <1>1. Init => Atomic!Init
    BY DEF Init, Atomic!Init, Placed
  <1>2. StockInv /\ OrderInv /\ AtomicInv /\ [Next]_vars => [Atomic!Next]_<<stock, Placed>>
    <2> SUFFICES ASSUME StockInv, OrderInv, AtomicInv, [Next]_vars
                 PROVE  Atomic!Next \/ UNCHANGED <<stock, Placed>>
      OBVIOUS
    <2>1. ASSUME NEW r \in Requests, Commit(r) PROVE Atomic!Next
      BY <2>1, CommitPlacesOrder DEF Atomic!Next
    <2>2. ASSUME NEW r \in Requests, Step(r), ~Commit(r) PROVE UNCHANGED <<stock, orders>>
      BY <2>2
      DEF Step, Identify, Consume, Lookup, Validate, Refuse, ReadStock, WriteStock, DrawNumber,
          InsertOrder, CountUsage, RecordUsage, Interrupted, Fail, GiveUp, RetryAfterConflict, docs
    <2>3. CASE UNCHANGED vars
      BY <2>3 DEF vars, docs, Placed
    <2>4. QED
      BY <2>1, <2>2, <2>3 DEF Next, AllEnded, Placed
  <1>3. QED
    BY <1>1, <1>2, StockInvariant, OrderInvariant, AtomicInvariant, PTL
    DEF Spec, OrdersAreAtomic, Atomic!Spec

\* Transactions that abort each other do not all run out of attempts: the
\* last to meet a conflict met it with one under way, or with an order placed.
THEOREM NotAllExhausted ==
  ASSUME Requests # {}
  PROVE  Spec => []SomeoneWins
  <1>1. Init => SomeoneWins
    BY DEF Init, SomeoneWins
  <1>2. StockInv /\ AtomicInv /\ SomeoneWins /\ [Next]_vars => SomeoneWins'
    <2> SUFFICES ASSUME StockInv, AtomicInv, SomeoneWins, [Next]_vars
                 PROVE  \E r \in Requests : pc'[r] # "exhausted"
      BY DEF SomeoneWins
    <2>1. TypeOK /\ \E r \in Requests : pc[r] # "exhausted"
      BY DEF StockInv, TypeInv, SomeoneWins
    <2>2. CASE pc' = pc
      BY <2>1, <2>2
    <2>3. ASSUME NEW r \in Requests, Step(r), pc'[r] = "exhausted"
          PROVE  \E q \in Requests : pc'[q] # "exhausted"
      <3>1. RetryAfterConflict(r, "exhausted") /\ \E d : Conflict(r, d)
        BY <2>1, <2>3, FirstOperationType
        DEF Step, Identify, Consume, Lookup, Validate, Refuse, ReadStock, WriteStock, DrawNumber,
            InsertOrder, CountUsage, RecordUsage, Commit, Interrupted, Fail, GiveUp,
            RetryAfterConflict, Goto, TypeOK
      <3>2. PICK d : Conflict(r, d)
        BY <3>1
      <3>3. \E q \in Requests \ {r} : pc[q] # "exhausted"
        <4>1. CASE d \in stale[r]
          <5>1. PICK q \in Placed : TRUE
            BY <4>1 DEF AtomicInv, Progress
          <5>2. q \in Requests /\ pc[q] \in {"placed", "failed"}
            BY <2>1, <5>1 DEF AtomicInv, Progress, Placed, TypeOK, Order
          <5>3. pc[r] \in Working
            BY <2>3, StepWorks
          <5>4. QED
            BY <5>2, <5>3 DEF Working
        <4>2. CASE d \notin stale[r]
          <5>1. PICK q \in Requests \ {r} : d \in dirty[q]
            BY <3>2, <4>2 DEF Conflict
          <5>2. pc[q] \in Attempting
            BY <5>1 DEF StockInv, Locks, AtomicInv, Progress
          <5>3. QED
            BY <5>1, <5>2 DEF Attempting, Drawn
        <4>3. QED
          BY <4>1, <4>2
      <3>4. \A q \in Requests \ {r} : pc'[q] = pc[q]
        BY <2>1, <3>1 DEF RetryAfterConflict, Goto, TypeOK
      <3>5. QED
        BY <3>3, <3>4
    <2>4. QED
      BY <2>1, <2>2, <2>3 DEF Next, AllEnded, vars, local
  <1>3. QED
    BY <1>1, <1>2, StockInvariant, AtomicInvariant, PTL DEF Spec

\* The placed orders with r's coupon that were sent with the lower-case form
\* of r's address.
RecordedBefore(r) ==
  {q \in Placed : CouponOf[q] = CouponOf[r] /\ EmailOf[q] = Lowercase[EmailOf[r]]}

\* What the limit per customer does catch: the placed orders that were sent
\* with the lower-case form of the customer's address, however the new one is
\* typed (validateCoupon, recordUsage).  Those sent with a capital escape it.
THEOREM LimitChecked ==
  ASSUME IsFiniteSet(Requests)
  PROVE  Spec => [][\A r \in Requests :
           pc[r] = "validate" /\ pc'[r] = FirstOperation(r) /\ CouponOf[r] # NoCoupon =>
             Cardinality(RecordedBefore(r)) < PerCustomerLimit[CouponOf[r]]]_vars
  <1> DEFINE Checked(r) ==
        pc[r] = "validate" /\ pc'[r] = FirstOperation(r) /\ CouponOf[r] # NoCoupon =>
          Cardinality(RecordedBefore(r)) < PerCustomerLimit[CouponOf[r]]
  <1>1. StockInv /\ OrderInv /\ [Next]_vars => [\A r \in Requests : Checked(r)]_vars
    <2> SUFFICES ASSUME StockInv, OrderInv, [Next]_vars, NEW r \in Requests,
                        pc[r] = "validate", pc'[r] = FirstOperation(r), CouponOf[r] # NoCoupon
                 PROVE  Cardinality(RecordedBefore(r)) < PerCustomerLimit[CouponOf[r]]
      OBVIOUS
    <2> DEFINE c == CouponOf[r]
               e == Lowercase[EmailOf[r]]
    <2>1. TypeOK /\ c \in Coupons /\ PerCustomerLimit[c] \in Nat
      BY CheckoutAssumption DEF StockInv, TypeInv
    <2>2. pc'[r] # pc[r] /\ pc'[r] \in {"draw", "read"}
      BY FirstOperationType
    <2>3. CouponAccepted(r)
      <3>1. PICK q \in Requests : Step(q)
        BY <2>2 DEF Next, AllEnded, vars, local
      <3>2. q = r
        BY <2>1, <2>2, <3>1
        DEF Step, Identify, Consume, Lookup, Validate, Refuse, ReadStock, WriteStock, DrawNumber,
            InsertOrder, CountUsage, RecordUsage, Commit, Interrupted, Fail, GiveUp,
            RetryAfterConflict, Goto, TypeOK
      <3>3. Validate(r)
        BY <2>1, <2>2, <3>1, <3>2
        DEF Step, Identify, Consume, Lookup, Refuse, ReadStock, WriteStock, DrawNumber,
            InsertOrder, CountUsage, RecordUsage, Commit, Interrupted, Fail, GiveUp, Goto, TypeOK,
            Ended
      <3>4. QED
        BY <2>1, <2>2, <3>3 DEF Validate, Goto, TypeOK
    <2>4. RecordedBefore(r) \subseteq UsesBy(c, e)
      <3>1. Placed \subseteq Requests
        BY <2>1 DEF Placed, TypeOK, Order
      <3>2. \A q \in Placed : CouponOf[q] = c => q \in usages
        BY <2>1, <3>1 DEF OrderInv, CouponsCounted
      <3>3. QED
        BY <3>1, <3>2 DEF RecordedBefore, UsesBy
    <2>5. IsFiniteSet(UsesBy(c, e))
      BY <2>1, FS_Subset DEF UsesBy, TypeOK
    <2>6. Cardinality(UsesBy(c, e)) < PerCustomerLimit[c]
      BY <2>3 DEF CouponAccepted
    <2>7. /\ Cardinality(RecordedBefore(r)) <= Cardinality(UsesBy(c, e))
          /\ Cardinality(RecordedBefore(r)) \in Nat /\ Cardinality(UsesBy(c, e)) \in Nat
      BY <2>4, <2>5, FS_Subset, FS_CardinalityType
    <2>8. QED
      BY <2>1, <2>6, <2>7
  <1>2. QED
    BY <1>1, StockInvariant, OrderInvariant, PTL DEF Spec
=============================================================================
