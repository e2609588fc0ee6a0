-------------------------- MODULE InventoryProofs --------------------------
(***************************************************************************)
(* Proofs about Inventory, for any calls, items and orders: the types,     *)
(* with a stock that is never negative; the statuses of the products; the  *)
(* one cancellation that restores the stock of an order; the movements     *)
(* that account for the stock, for which the movement under way of each    *)
(* call is one term of a sum.                                              *)
(***************************************************************************)
EXTENDS Inventory, SequenceTheorems, Sums

-----------------------------------------------------------------------------
(* Calls.                                                                  *)

\* What is known of a call from where it is.
Placed(c) ==
  /\ pc[c] \in {"read", "save", "log"} =>
       /\ Kind[c] \in {"adjust", "reserve", "release", "cancel"}
       /\ line[c] \in 1..Len(Lines[c])
  /\ pc[c] = "save" => Edited(c, seen[c].stock) \in Nat
  /\ pc[c] \in {"look", "write"} => Kind[c] \in {"set", "edit"} /\ line[c] = 1
  /\ pc[c] = "judge" => Kind[c] = "threshold" /\ line[c] = 1
  /\ pc[c] = "note" => Kind[c] = "movement" /\ line[c] = 1
  /\ pc[c] \in {"order", "saveorder"} => Kind[c] \in {"cancel", "status"} /\ line[c] = 1
  /\ pc[c] = "saveorder" /\ Kind[c] = "cancel" => seenOrder[c] \notin Final

\* The orders that nobody saved over a change, nor moved out of a final status.
OrdersAgree ==
  \A o \in Orders \ raced :
    /\ lastEntry[o] = orderStatus[o]
    /\ o \notin reopened =>
         /\ \E c : restored[o] \subseteq {c}
         /\ restored[o] # {} => orderStatus[o] \in Final

IInv ==
  /\ TypeOK
  /\ \A c \in Calls : Placed(c)
  /\ StatusFresh
  /\ OrdersAgree

\* The elements of a sequence.
LEMMA ElementOf ==
  ASSUME NEW S, NEW s \in Seq(S), NEW k \in 1..Len(s)
  PROVE  s[k] \in S
  OBVIOUS

\* The lines of a call.
LEMMA LineType ==
  ASSUME NEW c \in Calls, NEW k \in 1..Len(Lines[c])
  PROVE  /\ Lines[c][k].item \in Items /\ Lines[c][k].quantity \in Int
         /\ Kind[c] \notin {"adjust", "movement"} => Lines[c][k].quantity \in Nat
<1>1. Lines[c] \in Seq([item : Items, quantity : Int])
  BY InventoryAssumption
<1>2. Lines[c][k] \in [item : Items, quantity : Int]
  BY <1>1, ElementOf
<1>3. k \in DOMAIN Lines[c]
  BY <1>1, LenProperties
<1>. QED
  BY <1>2, <1>3, InventoryAssumption

LEMMA MaxOfTwo ==
  ASSUME NEW m \in Int
  PROVE  Max({0, m}) \in Nat
<1>1. \E x \in {0, m} : \A y \in {0, m} : x >= y
  OBVIOUS
<1>2. Max({0, m}) \in {0, m} /\ \A y \in {0, m} : Max({0, m}) >= y
  BY <1>1 DEF Max
<1>. QED
  BY <1>2

\* What an operation that does not check computes from a stock.
LEMMA EditedType ==
  ASSUME NEW c \in Calls, line[c] \in 1..Len(Lines[c]), NEW n \in Nat
  PROVE  /\ Edited(c, n) \in Int
         /\ Kind[c] # "adjust" /\ Kind[c] # "movement" => Edited(c, n) \in Nat
<1> DEFINE q == CurrentLine(c).quantity
<1>1. q \in Int /\ (Kind[c] \notin {"adjust", "movement"} => q \in Nat)
  BY LineType DEF CurrentLine
<1>2. Edited(c, n) = IF Kind[c] = "reserve" THEN Max({0, n - q}) ELSE n + q
  BY DEF Edited
<1>. HIDE DEF q
<1>. QED
  BY <1>1, <1>2, MaxOfTwo

\* The lines of a sale add up to a whole number of units.
LEMMA QuantityType == \A c \in Calls, i \in Items : Sales!Quantity(c, i) \in Int
<1> SUFFICES ASSUME NEW c \in Calls, NEW i \in Items PROVE Sales!Quantity(c, i) \in Int
  OBVIOUS
<1> DEFINE f == [k \in DOMAIN Lines[c] |->
                   IF Lines[c][k].item = i THEN Lines[c][k].quantity ELSE 0]
<1>1. DOMAIN Lines[c] = 1..Len(Lines[c]) /\ Len(Lines[c]) \in Nat
  BY InventoryAssumption, LenProperties
<1>2. \A k \in DOMAIN Lines[c] : f[k] \in Int
  BY <1>1, LineType
<1>3. DOMAIN f = DOMAIN Lines[c] /\ IsFiniteSet(DOMAIN Lines[c])
  BY <1>1, FS_Interval
<1>4. Sales!Quantity(c, i) = SumFunctionOnSet(f, DOMAIN f)
  BY DEF Sales!Quantity, Sales!SumFunction, Sales!SumFunctionOnSet,
         Sales!FoldFunctionOnSet, Sales!MapThenFoldSet,
         SumFunctionOnSet, FoldFunctionOnSet, MapThenFoldSet
<1>. HIDE DEF f
<1>. QED
  BY <1>2, <1>3, <1>4, SumInt

LEMMA StatusType == \A t, n : StatusFor(t, n) \in StockStatuses
  BY DEF StatusFor, StockStatuses

LEMMA InitHolds == Init => IInv
<1> SUFFICES ASSUME Init PROVE IInv
  OBVIOUS
<1>1. PICK made \in CallSets : pc = [c \in Calls |-> IF c \in made THEN Entry(c) ELSE "done"]
  BY DEF Init
<1>2. \A c \in Calls : pc[c] = Entry(c) \/ pc[c] = "done"
  BY <1>1
<1>3. ASSUME NEW c \in Calls PROVE pc[c] \in Working \cup Ended /\ Placed(c)
  <2>1. Kind[c] \in Kinds /\ Lines[c] \in Seq([item : Items, quantity : Int]) /\ line[c] = 1
    BY InventoryAssumption DEF Init
  <2>2. Lines[c] # <<>> => 1 \in 1..Len(Lines[c])
    BY <2>1
  <2>. QED
    BY <1>2, <2>1, <2>2 DEF Entry, Kinds, Working, Ended, Placed
<1>4. TypeOK
  <2>1. /\ pc \in [Calls -> Working \cup Ended]
        /\ line \in [Calls -> Nat \ {0}]
        /\ seenOrder \in [Calls -> Statuses]
        /\ orderStatus \in [Orders -> Statuses] /\ lastEntry \in [Orders -> Statuses]
    BY <1>1, <1>3 DEF Init, Statuses
  <2>2. /\ seen \in [Calls -> [stock : Nat, status : StockStatuses, threshold : Nat]]
        /\ stock \in [Items -> Nat] /\ threshold \in [Items -> Nat]
        /\ status \in [Items -> StockStatuses] /\ logged \in [Items -> Int]
    BY InventoryAssumption, StatusType DEF Init, StockStatuses
  <2>3. /\ sold \subseteq Calls /\ raced \subseteq Items \cup Orders /\ reopened \subseteq Orders
        /\ unlogged \subseteq Items /\ unjudged \subseteq Items
        /\ restored \in [Orders -> SUBSET Calls]
    BY DEF Init
  <2>. QED
    BY <2>1, <2>2, <2>3 DEF TypeOK
<1>5. StatusFresh
  BY DEF Init, StatusFresh
<1>6. OrdersAgree
  BY DEF Init, OrdersAgree
<1>. QED
  BY <1>3, <1>4, <1>5, <1>6 DEF IInv

\* One call moves; the others stay as they are.
LEMMA OthersStay ==
  ASSUME IInv, NEW c \in Calls, NEW label \in Working \cup Ended, Goto(c, label),
         line' \in [Calls -> Nat \ {0}],
         \A d \in Calls \ {c} : /\ line'[d] = line[d] /\ seen'[d] = seen[d]
                                /\ seenOrder'[d] = seenOrder[d],
         Placed(c)'
  PROVE  /\ pc' \in [Calls -> Working \cup Ended]
         /\ \A d \in Calls : Placed(d)'
<1>1. /\ pc' \in [Calls -> Working \cup Ended]
      /\ \A d \in Calls \ {c} : pc'[d] = pc[d]
  BY DEF IInv, TypeOK, Goto
<1>2. ASSUME NEW d \in Calls \ {c} PROVE Placed(d)'
  <2>1. /\ Placed(d) /\ pc'[d] = pc[d] /\ line'[d] = line[d] /\ seen'[d] = seen[d]
        /\ seenOrder'[d] = seenOrder[d]
    BY <1>1 DEF IInv
  <2>2. \A n : Edited(d, n)' = Edited(d, n)
    BY <2>1 DEF Edited, CurrentLine
  <2>. QED
    BY <2>1, <2>2 DEF Placed
<1>. QED
  BY <1>1, <1>2

\* A call that works on a line has one.
LEMMA AtLine ==
  ASSUME IInv, NEW c \in Calls,
         pc[c] \in {"look", "write", "judge", "note", "read", "save", "log"}
  PROVE  line[c] \in 1..Len(Lines[c])
<1>1. CASE pc[c] \in {"read", "save", "log"}
  BY <1>1 DEF IInv, Placed
<1>2. CASE pc[c] \in {"look", "write", "judge", "note"}
  <2>1. line[c] = 1 /\ Kind[c] \in OneLine
    BY <1>2 DEF IInv, Placed, OneLine
  <2>2. Len(Lines[c]) = 1
    BY <2>1, InventoryAssumption
  <2>. QED
    BY <2>1, <2>2
<1>. QED
  BY <1>1, <1>2

\* Nothing is asked of more orders or products when only the history grows.
LEMMA OrdersStay ==
  ASSUME IInv, UNCHANGED <<order, reopened, restored>>, raced \subseteq raced'
  PROVE  OrdersAgree'
  BY DEF IInv, OrdersAgree, order

LEMMA StatusesStay ==
  ASSUME IInv, UNCHANGED <<stock, status, threshold, unjudged>>, raced \subseteq raced'
  PROVE  StatusFresh'
  BY DEF IInv, StatusFresh

-----------------------------------------------------------------------------
(* Sales and direct edits.                                                 *)

LEMMA SellStep ==
  ASSUME IInv, NEW c \in Calls, Sell(c)
  PROVE  IInv'
<1>1. /\ UNCHANGED <<line, seen, seenOrder, threshold, order, past>>
      /\ pc'[c] \in {"done", "rejected"}
      /\ \/ Goto(c, "done") \/ Goto(c, "rejected")
  BY DEF Sell, items, IInv, TypeOK, Goto
<1>2. pc' \in [Calls -> Working \cup Ended] /\ \A d \in Calls : Placed(d)'
  <2>1. Placed(c)'
    BY <1>1 DEF Placed
  <2>. QED
    BY <1>1, <2>1, OthersStay DEF Working, Ended, IInv, TypeOK
<1>3. /\ stock' \in [Items -> Nat] /\ status' \in [Items -> StockStatuses]
      /\ logged' \in [Items -> Int] /\ sold' \subseteq Calls /\ StatusFresh'
  <2>1. CASE Sales!PlaceOrder(c) /\ Goto(c, "done")
                /\ logged' = [i \in Items |-> logged[i] - Sales!Quantity(c, i)]
                /\ status' = [i \in Items |->
                     IF i \in Variants \/ Sales!Quantity(c, i) = 0 THEN status[i]
                     ELSE StatusFor(threshold[i], stock'[i])]
    <3> DEFINE q(i) == Sales!Quantity(c, i)
    <3>1. \A i \in Items : q(i) \in Int
      BY QuantityType
    <3>2. /\ \A i \in Items : q(i) <= stock[i]
          /\ stock' = [i \in Items |-> stock[i] - q(i)]
          /\ sold' = sold \cup {c}
          /\ logged' = [i \in Items |-> logged[i] - q(i)]
          /\ status' = [i \in Items |->
                     IF i \in Variants \/ q(i) = 0 THEN status[i]
                     ELSE StatusFor(threshold[i], stock'[i])]
      BY <2>1 DEF Sales!PlaceOrder
    <3>. HIDE DEF q
    <3>3. stock' \in [Items -> Nat] /\ logged' \in [Items -> Int]
      BY <3>1, <3>2 DEF IInv, TypeOK
    <3>4. status' \in [Items -> StockStatuses] /\ sold' \subseteq Calls
      BY <3>2, StatusType DEF IInv, TypeOK
    <3>5. ASSUME NEW i \in Items \ (Variants \cup raced' \cup unjudged')
          PROVE  status'[i] = StatusFor(threshold'[i], stock'[i])
      <4>1. q(i) = 0 => stock'[i] = stock[i] /\ status'[i] = status[i]
        BY <3>2 DEF IInv, TypeOK
      <4>2. q(i) # 0 => status'[i] = StatusFor(threshold[i], stock'[i])
        BY <3>2
      <4>. QED
        BY <1>1, <4>1, <4>2 DEF IInv, StatusFresh, past
    <3>. QED
      BY <3>3, <3>4, <3>5 DEF StatusFresh
  <2>2. CASE UNCHANGED <<items, sold>>
    BY <1>1, <2>2, StatusesStay DEF IInv, TypeOK, items, past
  <2>. QED
    BY <2>1, <2>2 DEF Sell
<1>4. OrdersAgree'
  BY <1>1, OrdersStay DEF past
<1>. QED
  BY <1>1, <1>2, <1>3, <1>4 DEF IInv, TypeOK, order, past

LEMMA LookStep ==
  ASSUME IInv, NEW c \in Calls, Look(c)
  PROVE  IInv'
<1>1. /\ seen' = [seen EXCEPT ![c] = Document(CurrentLine(c).item)]
      /\ Goto(c, "write") /\ pc[c] = "look" /\ pc'[c] = "write"
      /\ UNCHANGED <<line, seenOrder, items, order, sold, past>>
  BY DEF Look, IInv, TypeOK, Goto
<1>2. CurrentLine(c).item \in Items
  <2>1. line[c] \in 1..Len(Lines[c])
    BY <1>1, AtLine
  <2>. QED
    BY <2>1, LineType DEF CurrentLine
<1>3. seen' \in [Calls -> [stock : Nat, status : StockStatuses, threshold : Nat]]
  BY <1>1, <1>2 DEF Document, IInv, TypeOK
<1>4. pc' \in [Calls -> Working \cup Ended] /\ \A d \in Calls : Placed(d)'
  <2>1. Placed(c)'
    BY <1>1 DEF Placed, IInv
  <2>. QED
    BY <1>1, <2>1, OthersStay DEF Working, IInv, TypeOK
<1>5. StatusFresh' /\ OrdersAgree'
  BY <1>1, StatusesStay, OrdersStay DEF items, past
<1>. QED
  BY <1>1, <1>3, <1>4, <1>5 DEF IInv, TypeOK, items, order, past

LEMMA WriteStockStep ==
  ASSUME IInv, NEW c \in Calls, WriteStock(c)
  PROVE  IInv'
<1> DEFINE i == CurrentLine(c).item
           new == Given(c)
<1>1. /\ stock' = [stock EXCEPT ![i] = new.stock]
      /\ status' = [status EXCEPT ![i] =
             IF i \in Variants THEN @ ELSE StatusFor(new.threshold, new.stock)]
      /\ threshold' = [threshold EXCEPT ![i] =
             IF Kind[c] = "edit" THEN new.threshold ELSE @]
      /\ unlogged' = unlogged \cup {i}
      /\ raced' = IF threshold'[i] = new.threshold THEN raced ELSE raced \cup {i}
      /\ Goto(c, "done") /\ pc[c] = "write" /\ pc'[c] = "done"
      /\ UNCHANGED <<line, seen, seenOrder, logged, order, sold, reopened, unjudged, restored>>
  BY DEF WriteStock, IInv, TypeOK, Goto
<1>2. i \in Items /\ new.stock \in Nat /\ new.threshold \in Nat
  <2>1. line[c] \in 1..Len(Lines[c]) /\ Kind[c] \in {"set", "edit"}
    BY <1>1, AtLine DEF IInv, Placed
  <2>. QED
    BY <2>1, LineType DEF CurrentLine, Given, IInv, TypeOK
<1>. HIDE DEF i, new
<1>3. /\ stock' \in [Items -> Nat] /\ status' \in [Items -> StockStatuses]
      /\ threshold' \in [Items -> Nat] /\ unlogged' \subseteq Items
      /\ raced' \subseteq Items \cup Orders
  BY <1>1, <1>2, StatusType DEF IInv, TypeOK
<1>4. pc' \in [Calls -> Working \cup Ended] /\ \A d \in Calls : Placed(d)'
  <2>1. Placed(c)'
    BY <1>1 DEF Placed
  <2>. QED
    BY <1>1, <2>1, OthersStay DEF Ended, IInv, TypeOK
<1>5. ASSUME NEW j \in Items \ (Variants \cup raced' \cup unjudged')
      PROVE  status'[j] = StatusFor(threshold'[j], stock'[j])
  <2>1. CASE j = i
    BY <1>1, <1>2, <2>1 DEF IInv, TypeOK
  <2>2. CASE j # i
    BY <1>1, <2>2 DEF IInv, TypeOK, StatusFresh
  <2>. QED
    BY <2>1, <2>2
<1>6. OrdersAgree'
  BY <1>1, OrdersStay
<1>. QED
  BY <1>1, <1>3, <1>4, <1>5, <1>6 DEF IInv, TypeOK, StatusFresh, order

LEMMA SetThresholdStep ==
  ASSUME IInv, NEW c \in Calls, SetThreshold(c)
  PROVE  IInv'
<1> DEFINE i == CurrentLine(c).item
           q == CurrentLine(c).quantity
<1>1. /\ threshold' = [threshold EXCEPT ![i] = q] /\ unjudged' = unjudged \cup {i}
      /\ Goto(c, "done") /\ pc[c] = "judge" /\ pc'[c] = "done"
      /\ UNCHANGED <<line, seen, seenOrder, stock, status, logged, order, sold,
                     raced, reopened, unlogged, restored>>
  BY DEF SetThreshold, IInv, TypeOK, Goto
<1>2. i \in Items /\ q \in Nat
  <2>1. line[c] \in 1..Len(Lines[c]) /\ Kind[c] = "threshold"
    BY <1>1, AtLine DEF IInv, Placed
  <2>. QED
    BY <2>1, LineType DEF CurrentLine
<1>. HIDE DEF i, q
<1>3. pc' \in [Calls -> Working \cup Ended] /\ \A d \in Calls : Placed(d)'
  <2>1. Placed(c)'
    BY <1>1 DEF Placed
  <2>. QED
    BY <1>1, <2>1, OthersStay DEF Ended, IInv, TypeOK
<1>4. StatusFresh'
  BY <1>1, <1>2 DEF IInv, TypeOK, StatusFresh
<1>5. OrdersAgree'
  BY <1>1, OrdersStay
<1>. QED
  BY <1>1, <1>2, <1>3, <1>4, <1>5 DEF IInv, TypeOK, order

LEMMA CreateMovementStep ==
  ASSUME IInv, NEW c \in Calls, CreateMovement(c)
  PROVE  IInv'
<1> DEFINE i == CurrentLine(c).item
           q == CurrentLine(c).quantity
<1>1. /\ logged' = [logged EXCEPT ![i] = @ + q] /\ unlogged' = unlogged \cup {i}
      /\ Goto(c, "done") /\ pc[c] = "note" /\ pc'[c] = "done"
      /\ UNCHANGED <<line, seen, seenOrder, stock, status, threshold, order, sold,
                     raced, reopened, unjudged, restored>>
  BY DEF CreateMovement, IInv, TypeOK, Goto
<1>2. i \in Items /\ q \in Int
  <2>1. line[c] \in 1..Len(Lines[c])
    BY <1>1, AtLine
  <2>. QED
    BY <2>1, LineType DEF CurrentLine
<1>. HIDE DEF i, q
<1>3. pc' \in [Calls -> Working \cup Ended] /\ \A d \in Calls : Placed(d)'
  <2>1. Placed(c)'
    BY <1>1 DEF Placed
  <2>. QED
    BY <1>1, <2>1, OthersStay DEF Ended, IInv, TypeOK
<1>4. StatusFresh' /\ OrdersAgree'
  BY <1>1, StatusesStay, OrdersStay
<1>. QED
  BY <1>1, <1>2, <1>3, <1>4 DEF IInv, TypeOK, order

-----------------------------------------------------------------------------
(* Reading, saving, logging.                                               *)

LEMMA ReadItemStep ==
  ASSUME IInv, NEW c \in Calls, ReadItem(c)
  PROVE  IInv'
<1> DEFINE i == CurrentLine(c).item
           next == IF Kind[c] = "adjust" /\ Edited(c, stock[i]) < 0
                   THEN "rejected" ELSE "save"
<1>1. /\ seen' = [seen EXCEPT ![c] = Document(i)] /\ Goto(c, next)
      /\ pc[c] = "read" /\ pc'[c] = next
      /\ UNCHANGED <<line, seenOrder, items, order, sold, past>>
  BY DEF ReadItem, IInv, TypeOK, Goto
<1>2. /\ line[c] \in 1..Len(Lines[c])
      /\ Kind[c] \in {"adjust", "reserve", "release", "cancel"}
  BY <1>1 DEF IInv, Placed
<1>3. i \in Items /\ stock[i] \in Nat
  BY <1>2, LineType DEF CurrentLine, IInv, TypeOK
<1>4. seen' \in [Calls -> [stock : Nat, status : StockStatuses, threshold : Nat]]
  BY <1>1, <1>3 DEF Document, IInv, TypeOK
<1>5. seen'[c].stock = stock[i]
  BY <1>1 DEF Document, IInv, TypeOK
<1>6. next = "save" => Edited(c, stock[i]) \in Nat
  BY <1>2, <1>3, EditedType
<1>. HIDE DEF i
<1>7. Edited(c, seen[c].stock)' = Edited(c, stock[i])
  BY <1>1, <1>5 DEF Edited, CurrentLine
<1>8. Placed(c)'
  BY <1>1, <1>2, <1>6, <1>7 DEF Placed
<1>9. pc' \in [Calls -> Working \cup Ended] /\ \A d \in Calls : Placed(d)'
  <2>1. next \in Working \cup Ended
    BY DEF Working, Ended
  <2>. HIDE DEF next
  <2>. QED
    BY <1>1, <1>8, <2>1, OthersStay DEF IInv, TypeOK
<1>10. StatusFresh' /\ OrdersAgree'
  BY <1>1, StatusesStay, OrdersStay DEF items, past
<1>. QED
  BY <1>1, <1>4, <1>9, <1>10 DEF IInv, TypeOK, items, order, past

\* Unless the document has changed since it was read, in which case it counts
\* as raced, the stock that is saved and the status are computed together.
LEMMA SaveItemStep ==
  ASSUME IInv, NEW c \in Calls, SaveItem(c)
  PROVE  IInv'
<1> DEFINE i == CurrentLine(c).item
           new == Edited(c, seen[c].stock)
<1>1. /\ stock' = [stock EXCEPT ![i] = IF new = seen[c].stock THEN @ ELSE new]
      /\ status' = [status EXCEPT ![i] = WrittenStatus(c)]
      /\ raced' = IF Document(i) = seen[c] THEN raced ELSE raced \cup {i}
      /\ Goto(c, "log") /\ pc[c] = "save" /\ pc'[c] = "log"
      /\ UNCHANGED <<line, seen, seenOrder, threshold, logged, order, sold,
                     reopened, unlogged, unjudged, restored>>
  BY DEF SaveItem, IInv, TypeOK, Goto
<1>2. /\ line[c] \in 1..Len(Lines[c]) /\ new \in Nat
      /\ Kind[c] \in {"adjust", "reserve", "release", "cancel"}
  BY <1>1 DEF IInv, Placed
<1>3. i \in Items
  BY <1>2, LineType DEF CurrentLine
<1>4. WrittenStatus(c) = IF (Kind[c] = "cancel" /\ i \in Variants)
                            \/ StatusFor(seen[c].threshold, new) = seen[c].status
                         THEN status[i] ELSE StatusFor(seen[c].threshold, new)
  BY DEF WrittenStatus
<1>. HIDE DEF i, new
<1>5. /\ stock' \in [Items -> Nat] /\ status' \in [Items -> StockStatuses]
      /\ raced' \subseteq Items \cup Orders /\ raced \subseteq raced'
  BY <1>1, <1>2, <1>3, <1>4, StatusType DEF IInv, TypeOK
<1>6. pc' \in [Calls -> Working \cup Ended] /\ \A d \in Calls : Placed(d)'
  <2>1. Placed(c)'
    BY <1>1, <1>2 DEF Placed
  <2>. QED
    BY <1>1, <2>1, OthersStay DEF Working, IInv, TypeOK
<1>7. ASSUME NEW j \in Items \ (Variants \cup raced' \cup unjudged')
      PROVE  status'[j] = StatusFor(threshold'[j], stock'[j])
  <2>1. CASE j = i
    <3>1. seen[c] = Document(i)
      BY <1>1, <2>1
    <3>2. /\ seen[c].stock = stock[i] /\ seen[c].status = status[i]
          /\ seen[c].threshold = threshold[i]
      BY <3>1 DEF Document
    <3>3. stock'[i] = new
      BY <1>1, <1>3, <3>2 DEF IInv, TypeOK
    <3>4. status'[i] = StatusFor(threshold[i], new)
      BY <1>1, <1>3, <1>4, <2>1, <3>2 DEF IInv, TypeOK
    <3>. QED
      BY <1>1, <2>1, <3>3, <3>4
  <2>2. CASE j # i
    BY <1>1, <1>5, <2>2 DEF IInv, TypeOK, StatusFresh
  <2>. QED
    BY <2>1, <2>2
<1>8. OrdersAgree'
  BY <1>1, <1>5, OrdersStay
<1>. QED
  BY <1>1, <1>5, <1>6, <1>7, <1>8 DEF IInv, TypeOK, StatusFresh, order

LEMMA LogMovementStep ==
  ASSUME IInv, NEW c \in Calls, LogMovement(c)
  PROVE  IInv'
<1> DEFINE i == CurrentLine(c).item
           next == IF line[c] = Len(Lines[c]) THEN "done" ELSE "read"
<1>1. /\ logged' = [logged EXCEPT ![i] = @ + Delta(c)]
      /\ line' = [line EXCEPT ![c] = @ + 1]
      /\ Goto(c, next) /\ pc[c] = "log" /\ pc'[c] = next /\ line'[c] = line[c] + 1
      /\ UNCHANGED <<seen, seenOrder, stock, status, threshold, order, sold, past>>
  BY DEF LogMovement, IInv, TypeOK, Goto
<1>2. /\ line[c] \in 1..Len(Lines[c])
      /\ Kind[c] \in {"adjust", "reserve", "release", "cancel"}
  BY <1>1 DEF IInv, Placed
<1>3. i \in Items /\ Delta(c) \in Int
  BY <1>2, LineType, EditedType DEF CurrentLine, Delta, IInv, TypeOK
<1>. HIDE DEF i
<1>4. /\ logged' \in [Items -> Int] /\ line' \in [Calls -> Nat \ {0}]
      /\ \A d \in Calls \ {c} : line'[d] = line[d]
  BY <1>1, <1>3 DEF IInv, TypeOK
<1>5. Len(Lines[c]) \in Nat
  BY InventoryAssumption, LenProperties
<1>6. Placed(c)'
  BY <1>1, <1>2, <1>5 DEF Placed
<1>7. pc' \in [Calls -> Working \cup Ended] /\ \A d \in Calls : Placed(d)'
  <2>1. next \in Working \cup Ended
    BY DEF Working, Ended
  <2>. HIDE DEF next
  <2>. QED
    BY <1>1, <1>4, <1>6, <2>1, OthersStay
<1>8. StatusFresh' /\ OrdersAgree'
  BY <1>1, StatusesStay, OrdersStay DEF past
<1>. QED
  BY <1>1, <1>4, <1>7, <1>8 DEF IInv, TypeOK, order, past

LEMMA FailStep ==
  ASSUME IInv, NEW c \in Calls, Fail(c)
  PROVE  IInv'
<1>1. /\ Goto(c, "failed") /\ pc'[c] = "failed"
      /\ unlogged' = IF pc[c] = "log" THEN unlogged \cup {CurrentLine(c).item} ELSE unlogged
      /\ UNCHANGED <<line, seen, seenOrder, items, order, sold, raced, reopened,
                     unjudged, restored>>
  BY DEF Fail, IInv, TypeOK, Goto
<1>2. pc[c] = "log" => CurrentLine(c).item \in Items
  BY AtLine, LineType DEF CurrentLine
<1>3. unlogged' \subseteq Items
  BY <1>1, <1>2 DEF IInv, TypeOK
<1>4. pc' \in [Calls -> Working \cup Ended] /\ \A d \in Calls : Placed(d)'
  <2>1. Placed(c)'
    BY <1>1 DEF Placed
  <2>. QED
    BY <1>1, <2>1, OthersStay DEF Ended, IInv, TypeOK
<1>5. StatusFresh' /\ OrdersAgree'
  BY <1>1, StatusesStay, OrdersStay DEF items
<1>. QED
  BY <1>1, <1>3, <1>4, <1>5 DEF IInv, TypeOK, items, order

-----------------------------------------------------------------------------
(* Orders.                                                                 *)

LEMMA ReadOrderStep ==
  ASSUME IInv, NEW c \in Calls, ReadOrder(c)
  PROVE  IInv'
<1> DEFINE o == OrderOf[c]
           next == IF Kind[c] = "cancel" /\ ~Cancellable(orderStatus[o])
                   THEN "rejected" ELSE "saveorder"
<1>1. /\ seenOrder' = [seenOrder EXCEPT ![c] = orderStatus[o]]
      /\ Goto(c, next) /\ pc[c] = "order" /\ pc'[c] = next
      /\ UNCHANGED <<line, seen, items, order, sold, past>>
  BY DEF ReadOrder, IInv, TypeOK, Goto
<1>2. Kind[c] \in {"cancel", "status"} /\ line[c] = 1 /\ o \in Orders
  BY <1>1, InventoryAssumption DEF IInv, Placed
<1>3. seenOrder' \in [Calls -> Statuses] /\ seenOrder'[c] = orderStatus[o]
  BY <1>1, <1>2 DEF IInv, TypeOK
<1>4. Placed(c)'
  BY <1>1, <1>2, <1>3 DEF Placed, Cancellable
<1>5. pc' \in [Calls -> Working \cup Ended] /\ \A d \in Calls : Placed(d)'
  <2>1. /\ next \in Working \cup Ended
        /\ \A d \in Calls \ {c} : seenOrder'[d] = seenOrder[d]
    BY <1>1 DEF Working, Ended, IInv, TypeOK
  <2>. HIDE DEF next
  <2>. QED
    BY <1>1, <1>4, <2>1, OthersStay DEF IInv, TypeOK
<1>6. StatusFresh' /\ OrdersAgree'
  BY <1>1, StatusesStay, OrdersStay DEF items, past
<1>. QED
  BY <1>1, <1>3, <1>5, <1>6 DEF IInv, TypeOK, items, order, past

\* A cancellation that saves an order as it read it, which was not final,
\* finds that nobody has restored its stock.
LEMMA SaveOrderStep ==
  ASSUME IInv, NEW c \in Calls, SaveOrder(c)
  PROVE  IInv'
<1> DEFINE o == OrderOf[c]
           next == IF Kind[c] = "cancel" /\ Lines[c] # <<>> THEN "read" ELSE "done"
<1>1. /\ lastEntry' = [lastEntry EXCEPT ![o] = Target(c)]
      /\ orderStatus' = [orderStatus EXCEPT ![o] =
             IF Target(c) = seenOrder[c] THEN @ ELSE Target(c)]
      /\ raced' = IF orderStatus[o] = seenOrder[c] THEN raced ELSE raced \cup {o}
      /\ reopened' = IF orderStatus[o] \in Final /\ Target(c) \notin Final
                     THEN reopened \cup {o} ELSE reopened
      /\ restored' = [restored EXCEPT ![o] =
             IF Kind[c] = "cancel" THEN @ \cup {c} ELSE @]
      /\ Goto(c, next) /\ pc[c] = "saveorder" /\ pc'[c] = next
      /\ UNCHANGED <<line, seen, seenOrder, items, sold, unlogged, unjudged>>
  BY DEF SaveOrder, IInv, TypeOK, Goto
<1>2. /\ Kind[c] \in {"cancel", "status"} /\ line[c] = 1 /\ o \in Orders
      /\ Kind[c] = "cancel" => seenOrder[c] \notin Final
  BY <1>1, InventoryAssumption DEF IInv, Placed
<1>3. /\ Target(c) \in Statuses
      /\ Kind[c] = "cancel" => Target(c) = "cancelled"
  BY <1>2, InventoryAssumption DEF Target, Statuses
<1>4. /\ orderStatus' \in [Orders -> Statuses] /\ lastEntry' \in [Orders -> Statuses]
      /\ raced' \subseteq Items \cup Orders /\ raced \subseteq raced'
      /\ reopened' \subseteq Orders /\ restored' \in [Orders -> SUBSET Calls]
  BY <1>1, <1>2, <1>3 DEF IInv, TypeOK
<1>5. pc' \in [Calls -> Working \cup Ended] /\ \A d \in Calls : Placed(d)'
  <2>1. Lines[c] # <<>> => 1 \in 1..Len(Lines[c])
    BY InventoryAssumption
  <2>2. Placed(c)'
    BY <1>1, <1>2, <2>1 DEF Placed
  <2>3. next \in Working \cup Ended
    BY DEF Working, Ended
  <2>. HIDE DEF next
  <2>. QED
    BY <1>1, <2>2, <2>3, OthersStay DEF IInv, TypeOK
<1>6. StatusFresh'
  BY <1>1, <1>4, StatusesStay DEF items
<1>7. ASSUME NEW p \in Orders \ raced'
      PROVE  /\ lastEntry'[p] = orderStatus'[p]
             /\ p \notin reopened' =>
                  /\ \E d : restored'[p] \subseteq {d}
                  /\ restored'[p] # {} => orderStatus'[p] \in Final
  <2>1. /\ p \notin raced /\ lastEntry[p] = orderStatus[p]
        /\ p \notin reopened =>
             /\ \E d : restored[p] \subseteq {d}
             /\ restored[p] # {} => orderStatus[p] \in Final
    BY <1>4 DEF IInv, OrdersAgree
  <2>2. CASE p # o
    BY <1>1, <2>1, <2>2 DEF IInv, TypeOK
  <2>3. CASE p = o
    <3>1. orderStatus[o] = seenOrder[c]
      BY <1>1, <2>3
    <3>2. /\ lastEntry'[o] = Target(c) /\ orderStatus'[o] = Target(c)
          /\ restored'[o] = IF Kind[c] = "cancel" THEN restored[o] \cup {c} ELSE restored[o]
      BY <1>1, <1>2, <3>1 DEF IInv, TypeOK
    <3>3. CASE Kind[c] = "cancel"
      <4>1. "cancelled" \in Final /\ orderStatus[o] \notin Final
        BY <1>2, <3>1, <3>3 DEF Final
      <4>2. p \notin reopened' => p \notin reopened /\ restored[o] = {}
        BY <1>1, <2>1, <2>3, <4>1
      <4>. QED
        BY <1>3, <2>3, <3>2, <3>3, <4>1, <4>2
    <3>4. CASE Kind[c] # "cancel"
      <4>1. p \notin reopened' =>
              /\ p \notin reopened
              /\ orderStatus[o] \in Final => Target(c) \in Final
        BY <1>1, <2>3
      <4>. QED
        BY <2>1, <2>3, <3>2, <3>4, <4>1
    <3>. QED
      BY <3>3, <3>4
  <2>. QED
    BY <2>2, <2>3
<1>. QED
  BY <1>1, <1>4, <1>5, <1>6, <1>7 DEF IInv, TypeOK, OrdersAgree, items

-----------------------------------------------------------------------------

LEMMA NextHolds == IInv /\ [Next]_vars => IInv'
<1> SUFFICES ASSUME IInv, [Next]_vars PROVE IInv'
  OBVIOUS
<1>1. ASSUME NEW c \in Calls, Step(c) PROVE IInv'
  BY <1>1, SellStep, LookStep, WriteStockStep, SetThresholdStep, CreateMovementStep,
     ReadItemStep, SaveItemStep, LogMovementStep, ReadOrderStep, SaveOrderStep, FailStep
     DEF Step
<1>2. CASE UNCHANGED vars
  <2>1. UNCHANGED <<pc, line, seen, seenOrder, items, order, sold, past>>
    BY <1>2 DEF vars, call
  <2>2. \A c \in Calls : Placed(c)'
    BY <2>1 DEF IInv, Placed, Edited, CurrentLine
  <2>3. StatusFresh' /\ OrdersAgree'
    BY <2>1, StatusesStay, OrdersStay DEF items, past
  <2>. QED
    BY <2>1, <2>2, <2>3 DEF IInv, TypeOK, items, order, past
<1>. QED
  BY <1>1, <1>2 DEF Next, AllEnded

THEOREM Invariant == Spec => []IInv
BY InitHolds, NextHolds, PTL DEF Spec

\* A stock is never negative, although an adjustment is checked on an earlier
\* read and a reservation is not checked at all.
THEOREM StocksAreNatural == Spec => []TypeOK
<1>1. IInv => TypeOK
  BY DEF IInv
<1>. QED
  BY <1>1, Invariant, PTL

\* The status of a product is that of its stock and threshold, except after a
\* save over a change its writer had not read and when the threshold was
\* changed alone.
THEOREM StatusesAreFresh == Spec => []StatusFresh
<1>1. IInv => StatusFresh
  BY DEF IInv
<1>. QED
  BY <1>1, Invariant, PTL

\* The history of an order ends in its status, and one cancellation at most
\* restores its stock, except after such a save or a move out of a final status.
THEOREM OneCancellation == Spec => []CancelledOnce
<1>1. ASSUME NEW S, NEW c, S \subseteq {c} PROVE Cardinality(S) <= 1
  <2>1. S = {} \/ S = {c}
    BY <1>1
  <2>. QED
    BY <2>1, FS_EmptySet, FS_Singleton
<1>2. IInv => CancelledOnce
  BY <1>1 DEF IInv, OrdersAgree, CancelledOnce
<1>. QED
  BY <1>2, Invariant, PTL
-----------------------------------------------------------------------------
(* The movements.                                                          *)

LEMMA DeltaType ==
  ASSUME IInv, NEW c \in Calls, pc[c] \in {"save", "log"}
  PROVE  Delta(c) \in Int /\ CurrentLine(c).item \in Items
<1>1. line[c] \in 1..Len(Lines[c]) /\ seen[c].stock \in Nat
  BY AtLine DEF IInv, TypeOK
<1>2. Edited(c, seen[c].stock) \in Int
  BY <1>1, EditedType
<1>. QED
  BY <1>1, <1>2, LineType DEF Delta, CurrentLine

LEMMA MovingFinite == \A i : IsFiniteSet(Moving(i))
  BY InventoryAssumption, FS_Subset DEF Moving

LEMMA InFlightType ==
  ASSUME IInv, NEW i \in Items
  PROVE  InFlight(i) \in Int
<1> DEFINE f == [c \in Moving(i) |-> Delta(c)]
<1>1. \A c \in Moving(i) : f[c] \in Int
  BY DeltaType DEF Moving
<1>2. InFlight(i) = SumFunctionOnSet(f, Moving(i))
  BY DEF InFlight, SumFunction
<1>. HIDE DEF f
<1>. QED
  BY <1>1, <1>2, MovingFinite, SumInt

\* A step of c leaves the movements of the items it neither saved nor saves.
LEMMA InFlightStays ==
  ASSUME IInv, NEW i \in Items, NEW c \in Calls, NEW label, Goto(c, label),
         \A d \in Calls \ {c} : line'[d] = line[d] /\ seen'[d] = seen[d],
         c \notin Moving(i), c \notin Moving(i)'
  PROVE  InFlight(i)' = InFlight(i)
<1>1. \A d \in Calls \ {c} : /\ pc'[d] = pc[d] /\ CurrentLine(d)' = CurrentLine(d)
                             /\ Delta(d)' = Delta(d)
  BY DEF IInv, TypeOK, Goto, CurrentLine, Delta, Edited
<1>2. Moving(i)' = Moving(i) /\ c \notin Moving(i) /\ Moving(i) \subseteq Calls
  BY <1>1 DEF Moving
<1>3. [d \in Moving(i) |-> Delta(d)]' = [d \in Moving(i) |-> Delta(d)]
  BY <1>1, <1>2
<1>. QED
  BY <1>3 DEF InFlight

\* Nor does a step of c that is at another item change what is accounted for.
LEMMA AccountedStays ==
  ASSUME IInv, NEW i \in Items, NEW c \in Calls, NEW label, Goto(c, label),
         \A d \in Calls \ {c} : line'[d] = line[d] /\ seen'[d] = seen[d],
         c \notin Moving(i), c \notin Moving(i)',
         stock'[i] = stock[i], logged'[i] = logged[i], Accounted(i)
  PROVE  Accounted(i)'
<1>1. InFlight(i)' = InFlight(i)
  BY InFlightStays
<1>. QED
  BY <1>1 DEF Accounted

\* A save adds a term, and the movement takes it out again.
LEMMA InFlightGrows ==
  ASSUME IInv, NEW c \in Calls, SaveItem(c), NEW i \in Items, i = CurrentLine(c).item
  PROVE  InFlight(i)' = InFlight(i) + Delta(c)
<1> DEFINE S == Moving(i)
           f == [d \in S |-> Delta(d)]
           g == [d \in S \cup {c} |-> Delta(d)]
<1>1. /\ pc[c] = "save" /\ pc' = [pc EXCEPT ![c] = "log"] /\ UNCHANGED <<line, seen>>
      /\ pc \in [Calls -> Working \cup Ended]
  BY DEF SaveItem, Goto, IInv, TypeOK
<1>2. \A d \in Calls : CurrentLine(d)' = CurrentLine(d) /\ Delta(d)' = Delta(d)
  BY <1>1 DEF CurrentLine, Delta, Edited
<1>3. c \notin S /\ Moving(i)' = S \cup {c} /\ S \cup {c} \subseteq Calls
  BY <1>1, <1>2 DEF Moving
<1>4. \A d \in S \cup {c} : g[d] \in Int
  BY <1>1, DeltaType DEF Moving
<1>5. [d \in Moving(i) |-> Delta(d)]' = g
  BY <1>2, <1>3
<1>6. InFlight(i)' = SumFunctionOnSet(g, S \cup {c}) /\ InFlight(i) = SumFunctionOnSet(f, S)
  <2>1. InFlight(i)' = SumFunction([d \in Moving(i) |-> Delta(d)]')
    BY <1>2 DEF InFlight
  <2>. QED
    BY <1>5, <2>1 DEF InFlight, SumFunction
<1>7. /\ IsFiniteSet(S) /\ g[c] = Delta(c) /\ \A d \in S : f[d] = g[d]
  BY MovingFinite
<1>. HIDE DEF S, f, g
<1>8. SumFunctionOnSet(g, S \cup {c}) = SumFunctionOnSet(g, S) + g[c]
  <2>1. IsFiniteSet(S) /\ c \notin S /\ \A d \in S \cup {c} : g[d] \in Int
    BY <1>3, <1>4, <1>7
  <2>. QED
    BY <2>1, SumAdd
<1>9. SumFunctionOnSet(f, S) = SumFunctionOnSet(g, S)
  <2>1. IsFiniteSet(S) /\ \A d \in S : f[d] = g[d]
    BY <1>7
  <2>. QED
    BY <2>1, SumSame
<1>. QED
  BY <1>6, <1>7, <1>8, <1>9

LEMMA InFlightShrinks ==
  ASSUME IInv, NEW c \in Calls, LogMovement(c), NEW i \in Items, i = CurrentLine(c).item
  PROVE  InFlight(i)' = InFlight(i) - Delta(c)
<1> DEFINE S == Moving(i)
           f == [d \in S |-> Delta(d)]
           g == [d \in S \ {c} |-> Delta(d)]
<1>1. /\ pc[c] = "log" /\ pc'[c] # "log" /\ UNCHANGED seen
      /\ \A d \in Calls \ {c} : pc'[d] = pc[d] /\ line'[d] = line[d]
  BY DEF LogMovement, Goto, IInv, TypeOK
<1>2. \A d \in Calls \ {c} : CurrentLine(d)' = CurrentLine(d) /\ Delta(d)' = Delta(d)
  BY <1>1 DEF CurrentLine, Delta, Edited
<1>3. c \in S /\ S \subseteq Calls
  BY <1>1, DeltaType DEF Moving
<1>4. InFlight(i)' = SumFunctionOnSet(g, S \ {c}) /\ InFlight(i) = SumFunctionOnSet(f, S)
  <2> DEFINE T == {d \in Calls : pc'[d] = "log" /\ CurrentLine(d)'.item = i}
  <2>1. T = S \ {c}
    BY <1>1, <1>2 DEF Moving
  <2>2. [d \in T |-> Delta(d)'] = g
    BY <1>2, <1>3, <2>1
  <2>. QED
    BY <2>2 DEF InFlight, SumFunction, Moving
<1>5. /\ IsFiniteSet(S) /\ IsFiniteSet(S \ {c}) /\ f[c] = Delta(c)
      /\ \A d \in S \ {c} : f[d] = g[d]
  BY <1>3, MovingFinite, FS_Subset
<1>6. \A d \in S : f[d] \in Int
  BY DeltaType DEF Moving
<1>. HIDE DEF S, f, g
<1>7. SumFunctionOnSet(f, S) = f[c] + SumFunctionOnSet(f, S \ {c})
  BY <1>3, <1>5, <1>6, SumRemove
<1>8. SumFunctionOnSet(f, S \ {c}) = SumFunctionOnSet(g, S \ {c})
  BY <1>5, SumSame
<1>9. f[c] \in Int /\ SumFunctionOnSet(f, S \ {c}) \in Int
  BY <1>3, <1>5, <1>6, SumInt
<1>. QED
  BY <1>4, <1>5, <1>7, <1>8, <1>9

LEMMA SaveKeepsAccount ==
  ASSUME IInv, StockAccounted, NEW c \in Calls, SaveItem(c)
  PROVE  StockAccounted'
<1>1. /\ stock' = [stock EXCEPT ![CurrentLine(c).item] =
                     IF Edited(c, seen[c].stock) = seen[c].stock THEN @
                     ELSE Edited(c, seen[c].stock)]
      /\ raced' = IF Document(CurrentLine(c).item) = seen[c] THEN raced
                  ELSE raced \cup {CurrentLine(c).item}
      /\ Goto(c, "log") /\ pc[c] = "save" /\ UNCHANGED <<line, seen, logged, unlogged>>
  BY DEF SaveItem
<1>2. Delta(c) \in Int /\ Delta(c) = Edited(c, seen[c].stock) - seen[c].stock
  BY <1>1, DeltaType DEF Delta
<1>3. Edited(c, seen[c].stock) \in Nat /\ seen[c].stock \in Nat
  BY <1>1 DEF IInv, Placed, TypeOK
<1> SUFFICES ASSUME NEW i \in Items \ (raced' \cup unlogged') PROVE Accounted(i)'
  BY DEF StockAccounted
<1>4. Accounted(i) /\ InFlight(i) \in Int /\ logged[i] \in Int /\ InitialStock[i] \in Nat
  BY <1>1, InFlightType, InventoryAssumption DEF StockAccounted, IInv, TypeOK
<1>5. CASE i = CurrentLine(c).item
  <2>1. seen[c].stock = stock[i]
    BY <1>1, <1>5 DEF Document
  <2>2. stock'[i] = Edited(c, seen[c].stock)
    BY <1>1, <1>5, <2>1 DEF IInv, TypeOK
  <2>3. InFlight(i)' = InFlight(i) + Delta(c)
    BY <1>5, InFlightGrows
  <2>. HIDE DEF Accounted
  <2>4. stock[i] = InitialStock[i] + logged[i] + InFlight(i)
    BY <1>4 DEF Accounted
  <2>5. stock'[i] = InitialStock[i] + logged'[i] + InFlight(i)'
    BY <1>1, <1>2, <1>3, <1>4, <2>1, <2>2, <2>3, <2>4
  <2>. QED
    BY <2>5 DEF Accounted
<1>6. CASE i # CurrentLine(c).item
  <2>1. c \notin Moving(i) /\ c \notin Moving(i)'
    BY <1>1, <1>6 DEF Moving, CurrentLine
  <2>2. stock'[i] = stock[i]
    BY <1>1, <1>6 DEF IInv, TypeOK
  <2>. QED
    BY <1>1, <1>4, <2>1, <2>2, AccountedStays
<1>. QED
  BY <1>5, <1>6

LEMMA LogKeepsAccount ==
  ASSUME IInv, StockAccounted, NEW c \in Calls, LogMovement(c)
  PROVE  StockAccounted'
<1> DEFINE next == IF line[c] = Len(Lines[c]) THEN "done" ELSE "read"
<1>1. /\ logged' = [logged EXCEPT ![CurrentLine(c).item] = @ + Delta(c)]
      /\ line' = [line EXCEPT ![c] = @ + 1]
      /\ Goto(c, next) /\ pc[c] = "log" /\ pc'[c] # "log"
      /\ UNCHANGED <<seen, stock, past>>
  BY DEF LogMovement, IInv, TypeOK, Goto
<1>2. Delta(c) \in Int
  BY <1>1, DeltaType
<1> SUFFICES ASSUME NEW i \in Items \ (raced' \cup unlogged') PROVE Accounted(i)'
  BY DEF StockAccounted
<1>3. Accounted(i) /\ InFlight(i) \in Int /\ logged[i] \in Int /\ InitialStock[i] \in Nat
  BY <1>1, InFlightType, InventoryAssumption DEF StockAccounted, IInv, TypeOK, past
<1>4. CASE i = CurrentLine(c).item
  <2>1. InFlight(i)' = InFlight(i) - Delta(c)
    BY <1>4, InFlightShrinks
  <2>2. logged'[i] = logged[i] + Delta(c)
    BY <1>1, <1>4 DEF IInv, TypeOK
  <2>3. stock[i] = InitialStock[i] + logged[i] + InFlight(i)
    BY <1>3 DEF Accounted
  <2>4. stock'[i] = InitialStock[i] + logged'[i] + InFlight(i)'
    BY <1>1, <1>2, <1>3, <2>1, <2>2, <2>3
  <2>. QED
    BY <2>4 DEF Accounted
<1>5. CASE i # CurrentLine(c).item
  <2>1. c \notin Moving(i) /\ c \notin Moving(i)'
    BY <1>1, <1>5 DEF Moving
  <2>2. logged'[i] = logged[i] /\ \A d \in Calls \ {c} : line'[d] = line[d]
    BY <1>1, <1>5 DEF IInv, TypeOK
  <2>. QED
    BY <1>1, <1>3, <2>1, <2>2, AccountedStays
<1>. QED
  BY <1>4, <1>5

\* A sale takes the same units from the stock and from the log.
LEMMA SellKeepsAccount ==
  ASSUME IInv, StockAccounted, NEW c \in Calls, Sell(c)
  PROVE  StockAccounted'
<1>1. /\ pc[c] = "sell" /\ UNCHANGED <<line, seen, past>>
      /\ \E label \in {"done", "rejected"} : Goto(c, label)
  BY DEF Sell
<1>2. PICK label \in {"done", "rejected"} : Goto(c, label)
  BY <1>1
<1> SUFFICES ASSUME NEW i \in Items \ (raced' \cup unlogged') PROVE Accounted(i)'
  BY DEF StockAccounted
<1>3. Accounted(i) /\ InFlight(i) \in Int /\ logged[i] \in Int /\ InitialStock[i] \in Nat
  BY <1>1, InFlightType, InventoryAssumption DEF StockAccounted, IInv, TypeOK, past
<1>4. c \notin Moving(i) /\ c \notin Moving(i)'
  BY <1>1, <1>2 DEF Moving, Goto, IInv, TypeOK
<1>5. InFlight(i)' = InFlight(i)
  BY <1>1, <1>2, <1>4, InFlightStays
<1>6. stock'[i] = InitialStock[i] + logged'[i] + InFlight(i)
  <2>1. stock[i] = InitialStock[i] + logged[i] + InFlight(i) /\ stock[i] \in Nat
    BY <1>3 DEF Accounted, IInv, TypeOK
  <2>2. CASE stock' = stock /\ logged' = logged
    BY <2>1, <2>2
  <2>3. CASE /\ stock' = [j \in Items |-> stock[j] - Sales!Quantity(c, j)]
             /\ logged' = [j \in Items |-> logged[j] - Sales!Quantity(c, j)]
    <3>1. Sales!Quantity(c, i) \in Int
      BY QuantityType
    <3>2. stock'[i] = stock[i] - Sales!Quantity(c, i) /\ logged'[i] = logged[i] - Sales!Quantity(c, i)
      BY <2>3
    <3>. QED
      BY <1>3, <2>1, <3>1, <3>2
  <2>. QED
    BY <2>2, <2>3 DEF Sell, Sales!PlaceOrder, items
<1>. QED
  BY <1>5, <1>6 DEF Accounted

\* What is saved or noted without the other is not asked for any longer.
LEMMA EditKeepsAccount ==
  ASSUME IInv, StockAccounted, NEW c \in Calls,
         WriteStock(c) \/ CreateMovement(c) \/ Fail(c)
  PROVE  StockAccounted'
<1> SUFFICES ASSUME NEW i \in Items \ (raced' \cup unlogged') PROVE Accounted(i)'
  BY DEF StockAccounted
<1>1. /\ UNCHANGED <<line, seen>> /\ pc'[c] # "log"
      /\ \E label \in {"done", "failed"} : Goto(c, label)
      /\ raced \subseteq raced' /\ unlogged \subseteq unlogged'
  BY DEF WriteStock, CreateMovement, Fail, Goto, IInv, TypeOK
<1>2. PICK label \in {"done", "failed"} : Goto(c, label)
  BY <1>1
<1>3. pc[c] = "log" => CurrentLine(c).item # i
  BY DEF WriteStock, CreateMovement, Fail
<1>4. stock'[i] = stock[i] /\ logged'[i] = logged[i]
  BY DEF WriteStock, CreateMovement, Fail, items, IInv, TypeOK
<1>5. c \notin Moving(i) /\ c \notin Moving(i)' /\ Accounted(i)
  BY <1>1, <1>3 DEF Moving, StockAccounted
<1>. QED
  BY <1>1, <1>2, <1>4, <1>5, AccountedStays

\* The other steps neither save nor log.
LEMMA RestKeepsAccount ==
  ASSUME IInv, StockAccounted, NEW c \in Calls,
         Look(c) \/ SetThreshold(c) \/ ReadItem(c) \/ ReadOrder(c) \/ SaveOrder(c)
  PROVE  StockAccounted'
<1> SUFFICES ASSUME NEW i \in Items \ (raced' \cup unlogged') PROVE Accounted(i)'
  BY DEF StockAccounted
<1>1. /\ pc[c] # "log" /\ pc'[c] # "log" /\ UNCHANGED <<stock, logged>>
      /\ raced \subseteq raced' /\ unlogged \subseteq unlogged'
      /\ \A d \in Calls \ {c} : line'[d] = line[d] /\ seen'[d] = seen[d]
  BY DEF Look, SetThreshold, ReadItem, ReadOrder, SaveOrder, Goto, items, past, IInv, TypeOK
<1>2. \E label \in {"write", "done", "rejected", "save", "saveorder", "read"} : Goto(c, label)
  BY DEF Look, SetThreshold, ReadItem, ReadOrder, SaveOrder
<1>3. PICK label \in {"write", "done", "rejected", "save", "saveorder", "read"} : Goto(c, label)
  BY <1>2
<1>4. c \notin Moving(i) /\ c \notin Moving(i)' /\ Accounted(i)
  BY <1>1 DEF Moving, StockAccounted
<1>. QED
  BY <1>1, <1>3, <1>4, AccountedStays

LEMMA InitAccounted == Init => StockAccounted
<1> SUFFICES ASSUME Init, NEW i \in Items PROVE Accounted(i)
  BY DEF StockAccounted
<1>1. Moving(i) = {}
  BY DEF Init, Moving, Entry
<1>2. InFlight(i) = 0
  <2> DEFINE f == [c \in Moving(i) |-> Delta(c)]
  <2>1. InFlight(i) = SumFunctionOnSet(f, {})
    BY <1>1 DEF InFlight, SumFunction
  <2>. HIDE DEF f
  <2>. QED
    BY <2>1, SumEmpty
<1>. QED
  BY <1>2, InventoryAssumption DEF Accounted, Init

LEMMA NextKeepsAccount == IInv /\ StockAccounted /\ [Next]_vars => StockAccounted'
<1> SUFFICES ASSUME IInv, StockAccounted, [Next]_vars PROVE StockAccounted'
  OBVIOUS
<1>1. ASSUME NEW c \in Calls, Step(c) PROVE StockAccounted'
  BY <1>1, SellKeepsAccount, SaveKeepsAccount, LogKeepsAccount, EditKeepsAccount,
     RestKeepsAccount DEF Step
<1>2. CASE UNCHANGED vars
  <2>1. UNCHANGED <<pc, line, seen, stock, logged, raced, unlogged>>
    BY <1>2 DEF vars, call, items, past
  <2>2. \A c \in Calls : CurrentLine(c)' = CurrentLine(c) /\ Delta(c)' = Delta(c)
    BY <2>1 DEF CurrentLine, Delta, Edited
  <2>3. ASSUME NEW i \in Items PROVE InFlight(i)' = InFlight(i)
    <3>1. Moving(i)' = Moving(i) /\ Moving(i) \subseteq Calls
      BY <2>1, <2>2 DEF Moving
    <3>2. [c \in Moving(i) |-> Delta(c)]' = [c \in Moving(i) |-> Delta(c)]
      BY <2>2, <3>1
    <3>. QED
      BY <3>2 DEF InFlight
  <2>. QED
    BY <2>1, <2>3 DEF StockAccounted, Accounted
<1>. QED
  BY <1>1, <1>2 DEF Next, AllEnded

\* The movements account for the stock of every item, except where a save
\* overwrote a change it had not read, a call died before its movement, or an
\* operation wrote one of the two alone.
THEOREM MovementsAccount == Spec => []StockAccounted
BY InitAccounted, NextKeepsAccount, Invariant, PTL DEF Spec
=============================================================================
