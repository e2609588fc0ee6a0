----------------------------- MODULE Inventory -----------------------------
(***************************************************************************)
(* The stock outside checkout: the inventory service's adjustments,        *)
(* reservations, releases and movements, the product page's edits, the     *)
(* administrator's direct ones, and the orders service's status changes    *)
(* and cancellations, next to the sales that Checkout makes atomic         *)
(* (AtomicOrders).                                                         *)
(*                                                                         *)
(* Each of them reads a document, computes, saves, and then writes an      *)
(* InventoryMovement, in separate calls without a transaction.  A save     *)
(* writes only the fields the call changed and does not notice that the    *)
(* document has changed since it was read (Mongoose, external).  The page  *)
(* sends back the stock its form was opened with.                          *)
(*                                                                         *)
(* cancelOrder, reserveStock, releaseStock and createMovement are services *)
(* of this code without a route of their own.                              *)
(***************************************************************************)
EXTENDS Integers, Sequences, FiniteSetsExt

CONSTANTS
  Calls,         \* the calls
  CallSets,      \* bound: the sets of calls that may be made together
  Kind,          \* Kind[c]: the operation
  Items,         \* products and variants
  Variants,      \* those of Items that are variants
  Lines,         \* Lines[c]: items and quantities; an adjustment's and a
                 \* movement's may be negative, an edit's are thresholds
  InitialStock,
  Threshold,     \* the first lowStockThreshold (a variant's is 5 if it has none)
  Orders,
  OrderOf,       \* OrderOf[c]: the order c cancels or changes
  NewStatus      \* NewStatus[c]: the status updateStatus is asked for

Kinds == {"sale", "adjust", "reserve", "release", "set", "edit", "threshold",
          "movement", "cancel", "status"}

OneLine == {"adjust", "set", "edit", "threshold", "movement"}

Statuses == {"pending", "confirmed", "processing", "ready_for_delivery",
             "out_for_delivery", "delivered", "cancelled", "returned", "refunded"}

ASSUME InventoryAssumption ==
  /\ IsFiniteSet(Calls) /\ CallSets \subseteq SUBSET Calls
  /\ Kind \in [Calls -> Kinds]
  /\ Variants \subseteq Items
  /\ Lines \in [Calls -> Seq([item : Items, quantity : Int])]
  /\ \A c \in Calls :
       /\ Kind[c] \in OneLine => Len(Lines[c]) = 1
       /\ Kind[c] \in {"edit", "threshold"} => Lines[c][1].item \in Items \ Variants
       /\ Kind[c] \notin {"adjust", "movement"} =>
            \A k \in DOMAIN Lines[c] : Lines[c][k].quantity \in Nat
       /\ Kind[c] \in {"cancel", "status"} => OrderOf[c] \in Orders
       /\ Kind[c] = "status" => NewStatus[c] \in Statuses
  /\ InitialStock \in [Items -> Nat] /\ Threshold \in [Items -> Nat]

VARIABLES
  pc,          \* where each call is
  line,        \* index of the line it is at
  seen,        \* that line's document as the call read it
  seenOrder,   \* orderStatus as the call read it
  stock, status, threshold,   \* the stock documents
  logged,      \* sum of newStock - previousStock over the item's movements
  orderStatus, lastEntry,  \* the orders and the last entry of their statusHistory
  sold,        \* the sales that were placed
  \* History, for the properties.
  raced,       \* documents saved over a change their writer had not read
  reopened,    \* orders that updateStatus moved back out of a final status
  unlogged,    \* items whose stock was written without a movement, or the reverse
  unjudged,    \* products whose threshold was changed without their status
  restored     \* restored[o]: the cancellations that went on to restore stock

call  == <<pc, line, seen, seenOrder>>
items == <<stock, status, threshold, logged>>
order == <<orderStatus, lastEntry>>
past  == <<raced, reopened, unlogged, unjudged, restored>>
vars  == <<call, items, order, sold, past>>

-----------------------------------------------------------------------------

Final == {"delivered", "cancelled", "returned", "refunded"}

Working == {"sell", "look", "write", "judge", "note", "order", "saveorder",
            "read", "save", "log"}
Ended   == {"done", "rejected", "failed"}

StatusFor(t, n) ==
  IF n = 0 THEN "out_of_stock" ELSE IF n <= t THEN "low_stock" ELSE "in_stock"

Document(i) == [stock |-> stock[i], status |-> status[i], threshold |-> threshold[i]]

\* The first step of each operation.
Entry(c) ==
  CASE Kind[c] = "sale" -> "sell"
    [] Kind[c] \in {"set", "edit"} -> "look"
    [] Kind[c] = "threshold" -> "judge"
    [] Kind[c] = "movement" -> "note"
    [] Kind[c] \in {"cancel", "status"} -> "order"
    [] OTHER -> IF Lines[c] = <<>> THEN "done" ELSE "read"

Init ==
  /\ \E made \in CallSets : pc = [c \in Calls |-> IF c \in made THEN Entry(c) ELSE "done"]
  /\ line = [c \in Calls |-> 1]
  /\ seen = [c \in Calls |-> [stock |-> 0, status |-> "in_stock", threshold |-> 0]]
  /\ seenOrder = [c \in Calls |-> "pending"]
  /\ stock = InitialStock
  /\ threshold = Threshold
  /\ status = [i \in Items |-> StatusFor(Threshold[i], InitialStock[i])]
  /\ logged = [i \in Items |-> 0]
  /\ orderStatus = [o \in Orders |-> "pending"]
  /\ lastEntry = [o \in Orders |-> "pending"]
  /\ sold = {}
  /\ raced = {}
  /\ reopened = {}
  /\ unlogged = {}
  /\ unjudged = {}
  /\ restored = [o \in Orders |-> {}]

Goto(c, label) == pc' = [pc EXCEPT ![c] = label]

CurrentLine(c) == Lines[c][line[c]]

-----------------------------------------------------------------------------
(* Sales and direct edits.                                                 *)

\* A sale takes its lines at once or nothing, as Checkout implements it.
Sales == INSTANCE AtomicOrders
  WITH Requests <- Calls, placed <- sold,
       KeyOf <- [c \in Calls |-> "none"], NoKey <- "none"

Sell(c) ==
  /\ pc[c] = "sell"
  /\ \/ /\ Sales!PlaceOrder(c)
        /\ logged' = [i \in Items |-> logged[i] - Sales!Quantity(c, i)]
        /\ status' = [i \in Items |->
             IF i \in Variants \/ Sales!Quantity(c, i) = 0 THEN status[i]
             ELSE StatusFor(threshold[i], stock'[i])]
        /\ Goto(c, "done")
        /\ UNCHANGED threshold
     \/ /\ \E i \in Items : Sales!Quantity(c, i) > stock[i]
        /\ Goto(c, "rejected")
        /\ UNCHANGED <<items, sold>>
  /\ UNCHANGED <<line, seen, seenOrder, order, past>>

\* updateStock has found the document; or the product page has opened its
\* form, which shows the stock and the threshold.
Look(c) ==
  /\ pc[c] = "look"
  /\ seen' = [seen EXCEPT ![c] = Document(CurrentLine(c).item)]
  /\ Goto(c, "write")
  /\ UNCHANGED <<line, seenOrder, items, order, sold, past>>

\* The stock and the threshold of the status: updateStock has the first from
\* its caller, an edit the second.
Given(c) ==
  IF Kind[c] = "set" THEN [stock |-> CurrentLine(c).quantity, threshold |-> seen[c].threshold]
  ELSE [stock |-> seen[c].stock, threshold |-> CurrentLine(c).quantity]

\* updateStock of products and of variants, and update of a product with all
\* the fields of the form: the stock is overwritten, for a product with its
\* status, and no movement is written.
WriteStock(c) ==
  /\ pc[c] = "write"
  /\ LET i == CurrentLine(c).item
         new == Given(c)
     IN /\ stock' = [stock EXCEPT ![i] = new.stock]
        /\ status' = [status EXCEPT ![i] =
             IF i \in Variants THEN @ ELSE StatusFor(new.threshold, new.stock)]
        /\ threshold' = [threshold EXCEPT ![i] =
             IF Kind[c] = "edit" THEN new.threshold ELSE @]
        /\ unlogged' = unlogged \cup {i}
        /\ raced' = IF threshold'[i] = new.threshold THEN raced ELSE raced \cup {i}
  /\ Goto(c, "done")
  /\ UNCHANGED <<line, seen, seenOrder, logged, order, sold, reopened, unjudged, restored>>

\* update of a product with a threshold and no stock leaves the status.
SetThreshold(c) ==
  /\ pc[c] = "judge"
  /\ LET i == CurrentLine(c).item
     IN /\ threshold' = [threshold EXCEPT ![i] = CurrentLine(c).quantity]
        /\ unjudged' = unjudged \cup {i}
  /\ Goto(c, "done")
  /\ UNCHANGED <<line, seen, seenOrder, stock, status, logged, order, sold,
                 raced, reopened, unlogged, restored>>

\* createMovement writes a movement and leaves the stock.
CreateMovement(c) ==
  /\ pc[c] = "note"
  /\ LET i == CurrentLine(c).item
     IN /\ logged' = [logged EXCEPT ![i] = @ + CurrentLine(c).quantity]
        /\ unlogged' = unlogged \cup {i}
  /\ Goto(c, "done")
  /\ UNCHANGED <<line, seen, seenOrder, stock, status, threshold, order, sold,
                 raced, reopened, unjudged, restored>>

-----------------------------------------------------------------------------
(* Reading, saving, logging.                                               *)

\* The stock an operation computes from the stock n it read.
Edited(c, n) ==
  LET q == CurrentLine(c).quantity
  IN IF Kind[c] = "reserve" THEN Max({0, n - q}) ELSE n + q

\* Mutant of ReadItem: an adjustment is not checked.
ReadItemUnchecked(c) ==
  /\ pc[c] = "read"
  /\ LET i == CurrentLine(c).item
     IN seen' = [seen EXCEPT ![c] = Document(i)]
  /\ Goto(c, "save")
  /\ UNCHANGED <<line, seenOrder, items, order, sold, past>>

\* The document is read; an adjustment below zero is refused.
ReadItem(c) ==
  /\ pc[c] = "read"
  /\ LET i == CurrentLine(c).item
     IN /\ seen' = [seen EXCEPT ![c] = Document(i)]
        /\ Goto(c, IF Kind[c] = "adjust" /\ Edited(c, stock[i]) < 0
                   THEN "rejected" ELSE "save")
  /\ UNCHANGED <<line, seenOrder, items, order, sold, past>>

\* Mutant of WrittenStatus: the status is computed from the stock that was read.
StatusOfRead(c) ==
  LET i == CurrentLine(c).item
      old == StatusFor(seen[c].threshold, seen[c].stock)
  IN IF old # seen[c].status THEN old ELSE status[i]

\* The status a save leaves: restoring a variant does not set it, and a
\* status that is what was read is not written.
WrittenStatus(c) ==
  LET i == CurrentLine(c).item
      new == StatusFor(seen[c].threshold, Edited(c, seen[c].stock))
  IN IF (Kind[c] = "cancel" /\ i \in Variants) \/ new = seen[c].status
     THEN status[i] ELSE new

\* The document is saved; a stock that is what was read is not written.
SaveItem(c) ==
  /\ pc[c] = "save"
  /\ LET i == CurrentLine(c).item
         new == Edited(c, seen[c].stock)
     IN /\ stock' = [stock EXCEPT ![i] = IF new = seen[c].stock THEN @ ELSE new]
        /\ status' = [status EXCEPT ![i] = WrittenStatus(c)]
        /\ raced' = IF Document(i) = seen[c] THEN raced ELSE raced \cup {i}
  /\ Goto(c, "log")
  /\ UNCHANGED <<line, seen, seenOrder, threshold, logged, order, sold,
                 reopened, unlogged, unjudged, restored>>

\* What the movement of the current line adds to the log.
Delta(c) == Edited(c, seen[c].stock) - seen[c].stock

\* Mutant of LogMovement: the quantity asked for is logged, not the change made.
LogQuantity(c) ==
  /\ pc[c] = "log"
  /\ logged' = [logged EXCEPT ![CurrentLine(c).item] = @ + IF Kind[c] = "reserve" THEN -CurrentLine(c).quantity ELSE CurrentLine(c).quantity]
  /\ line' = [line EXCEPT ![c] = @ + 1]
  /\ Goto(c, IF line[c] = Len(Lines[c]) THEN "done" ELSE "read")
  /\ UNCHANGED <<seen, seenOrder, stock, status, threshold, order, sold, past>>

\* The movement is written, and the next line is next.
LogMovement(c) ==
  /\ pc[c] = "log"
  /\ logged' = [logged EXCEPT ![CurrentLine(c).item] = @ + Delta(c)]
  /\ line' = [line EXCEPT ![c] = @ + 1]
  /\ Goto(c, IF line[c] = Len(Lines[c]) THEN "done" ELSE "read")
  /\ UNCHANGED <<seen, seenOrder, stock, status, threshold, order, sold, past>>

-----------------------------------------------------------------------------
(* Orders.                                                                 *)

\* Mutant of Cancellable: delivered orders only are refused.
NotDelivered(s) == s # "delivered"

\* cancelOrder refuses an order in a final status.
Cancellable(s) == s \notin Final

ReadOrder(c) ==
  /\ pc[c] = "order"
  /\ seenOrder' = [seenOrder EXCEPT ![c] = orderStatus[OrderOf[c]]]
  /\ Goto(c, IF Kind[c] = "cancel" /\ ~Cancellable(orderStatus[OrderOf[c]])
             THEN "rejected" ELSE "saveorder")
  /\ UNCHANGED <<line, seen, items, order, sold, past>>

Target(c) == IF Kind[c] = "cancel" THEN "cancelled" ELSE NewStatus[c]

\* The entry is pushed and the status set, unless it is the one that was
\* read.  A cancellation goes on to restore the stock line by line.
SaveOrder(c) ==
  /\ pc[c] = "saveorder"
  /\ LET o == OrderOf[c]
     IN /\ lastEntry' = [lastEntry EXCEPT ![o] = Target(c)]
        /\ orderStatus' = [orderStatus EXCEPT ![o] =
             IF Target(c) = seenOrder[c] THEN @ ELSE Target(c)]
        /\ raced' = IF orderStatus[o] = seenOrder[c] THEN raced ELSE raced \cup {o}
        /\ reopened' = IF orderStatus[o] \in Final /\ Target(c) \notin Final
                       THEN reopened \cup {o} ELSE reopened
        /\ restored' = [restored EXCEPT ![o] =
             IF Kind[c] = "cancel" THEN @ \cup {c} ELSE @]
  /\ Goto(c, IF Kind[c] = "cancel" /\ Lines[c] # <<>> THEN "read" ELSE "done")
  /\ UNCHANGED <<line, seen, seenOrder, items, sold, unlogged, unjudged>>

\* A database call fails, or the process dies.
Fail(c) ==
  /\ pc[c] \in Working
  /\ Goto(c, "failed")
  /\ unlogged' = IF pc[c] = "log" THEN unlogged \cup {CurrentLine(c).item} ELSE unlogged
  /\ UNCHANGED <<line, seen, seenOrder, items, order, sold, raced, reopened,
                 unjudged, restored>>

-----------------------------------------------------------------------------

Step(c) ==
  \/ Sell(c) \/ Look(c) \/ WriteStock(c) \/ SetThreshold(c) \/ CreateMovement(c)
  \/ ReadItem(c) \/ SaveItem(c) \/ LogMovement(c)
  \/ ReadOrder(c) \/ SaveOrder(c) \/ Fail(c)

AllEnded == (\A c \in Calls : pc[c] \in Ended) /\ UNCHANGED vars

Next == (\E c \in Calls : Step(c)) \/ AllEnded

Spec == Init /\ [][Next]_vars

-----------------------------------------------------------------------------
(* Properties.                                                             *)

StockStatuses == {"out_of_stock", "low_stock", "in_stock"}

\* The stock is never negative, although it is checked on an earlier read.
TypeOK ==
  /\ pc \in [Calls -> Working \cup Ended]
  /\ line \in [Calls -> Nat \ {0}]
  /\ seen \in [Calls -> [stock : Nat, status : StockStatuses, threshold : Nat]]
  /\ seenOrder \in [Calls -> Statuses]
  /\ stock \in [Items -> Nat]
  /\ status \in [Items -> StockStatuses] /\ threshold \in [Items -> Nat]
  /\ logged \in [Items -> Int]
  /\ orderStatus \in [Orders -> Statuses] /\ lastEntry \in [Orders -> Statuses]
  /\ sold \subseteq Calls
  /\ raced \subseteq Items \cup Orders /\ reopened \subseteq Orders
  /\ unlogged \subseteq Items /\ unjudged \subseteq Items
  /\ restored \in [Orders -> SUBSET Calls]

\* The calls that have saved i and not yet logged it.
Moving(i) == {c \in Calls : pc[c] = "log" /\ CurrentLine(c).item = i}

\* Movements that are saved in the stock and not yet in the log.
InFlight(i) == SumFunction([c \in Moving(i) |-> Delta(c)])

Accounted(i) == stock[i] = InitialStock[i] + logged[i] + InFlight(i)

\* The movements account for the stock of every item except where a save
\* overwrote a change it had not read, a call died before its movement, or
\* updateStock, the product page or createMovement was used: nothing else
\* loses track of stock.
StockAccounted == \A i \in Items \ (raced \cup unlogged) : Accounted(i)

\* A product's status is that of its stock and threshold, whoever wrote
\* either, except after such an overwrite and when the threshold was changed
\* alone, which leaves the status to the next change of the stock.
StatusFresh ==
  \A i \in Items \ (Variants \cup raced \cup unjudged) :
    status[i] = StatusFor(threshold[i], stock[i])

\* The history of an order ends in its status, and its stock is restored by
\* one cancellation at most, except after such an overwrite or when the
\* order was moved back out of a final status.
CancelledOnce ==
  \A o \in Orders \ raced :
    /\ lastEntry[o] = orderStatus[o]
    /\ o \notin reopened => Cardinality(restored[o]) <= 1

\* "Inventory management with stock movement tracking" (README.md): the
\* movements account for the stock wherever each writer wrote its movement.
StockTracked == \A i \in Items \ unlogged : Accounted(i)

=============================================================================
