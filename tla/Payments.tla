------------------------------ MODULE Payments ------------------------------
(***************************************************************************)
(* The payments of one order: what the payments service stores of them and *)
(* of the order's payment status, call by call.                            *)
(*                                                                         *)
(* A call reads a payment or the order, works on its copy and saves it;    *)
(* saving writes only the fields the copy changed and checks no version.   *)
(* The payment and the order are two documents saved one after the other   *)
(* with no transaction: other calls run in between, and the server may     *)
(* stop there.  No provider ever verifies a payment and a webhook only     *)
(* checks its signature, so a payment is paid when an administrator says   *)
(* so (markAsPaid).                                                        *)
(***************************************************************************)
EXTENDS Integers, Sequences, FiniteSets

CONSTANTS
  Calls,         \* call slots: how many can be under way at once
  Methods,       \* payment methods; each has a provider
  MayFail,       \* the ones whose provider is asked over the network
  MaxNow,        \* bound: milliseconds of the clock in references
  MaxCalls       \* bound: calls made

ASSUME PaymentsAssumption ==
  /\ IsFiniteSet(Calls)
  /\ Methods # {} /\ MayFail \subseteq Methods
  /\ MaxNow \in Nat /\ MaxCalls \in Nat

VARIABLES
  order,      \* [status, payment]: orderStatus and paymentStatus of the order
  payments,   \* its payments in the order findOne meets them
  call,       \* per slot: the operation and what it has read
  now,        \* the clock references are made from
  made,       \* calls made so far
  peak,       \* history: most session calls ever under way at once
  given,      \* history: the reference last answered; NoReference before
  settled     \* history: the payment of the last status change that ran alone

vars == <<order, payments, call, now, made, peak, given, settled>>

NoReference == <<>>

PaymentStatuses ==
  {"pending", "under_review", "paid", "partially_refunded", "refunded"}
Refunds == {"partially_refunded", "refunded"}

\* What an administrator's call can make of a payment.
Targets == {"paid", "under_review"} \cup Refunds

Idle == [do |-> "none", at |-> "idle"]
Under(do) == {c \in Calls : call[c].do = do}
StatusCalls == Under("mark") \cup Under("refund")

Init ==
  /\ order = [status |-> "open", payment |-> "unpaid"]
  /\ payments = <<>>
  /\ call = [c \in Calls |-> Idle]
  /\ now = 0 /\ made = 0 /\ peak = 0 /\ given = NoReference /\ settled = 0

Tick == now < MaxNow /\ now' = now + 1
        /\ UNCHANGED <<order, payments, call, made, peak, given, settled>>

-----------------------------------------------------------------------------
(* createPaymentSession: read the order and refuse, ask the provider, look *)
(* for a payment of the order, and overwrite that one or create one.       *)

MayOpen(o) == o.status \notin {"cancelled", "returned"} /\ o.payment # "paid"

OpenSession(c) ==
  /\ call[c] = Idle /\ made < MaxCalls
  /\ made' = made + 1
  /\ MayOpen(order)
  /\ \E m \in Methods :
       call' = [call EXCEPT ![c] = [do |-> "session", at |-> "provider",
                                    method |-> m]]
  /\ peak' = LET n == Cardinality(Under("session")) + 1
             IN  IF n > peak THEN n ELSE peak
  /\ UNCHANGED <<order, payments, now, given, settled>>

\* The reference: prefix of the provider, order number, milliseconds.
AskProvider(c) ==
  /\ call[c].do = "session" /\ call[c].at = "provider"
  /\ \/ call' = [call EXCEPT ![c] =
                   [do |-> "session", at |-> "find", method |-> @.method,
                    reference |-> <<@.method, now>>]]
     \/ call[c].method \in MayFail /\ call' = [call EXCEPT ![c] = Idle]
  /\ UNCHANGED <<order, payments, now, made, peak, given, settled>>

\* Mutant of Existing: looked up by the reference just made.
ExistingByReference(ref) ==
  {i \in DOMAIN payments : payments[i].reference = ref}

\* findOne by order: the first payment there is.
Existing(ref) == {i \in {1} : payments # <<>>}

FindPayment(c) ==
  /\ call[c].do = "session" /\ call[c].at = "find"
  /\ LET found == Existing(call[c].reference)
     IN  call' = [call EXCEPT ![c] =
                    [do |-> "session", at |-> "save", method |-> @.method,
                     reference |-> @.reference,
                     copy |-> {[on |-> i, reference |-> payments[i].reference,
                                method |-> payments[i].method] : i \in found}]]
  /\ UNCHANGED <<order, payments, now, made, peak, given, settled>>

\* Mutant of Overwritten: a new session makes the payment pending again.
OverwrittenAndReset(p, k, ref, m) ==
  [p EXCEPT !.reference = ref, !.method = m, !.status = "pending"]

\* Mutant of Overwritten: the reference is only stored on creation.
OverwrittenMethodOnly(p, k, ref, m) == [p EXCEPT !.method = m]

\* The fields that differ from the copy k are written.  The status is left as
\* it is, whatever it is.
Overwritten(p, k, ref, m) ==
  [p EXCEPT !.reference = IF ref # k.reference THEN ref ELSE @,
            !.method = IF m # k.method THEN m ELSE @]

SaveSession(c) ==
  /\ call[c].do = "session" /\ call[c].at = "save"
  /\ LET ref == call[c].reference  m == call[c].method  copy == call[c].copy
         taken == \E j \in DOMAIN payments :
                    payments[j].reference = ref /\ \A k \in copy : k.on # j
     IN  IF taken THEN UNCHANGED <<payments, given>>    \* the index refuses
         ELSE /\ \/ /\ copy = {}
                    /\ payments' = Append(payments, [status |-> "pending",
                                          reference |-> ref, method |-> m])
                 \/ \E k \in copy : payments' =
                      [payments EXCEPT ![k.on] = Overwritten(@, k, ref, m)]
              /\ given' = ref
  /\ call' = [call EXCEPT ![c] = Idle]
  /\ UNCHANGED <<order, now, made, peak, settled>>

-----------------------------------------------------------------------------
(* markAsPaid, markAsUnderReview and processRefund: read the payment, then *)
(* save the two documents.  A mark saves the payment first, a refund the   *)
(* order.  No status is asked for before: anything can become anything.    *)

StartStatusCall(c) ==
  /\ call[c] = Idle /\ made < MaxCalls
  /\ made' = made + 1
  /\ \E i \in DOMAIN payments, t \in Targets :
       call' = [d \in Calls |->
                  IF d = c
                  THEN [do |-> IF t \in Refunds THEN "refund" ELSE "mark",
                        at |-> IF t \in Refunds THEN "order" ELSE "payment",
                        on |-> i, to |-> t, saw |-> payments[i].status,
                        alone |-> StatusCalls = {}]
                  ELSE IF d \in StatusCalls THEN [call[d] EXCEPT !.alone = FALSE]
                  ELSE call[d]]
  /\ settled' = 0
  /\ UNCHANGED <<order, payments, now, peak, given>>

\* An administrator's call ends; alone, it leaves the two in agreement.
Finish(c) ==
  /\ call' = [call EXCEPT ![c] = Idle]
  /\ settled' = IF call[c].alone THEN call[c].on ELSE 0

SavePayment(c) ==
  /\ c \in StatusCalls /\ call[c].at = "payment"
  /\ payments' = IF call[c].to = call[c].saw THEN payments
                 ELSE [payments EXCEPT ![call[c].on].status = call[c].to]
  /\ IF call[c].do = "refund" THEN Finish(c)
     ELSE /\ call' = [call EXCEPT ![c].at = "order"]
          /\ UNCHANGED settled
  /\ UNCHANGED <<order, now, made, peak, given>>

(* ordersService.findById and save: the order is read afresh.  Its two     *)
(* steps are one here, as the field is written whatever was read unless it *)
(* is there already, and only these calls write it.                        *)
SaveOrder(c) ==
  /\ c \in StatusCalls /\ call[c].at = "order"
  /\ order' = [order EXCEPT !.payment = call[c].to]
  /\ IF call[c].do = "mark" THEN Finish(c)
     ELSE /\ call' = [call EXCEPT ![c].at = "payment"]
          /\ UNCHANGED settled
  /\ UNCHANGED <<payments, now, made, peak, given>>

-----------------------------------------------------------------------------
(* The orders service changes the status of the order (cancelOrder,        *)
(* updateStatus) and leaves its payment alone.                             *)
ChangeOrderStatus ==
  /\ \E s \in {"open", "cancelled", "returned"} \ {order.status} :
       order' = [order EXCEPT !.status = s]
  /\ UNCHANGED <<payments, call, now, made, peak, given, settled>>

\* The server stops: every call under way ends where it is.
Restart ==
  /\ \E c \in Calls : call[c] # Idle
  /\ call' = [c \in Calls |-> Idle]
  /\ UNCHANGED <<order, payments, now, made, peak, given, settled>>

Next ==
  \/ Tick \/ ChangeOrderStatus \/ Restart
  \/ \E c \in Calls :
       OpenSession(c) \/ AskProvider(c) \/ FindPayment(c) \/ SaveSession(c)
         \/ StartStatusCall(c) \/ SavePayment(c) \/ SaveOrder(c)

Spec == Init /\ [][Next]_vars

-----------------------------------------------------------------------------
References == Methods \X (0..MaxNow)

CallType ==
  {Idle}
  \cup [do : {"session"}, at : {"provider"}, method : Methods]
  \cup [do : {"session"}, at : {"find"}, method : Methods,
        reference : References]
  \cup [do : {"session"}, at : {"save"}, method : Methods,
        reference : References, copy : SUBSET [on : DOMAIN payments,
                               reference : References, method : Methods]]
  \cup [do : {"mark", "refund"}, at : {"payment", "order"},
        on : DOMAIN payments, to : Targets, saw : PaymentStatuses,
        alone : BOOLEAN]

(* Every payment and every call is well formed, and an order has no more   *)
(* payments than session calls that were once under way together: the      *)
(* service looks for one and creates one in two steps, and a later call    *)
(* takes over the one there is (payments.service.ts:66).                   *)
TypeOK ==
  /\ order \in [status : {"open", "cancelled", "returned"},
                payment : {"unpaid"} \cup Targets]
  /\ payments \in Seq([status : PaymentStatuses, reference : References,
                       method : Methods])
  /\ Len(payments) <= peak
  /\ call \in [Calls -> CallType]
  /\ now \in 0..MaxNow /\ made \in 0..MaxCalls
  /\ peak \in 0..Cardinality(Calls)
  /\ given \in {NoReference} \cup References
  /\ settled \in {0} \cup DOMAIN payments

(* After an administrator's call that ran alone, the payment it was about  *)
(* and the order tell the same status, whatever an earlier call that was   *)
(* cut short or overlapped left behind, and no payment session started     *)
(* since changes that (markAsPaid, markAsUnderReview, processRefund against *)
(* createPaymentSession).                                                  *)
StatusesAgree ==
  settled # 0 => payments[settled].status = order.payment

(* As long as no two session calls overlapped, the reference last answered *)
(* to the customer is stored, with the method it is a reference of: asking *)
(* for its status finds the payment.                                       *)
GivenReferenceStored ==
  peak <= 1 /\ given # NoReference =>
    \E i \in DOMAIN payments :
      payments[i].reference = given /\ payments[i].method = given[1]
=============================================================================
