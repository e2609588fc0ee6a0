--------------------------- MODULE PaymentsProofs ---------------------------
(***************************************************************************)
(* Proofs about Payments: its types, with the bound on the payments of an  *)
(* order, the agreement of the two statuses, and the stored reference, for *)
(* any number of calls and methods.                                        *)
(***************************************************************************)
EXTENDS Payments, FiniteSetTheorems, TLAPS

\* The session calls that found no payment and are about to create one.
Creators == {c \in Calls : call[c].do = "session" /\ call[c].at = "save"
                             /\ call[c].copy = {}}

\* TypeOK without its bounds on the number of payments.
Types ==
  /\ order \in [status : {"open", "cancelled", "returned"},
                payment : {"unpaid"} \cup Targets]
  /\ payments \in Seq([status : PaymentStatuses, reference : References,
                       method : Methods])
  /\ call \in [Calls -> CallType]
  /\ now \in 0..MaxNow /\ made \in 0..MaxCalls
  /\ peak \in Nat
  /\ given \in {NoReference} \cup References
  /\ settled \in {0} \cup DOMAIN payments

\* How far a status call that has run alone so far has come: a mark at
\* "order" has written the payment, a refund at "payment" the order.
Halfway(c) ==
  LET marked == call[c].do = "mark" /\ call[c].at = "order"
  IN  /\ StatusCalls = {c}
      /\ payments[call[c].on].status = IF marked THEN call[c].to ELSE call[c].saw
      /\ call[c].do = "refund" /\ call[c].at = "payment" =>
           order.payment = call[c].to

\* The inductive strengthening of StatusesAgree.
AgreeInv ==
  /\ settled # 0 => StatusCalls = {} /\ payments[settled].status = order.payment
  /\ \A c \in StatusCalls : call[c].alone => Halfway(c)

\* The inductive strengthening of the bounds in TypeOK: a call about to create
\* a payment is counted as if it had.
PeakInv ==
  /\ Len(payments) + Cardinality(Creators) <= peak
  /\ Cardinality(Under("session")) <= peak
  /\ peak <= Cardinality(Calls)

-----------------------------------------------------------------------------
(* The steps of the specification, for the proofs of invariants.           *)
LEMMA NextCases ==
  ASSUME Next
  PROVE  \/ Tick \/ ChangeOrderStatus \/ Restart
         \/ \E c \in Calls :
              \/ OpenSession(c) \/ AskProvider(c) \/ FindPayment(c)
              \/ SaveSession(c) \/ StartStatusCall(c)
              \/ SavePayment(c) \/ SaveOrder(c)
  BY DEF Next

\* What a call is, by what it does and where it is.
LEMMA CallKinds ==
  ASSUME Types, NEW c \in Calls
  PROVE  /\ call[c].do = "session" /\ call[c].at = "find" =>
              call[c].method \in Methods /\ call[c].reference \in References
         /\ call[c].do = "session" /\ call[c].at = "save" =>
              /\ call[c].method \in Methods /\ call[c].reference \in References
              /\ call[c].copy \subseteq [on : DOMAIN payments, reference : References,
                                        method : Methods]
         /\ c \in StatusCalls =>
              call[c] \in [do : {"mark", "refund"}, at : {"payment", "order"},
                          on : DOMAIN payments, to : Targets,
                          saw : PaymentStatuses, alone : BOOLEAN]
  BY DEF Types, CallType, Idle, StatusCalls, Under

PaymentType == [status : PaymentStatuses, reference : References,
                method : Methods]

LEMMA PaymentAt ==
  ASSUME Types, NEW i \in DOMAIN payments
  PROVE  payments[i] \in PaymentType
<1>1. payments \in Seq(PaymentType)
  BY DEF Types, PaymentType
<1>. QED
  BY <1>1

\* The payments stay well formed when one is added or one is replaced.
LEMMA PaymentsGrow ==
  ASSUME payments \in Seq(PaymentType), NEW p \in PaymentType
  PROVE  /\ Append(payments, p) \in Seq(PaymentType)
         /\ Len(Append(payments, p)) = Len(payments) + 1
         /\ DOMAIN payments \subseteq DOMAIN Append(payments, p)
         /\ \A i \in DOMAIN payments :
              /\ Append(payments, p)[i] = payments[i]
              /\ [payments EXCEPT ![i] = p] \in Seq(PaymentType)
              /\ DOMAIN [payments EXCEPT ![i] = p] = DOMAIN payments
              /\ Len([payments EXCEPT ![i] = p]) = Len(payments)
  OBVIOUS

\* A call stays well formed while payments are only added.
LEMMA CallTypeGrows ==
  ASSUME DOMAIN payments \subseteq DOMAIN payments'
  PROVE  CallType \subseteq CallType'
  BY DEF CallType

\* What a session call leaves in the payments: one more, or one replaced with
\* its status as it was.
LEMMA SessionSaves ==
  ASSUME Types, NEW c \in Calls, SaveSession(c)
  PROVE  /\ payments' \in Seq(PaymentType)
         /\ given' \in {NoReference} \cup References
         /\ DOMAIN payments \subseteq DOMAIN payments'
         /\ \A i \in DOMAIN payments : payments'[i].status = payments[i].status
         /\ \/ Len(payments') = Len(payments)
            \/ c \in Creators /\ Len(payments') = Len(payments) + 1
<1> DEFINE ref == call[c].reference  m == call[c].method
<1>1. /\ m \in Methods /\ ref \in References
      /\ call[c].copy \subseteq [on : DOMAIN payments, reference : References, method : Methods]
      /\ payments \in Seq(PaymentType) /\ given \in {NoReference} \cup References
  BY CallKinds DEF SaveSession, Types, PaymentType
<1>2. CASE UNCHANGED <<payments, given>>
  BY <1>1, <1>2
<1>3. CASE /\ call[c].copy = {} /\ given' = ref
           /\ payments' = Append(payments, [status |-> "pending",
                                            reference |-> ref, method |-> m])
  <2>1. [status |-> "pending", reference |-> ref, method |-> m] \in PaymentType
    BY <1>1 DEF PaymentType, PaymentStatuses
  <2>2. c \in Creators
    BY <1>3 DEF SaveSession, Creators
  <2>. QED
    BY <1>1, <1>3, <2>1, <2>2, PaymentsGrow
<1>4. ASSUME NEW k \in call[c].copy, given' = ref,
             payments' = [payments EXCEPT ![k.on] = Overwritten(@, k, ref, m)]
      PROVE  /\ payments' \in Seq(PaymentType)
             /\ given' \in {NoReference} \cup References
             /\ DOMAIN payments = DOMAIN payments'
             /\ Len(payments') = Len(payments)
             /\ \A i \in DOMAIN payments : payments'[i].status = payments[i].status
  <2>1. k.on \in DOMAIN payments /\ payments[k.on] \in PaymentType
    BY <1>1
  <2>2. /\ Overwritten(payments[k.on], k, ref, m) \in PaymentType
        /\ Overwritten(payments[k.on], k, ref, m).status = payments[k.on].status
    BY <1>1, <2>1 DEF Overwritten, PaymentType
  <2>. HIDE DEF ref, m
  <2>. QED
    BY <1>1, <1>4, <2>1, <2>2
<1>. QED
  BY <1>2, <1>3, <1>4 DEF SaveSession

LEMMA TypesHold == Spec => []Types
<1>. USE PaymentsAssumption DEF Types, Targets, Refunds, PaymentStatuses,
                                References, NoReference
<1>1. Init => Types
  BY DEF Init, CallType, Idle
<1>2. Types /\ [Next]_vars => Types'
  <2> SUFFICES ASSUME Types, [Next]_vars PROVE Types'
    OBVIOUS
  <2>1. CASE UNCHANGED vars
    BY <2>1 DEF vars, CallType
  <2>2. CASE Tick
    BY <2>2 DEF Tick, CallType
  <2>3. CASE ChangeOrderStatus
    BY <2>3 DEF ChangeOrderStatus, CallType
  <2>4. CASE Restart
    BY <2>4 DEF Restart, CallType, Idle
  <2>5. ASSUME NEW c \in Calls, OpenSession(c) PROVE Types'
    BY <2>5 DEF OpenSession, CallType
  <2>6. ASSUME NEW c \in Calls, AskProvider(c) PROVE Types'
    BY <2>6 DEF AskProvider, CallType, Idle
  <2>7. ASSUME NEW c \in Calls, FindPayment(c) PROVE Types'
    <3>1. call' \in [Calls -> CallType]
      <4> DEFINE found == Existing(call[c].reference)
                 copies == {[on |-> i, reference |-> payments[i].reference,
                             method |-> payments[i].method] : i \in found}
      <4>1. copies \subseteq [on : DOMAIN payments, reference : References, method : Methods]
        <5>1. ASSUME NEW i \in found
              PROVE  /\ i \in DOMAIN payments /\ payments[i].reference \in References
                     /\ payments[i].method \in Methods
          <6>1. i = 1 /\ payments # <<>> /\ payments \in Seq(PaymentType)
            BY <5>1 DEF Existing, PaymentType
          <6>2. i \in DOMAIN payments /\ payments[i] \in PaymentType
            BY <6>1
          <6>. QED
            BY <6>2 DEF PaymentType
        <5>. QED
          BY <5>1
      <4>2. call[c].method \in Methods /\ call[c].reference \in References
        BY <2>7, CallKinds DEF FindPayment
      <4>3. [do |-> "session", at |-> "save", method |-> call[c].method,
             reference |-> call[c].reference, copy |-> copies] \in CallType
        BY <4>1, <4>2 DEF CallType
      <4>. QED
        BY <2>7, <4>3 DEF FindPayment
    <3>. QED
      BY <2>7, <3>1 DEF FindPayment, CallType
  <2>8. ASSUME NEW c \in Calls, SaveSession(c) PROVE Types'
    <3>1. /\ payments' \in Seq(PaymentType) /\ given' \in {NoReference} \cup References
          /\ DOMAIN payments \subseteq DOMAIN payments'
      BY <2>8, SessionSaves
    <3>2. call' \in [Calls -> CallType']
      BY <2>8, <3>1, CallTypeGrows DEF SaveSession, CallType
    <3>. QED
      BY <2>8, <3>1, <3>2 DEF SaveSession, PaymentType
  <2>9. ASSUME NEW c \in Calls, StartStatusCall(c) PROVE Types'
    <3>1. call' \in [Calls -> CallType]
      <4>1. PICK i \in DOMAIN payments, t \in Targets :
              call' = [d \in Calls |->
                  IF d = c
                  THEN [do |-> IF t \in Refunds THEN "refund" ELSE "mark",
                        at |-> IF t \in Refunds THEN "order" ELSE "payment",
                        on |-> i, to |-> t, saw |-> payments[i].status,
                        alone |-> StatusCalls = {}]
                  ELSE IF d \in StatusCalls THEN [call[d] EXCEPT !.alone = FALSE]
                  ELSE call[d]]
        BY <2>9 DEF StartStatusCall
      <4>2. payments[i].status \in PaymentStatuses
        BY PaymentAt DEF PaymentType
      <4>3. call'[c] \in CallType
        <5>1. (StatusCalls = {}) \in BOOLEAN
          OBVIOUS
        <5>2. /\ (IF t \in Refunds THEN "refund" ELSE "mark") \in {"mark", "refund"}
              /\ (IF t \in Refunds THEN "order" ELSE "payment") \in {"payment", "order"}
          OBVIOUS
        <5>. HIDE DEF Types, Targets, PaymentStatuses, Refunds
        <5>. QED
          BY <4>1, <4>2, <5>1, <5>2 DEF CallType
      <4>4. ASSUME NEW d \in StatusCalls PROVE [call[d] EXCEPT !.alone = FALSE] \in CallType
        <5>1. call[d] \in [do : {"mark", "refund"}, at : {"payment", "order"},
                          on : DOMAIN payments, to : Targets,
                          saw : PaymentStatuses, alone : BOOLEAN]
          BY CallKinds DEF StatusCalls, Under
        <5>. HIDE DEF Types, Targets, PaymentStatuses
        <5>. QED
          BY <5>1 DEF CallType
      <4>5. ASSUME NEW d \in Calls PROVE call'[d] \in CallType
        <5>1. call[d] \in CallType
          OBVIOUS
        <5>. HIDE DEF Types
        <5>. QED
          BY <4>1, <4>3, <4>4, <5>1
      <4>. HIDE DEF Types
      <4>. QED
        BY <4>1, <4>5, Zenon
    <3>2. UNCHANGED <<order, payments, now, peak, given>> /\ settled' = 0
           /\ made' \in 0..MaxCalls
      BY <2>9 DEF StartStatusCall
    <3>3. CallType' = CallType
      BY <3>2 DEF CallType
    <3>. QED
      BY <3>1, <3>2, <3>3
  <2>10. ASSUME NEW c \in Calls, SavePayment(c) PROVE Types'
    <3>1. call[c] \in [do : {"mark", "refund"}, at : {"payment", "order"},
                      on : DOMAIN payments, to : Targets,
                      saw : PaymentStatuses, alone : BOOLEAN]
      BY <2>10, CallKinds DEF SavePayment, StatusCalls, Under
    <3>2. payments' \in Seq(PaymentType) /\ DOMAIN payments' = DOMAIN payments
      <4> DEFINE p == [payments[call[c].on] EXCEPT !.status = call[c].to]
      <4>1. payments \in Seq(PaymentType)
        BY DEF PaymentType
      <4>2. p \in PaymentType /\ call[c].on \in DOMAIN payments
        <5>1. call[c].on \in DOMAIN payments /\ call[c].to \in PaymentStatuses
          BY <3>1
        <5>2. payments[call[c].on] \in PaymentType
          BY <5>1, PaymentAt
        <5>. HIDE DEF Types, PaymentStatuses, References
        <5>. QED
          BY <5>1, <5>2 DEF PaymentType
      <4>3. \/ payments' = payments
            \/ payments' = [payments EXCEPT ![call[c].on] = p]
        BY <2>10 DEF SavePayment
      <4>. HIDE DEF p, Types
      <4>. QED
        BY <4>1, <4>2, <4>3, PaymentsGrow
    <3>3. call' \in [Calls -> CallType]
      <4>1. [call[c] EXCEPT !.at = "order"] \in CallType /\ Idle \in CallType
        BY <3>1 DEF CallType
      <4>. QED
        BY <2>10, <4>1 DEF SavePayment, Finish
    <3>4. CallType' = CallType
      BY <3>2 DEF CallType
    <3>5. settled' \in {0} \cup DOMAIN payments
      BY <2>10, <3>1 DEF SavePayment, Finish
    <3>. QED
      BY <2>10, <3>2, <3>3, <3>4, <3>5 DEF SavePayment, PaymentType
  <2>11. ASSUME NEW c \in Calls, SaveOrder(c) PROVE Types'
    <3>1. call[c] \in [do : {"mark", "refund"}, at : {"payment", "order"},
                      on : DOMAIN payments, to : Targets,
                      saw : PaymentStatuses, alone : BOOLEAN]
      BY <2>11, CallKinds DEF SaveOrder, StatusCalls, Under
    <3>2. call' \in [Calls -> CallType]
      <4>1. [call[c] EXCEPT !.at = "payment"] \in CallType /\ Idle \in CallType
        BY <3>1 DEF CallType
      <4>. QED
        BY <2>11, <4>1 DEF SaveOrder, Finish
    <3>3. settled' \in {0} \cup DOMAIN payments
      BY <2>11, <3>1 DEF SaveOrder, Finish
    <3>4. order' \in [status : {"open", "cancelled", "returned"},
                     payment : {"unpaid"} \cup Targets]
      BY <2>11, <3>1 DEF SaveOrder
    <3>. QED
      BY <2>11, <3>2, <3>3, <3>4 DEF SaveOrder, CallType
  <2>. QED
    BY <2>1, <2>2, <2>3, <2>4, <2>5, <2>6, <2>7, <2>8, <2>9, <2>10, <2>11,
       NextCases
<1>. QED
  BY <1>1, <1>2, PTL DEF Spec

-----------------------------------------------------------------------------
(* The agreement of the two documents.                                     *)

\* A step that is none of an administrator's calls.
LEMMA OtherStepAgrees ==
  ASSUME Types, AgreeInv,
         StatusCalls' = StatusCalls, \A d \in StatusCalls : call'[d] = call[d],
         settled' = settled, order'.payment = order.payment,
         \A i \in DOMAIN payments : payments'[i].status = payments[i].status
  PROVE  AgreeInv'
<1>1. settled # 0 => settled \in DOMAIN payments
  BY DEF Types
<1>2. ASSUME NEW c \in StatusCalls, call[c].alone PROVE Halfway(c)'
  <2>1. Halfway(c) /\ call'[c] = call[c] /\ call[c].on \in DOMAIN payments
    BY <1>2, CallKinds DEF AgreeInv, StatusCalls, Under
  <2>. QED
    BY <2>1 DEF Halfway
<1>. QED
  BY <1>1, <1>2 DEF AgreeInv

\* A slot that is about no status before and after a step.
LEMMA SlotStep ==
  ASSUME Types, NEW c \in Calls, c \notin StatusCalls, NEW e,
         e.do \notin {"mark", "refund"}, call' = [call EXCEPT ![c] = e]
  PROVE  StatusCalls' = StatusCalls /\ \A d \in StatusCalls : call'[d] = call[d]
<1>1. call \in [Calls -> CallType]
  BY DEF Types
<1>. QED
  BY <1>1 DEF StatusCalls, Under

\* An administrator's call ends.
LEMMA FinishAgrees ==
  ASSUME Types, AgreeInv, NEW c \in StatusCalls, Finish(c),
         call[c].alone => payments'[call[c].on].status = order'.payment
  PROVE  AgreeInv'
<1>1. c \in Calls /\ call \in [Calls -> CallType]
  BY DEF Types, StatusCalls, Under
<1>2. StatusCalls' = StatusCalls \ {c} /\ \A d \in StatusCalls' : call'[d] = call[d]
  BY <1>1 DEF Finish, StatusCalls, Under, Idle
<1>3. \A d \in StatusCalls : call[d].alone => StatusCalls = {d}
  BY DEF AgreeInv, Halfway
<1>4. \A d \in StatusCalls' : ~ call'[d].alone
  BY <1>2, <1>3
<1>5. settled' # 0 => call[c].alone /\ settled' = call[c].on
  BY DEF Finish
<1>. QED
  BY <1>2, <1>3, <1>4, <1>5 DEF AgreeInv

LEMMA AgreeHolds == Spec => []AgreeInv
<1>1. Init => AgreeInv
  BY DEF Init, AgreeInv, StatusCalls, Under, Idle
<1>2. Types /\ AgreeInv /\ [Next]_vars => AgreeInv'
  <2> SUFFICES ASSUME Types, AgreeInv, [Next]_vars PROVE AgreeInv'
    OBVIOUS
  <2>0. call \in [Calls -> CallType]
    BY DEF Types
  <2>1. CASE UNCHANGED vars
    BY <2>1, OtherStepAgrees DEF vars, StatusCalls, Under
  <2>2. CASE Tick
    BY <2>2, OtherStepAgrees DEF Tick, StatusCalls, Under
  <2>3. CASE ChangeOrderStatus
    <3>1. order'.payment = order.payment
      BY <2>3 DEF ChangeOrderStatus, Types
    <3>. QED
      BY <2>3, <3>1, OtherStepAgrees DEF ChangeOrderStatus, StatusCalls, Under
  <2>4. CASE Restart
    <3>1. StatusCalls' = {}
      BY <2>4 DEF Restart, StatusCalls, Under, Idle
    <3>. QED
      BY <2>4, <3>1 DEF Restart, AgreeInv
  <2>5. ASSUME NEW c \in Calls, OpenSession(c) PROVE AgreeInv'
    <3>1. PICK m \in Methods : call' = [call EXCEPT ![c] =
              [do |-> "session", at |-> "provider", method |-> m]]
      BY <2>5 DEF OpenSession
    <3>2. c \notin StatusCalls
      BY <2>5 DEF OpenSession, StatusCalls, Under, Idle
    <3>. QED
      BY <2>5, <3>1, <3>2, SlotStep, OtherStepAgrees DEF OpenSession
  <2>6. ASSUME NEW c \in Calls, AskProvider(c) PROVE AgreeInv'
    <3>1. \/ call' = [call EXCEPT ![c] =
                   [do |-> "session", at |-> "find", method |-> call[c].method,
                    reference |-> <<call[c].method, now>>]]
          \/ call' = [call EXCEPT ![c] = Idle]
      BY <2>0, <2>6 DEF AskProvider
    <3>2. c \notin StatusCalls /\ Idle.do = "none"
      BY <2>6 DEF AskProvider, StatusCalls, Under, Idle
    <3>. QED
      BY <2>6, <3>1, <3>2, SlotStep, OtherStepAgrees DEF AskProvider
  <2>7. ASSUME NEW c \in Calls, FindPayment(c) PROVE AgreeInv'
    <3>1. PICK copies : call' = [call EXCEPT ![c] =
              [do |-> "session", at |-> "save", method |-> call[c].method,
               reference |-> call[c].reference, copy |-> copies]]
      BY <2>0, <2>7 DEF FindPayment
    <3>2. c \notin StatusCalls
      BY <2>7 DEF FindPayment, StatusCalls, Under
    <3>. QED
      BY <2>7, <3>1, <3>2, SlotStep, OtherStepAgrees DEF FindPayment
  <2>8. ASSUME NEW c \in Calls, SaveSession(c) PROVE AgreeInv'
    <3>1. \A i \in DOMAIN payments : payments'[i].status = payments[i].status
      BY <2>8, SessionSaves
    <3>2. c \notin StatusCalls /\ Idle.do = "none"
      BY <2>8 DEF SaveSession, StatusCalls, Under, Idle
    <3>3. StatusCalls' = StatusCalls /\ \A d \in StatusCalls : call'[d] = call[d]
      BY <2>8, <3>2, SlotStep DEF SaveSession
    <3>. QED
      BY <2>8, <3>1, <3>3, OtherStepAgrees DEF SaveSession
  <2>9. ASSUME NEW c \in Calls, StartStatusCall(c) PROVE AgreeInv'
    <3>1. PICK i \in DOMAIN payments, t \in Targets :
            call' = [d \in Calls |->
                IF d = c
                THEN [do |-> IF t \in Refunds THEN "refund" ELSE "mark",
                      at |-> IF t \in Refunds THEN "order" ELSE "payment",
                      on |-> i, to |-> t, saw |-> payments[i].status,
                      alone |-> StatusCalls = {}]
                ELSE IF d \in StatusCalls THEN [call[d] EXCEPT !.alone = FALSE]
                ELSE call[d]]
      BY <2>9 DEF StartStatusCall
    <3>2. ASSUME NEW d \in StatusCalls', d # c
          PROVE  d \in StatusCalls /\ ~ call'[d].alone
      <4>1. d \in Calls /\ call'[d].do \in {"mark", "refund"}
        BY DEF StatusCalls, Under
      <4>2. d \in StatusCalls
        BY <3>1, <3>2, <4>1 DEF StatusCalls, Under
      <4>3. call'[d] = [call[d] EXCEPT !.alone = FALSE]
        BY <3>1, <3>2, <4>1, <4>2
      <4>4. "alone" \in DOMAIN call[d]
        BY <4>2, CallKinds DEF StatusCalls, Under
      <4>. QED
        BY <4>2, <4>3, <4>4
    <3>3. ASSUME call'[c].alone PROVE Halfway(c)'
      <4>1. StatusCalls = {}
        BY <3>1, <3>3
      <4>2. StatusCalls' \subseteq {c}
        BY <3>2, <4>1
      <4>3. c \in StatusCalls'
        BY <3>1 DEF StatusCalls, Under
      <4>4. payments' = payments
        BY <2>9 DEF StartStatusCall
      <4>5. /\ call'[c].on = i /\ call'[c].saw = payments[i].status
            /\ ~(call'[c].do = "mark" /\ call'[c].at = "order")
            /\ ~(call'[c].do = "refund" /\ call'[c].at = "payment")
        BY <3>1
      <4>. QED
        BY <4>2, <4>3, <4>4, <4>5 DEF Halfway
    <3>4. settled' = 0
      BY <2>9 DEF StartStatusCall
    <3>. QED
      BY <3>2, <3>3, <3>4 DEF AgreeInv
  <2>10. ASSUME NEW c \in Calls, SavePayment(c) PROVE AgreeInv'
    <3> DEFINE i == call[c].on
    <3>1. /\ c \in StatusCalls /\ call[c].at = "payment"
          /\ i \in DOMAIN payments /\ payments[i] \in PaymentType
          /\ "at" \in DOMAIN call[c] /\ call[c].do \in {"mark", "refund"}
      BY <2>10, CallKinds, PaymentAt DEF SavePayment
    <3>2. call[c].alone => Halfway(c) /\ payments[i].status = call[c].saw
      BY <3>1 DEF AgreeInv, Halfway
    <3>3. call[c].alone => payments'[i].status = call[c].to
      <4>1. \/ payments' = payments /\ call[c].to = call[c].saw
            \/ payments' = [payments EXCEPT ![i].status = call[c].to]
        BY <2>10 DEF SavePayment
      <4>2. "status" \in DOMAIN payments[i]
        BY <3>1 DEF PaymentType
      <4>. QED
        BY <3>1, <3>2, <4>1, <4>2
    <3>4. CASE call[c].do = "refund"
      <4>1. Finish(c) /\ order' = order
        BY <2>10, <3>4 DEF SavePayment
      <4>2. call[c].alone => order.payment = call[c].to
        BY <3>1, <3>2, <3>4 DEF Halfway
      <4>. QED
        BY <3>1, <3>3, <4>1, <4>2, FinishAgrees
    <3>5. CASE call[c].do = "mark"
      <4>1. call' = [call EXCEPT ![c].at = "order"] /\ settled' = settled
        BY <2>10, <3>5 DEF SavePayment
      <4>2. /\ call'[c] = [call[c] EXCEPT !.at = "order"]
            /\ \A d \in Calls \ {c} : call'[d] = call[d]
        BY <2>0, <4>1
      <4>3. /\ call'[c].at = "order" /\ call'[c].do = "mark"
            /\ call'[c].on = i /\ call'[c].to = call[c].to
            /\ call'[c].alone = call[c].alone
        BY <3>1, <3>5, <4>2
      <4>4. StatusCalls' = StatusCalls
        <5>1. \A d \in Calls : call'[d].do = call[d].do
          BY <3>5, <4>2, <4>3
        <5>2. /\ Under("mark")' = Under("mark")
              /\ Under("refund")' = Under("refund")
          BY <5>1 DEF Under
        <5>. QED
          BY <5>2 DEF StatusCalls
      <4>5. ASSUME NEW d \in StatusCalls, call'[d].alone PROVE Halfway(d)'
        <5>1. d = c
          <6>1. CASE d # c
            <7>1. d \in Calls
              BY DEF StatusCalls, Under
            <7>2. call[d].alone
              BY <4>2, <4>5, <6>1, <7>1
            <7>. QED
              BY <3>1, <6>1, <7>2 DEF AgreeInv, Halfway
          <6>. QED
            BY <6>1
        <5>2. call[c].alone
          BY <4>3, <4>5, <5>1
        <5>. QED
          BY <3>2, <3>3, <4>3, <4>4, <5>1, <5>2 DEF Halfway
      <4>6. settled = 0
        BY <3>1 DEF AgreeInv
      <4>. QED
        BY <4>1, <4>4, <4>5, <4>6 DEF AgreeInv
    <3>. QED
      BY <3>1, <3>4, <3>5
  <2>11. ASSUME NEW c \in Calls, SaveOrder(c) PROVE AgreeInv'
    <3> DEFINE i == call[c].on
    <3>1. /\ c \in StatusCalls /\ call[c].at = "order"
          /\ "at" \in DOMAIN call[c] /\ call[c].do \in {"mark", "refund"}
      BY <2>11, CallKinds DEF SaveOrder
    <3>2. call[c].alone => Halfway(c)
      BY <3>1 DEF AgreeInv
    <3>3. order'.payment = call[c].to /\ payments' = payments
      BY <2>11 DEF SaveOrder, Types
    <3>4. CASE call[c].do = "mark"
      <4>1. Finish(c)
        BY <2>11, <3>4 DEF SaveOrder
      <4>2. call[c].alone => payments[i].status = call[c].to
        BY <3>1, <3>2, <3>4 DEF Halfway
      <4>. QED
        BY <3>1, <3>3, <4>1, <4>2, FinishAgrees
    <3>5. CASE call[c].do = "refund"
      <4>1. call' = [call EXCEPT ![c].at = "payment"] /\ settled' = settled
        BY <2>11, <3>5 DEF SaveOrder
      <4>2. /\ call'[c] = [call[c] EXCEPT !.at = "payment"]
            /\ \A d \in Calls \ {c} : call'[d] = call[d]
        BY <2>0, <4>1
      <4>3. /\ call'[c].at = "payment" /\ call'[c].do = "refund"
            /\ call'[c].on = i /\ call'[c].to = call[c].to
            /\ call'[c].saw = call[c].saw /\ call'[c].alone = call[c].alone
        BY <3>1, <3>5, <4>2
      <4>4. StatusCalls' = StatusCalls
        <5>1. \A d \in Calls : call'[d].do = call[d].do
          BY <3>5, <4>2, <4>3
        <5>. QED
          BY <5>1 DEF StatusCalls, Under
      <4>5. ASSUME NEW d \in StatusCalls, call'[d].alone PROVE Halfway(d)'
        <5>1. d = c
          <6>1. CASE d # c
            <7>1. d \in Calls
              BY DEF StatusCalls, Under
            <7>2. call[d].alone
              BY <4>2, <4>5, <6>1, <7>1
            <7>. QED
              BY <3>1, <6>1, <7>2 DEF AgreeInv, Halfway
          <6>. QED
            BY <6>1
        <5>2. call[c].alone
          BY <4>3, <4>5, <5>1
        <5>3. payments[i].status = call[c].saw /\ StatusCalls = {c}
          BY <3>2, <3>5, <5>2 DEF Halfway
        <5>. QED
          BY <3>3, <4>3, <4>4, <5>1, <5>3 DEF Halfway
      <4>6. settled = 0
        BY <3>1 DEF AgreeInv
      <4>. QED
        BY <4>1, <4>4, <4>5, <4>6 DEF AgreeInv
    <3>. QED
      BY <3>1, <3>4, <3>5
  <2>. QED
    BY <2>1, <2>2, <2>3, <2>4, <2>5, <2>6, <2>7, <2>8, <2>9, <2>10, <2>11,
       NextCases
<1>. QED
  BY <1>1, <1>2, TypesHold, PTL DEF Spec

(* After an administrator's call that ran alone, the payment and the order  *)
(* tell the same status, however many calls there are (markAsPaid,          *)
(* markAsUnderReview, processRefund against createPaymentSession).          *)
THEOREM PaymentAndOrderAgree == Spec => []StatusesAgree
<1>1. AgreeInv => StatusesAgree
  BY DEF AgreeInv, StatusesAgree
<1>. QED
  BY <1>1, AgreeHolds, PTL

-----------------------------------------------------------------------------
(* The number of payments.                                                 *)

\* Sets of calls are finite and no larger than Calls.
LEMMA SetsOfCalls ==
  ASSUME NEW S \in SUBSET Calls
  PROVE  IsFiniteSet(S) /\ Cardinality(S) \in Nat /\ Cardinality(S) <= Cardinality(Calls)
  BY PaymentsAssumption, FS_Subset, FS_CardinalityType

LEMMA Larger ==
  ASSUME NEW S \in SUBSET Calls, NEW T \in SUBSET S
  PROVE  Cardinality(T) <= Cardinality(S)
  BY SetsOfCalls, FS_Subset

\* A step that opens no session and creates no payment.
LEMMA OtherStepCounts ==
  ASSUME Types, PeakInv, Len(payments') = Len(payments), peak' = peak,
         Creators' \subseteq Creators, Under("session")' \subseteq Under("session")
  PROVE  PeakInv'
<1>1. Creators \in SUBSET Calls /\ Under("session") \in SUBSET Calls
  BY DEF Creators, Under
<1>2. /\ Cardinality(Creators') <= Cardinality(Creators)
      /\ Cardinality(Under("session")') <= Cardinality(Under("session"))
  BY <1>1, Larger
<1>3. /\ Cardinality(Creators) \in Nat /\ Cardinality(Creators') \in Nat
      /\ Cardinality(Under("session")) \in Nat
      /\ Cardinality(Under("session")') \in Nat /\ Cardinality(Calls) \in Nat
  BY <1>1, SetsOfCalls
<1>4. Len(payments) \in Nat /\ peak \in Nat
  BY DEF Types
<1>. QED
  BY <1>2, <1>3, <1>4 DEF PeakInv

\* A step that changes no session call, or ends it.
LEMMA NoSessionStep ==
  ASSUME Types, PeakInv, Len(payments') = Len(payments), peak' = peak,
         \A d \in Calls : call'[d].do = "session" => call'[d] = call[d]
  PROVE  PeakInv'
<1>1. Creators' \subseteq Creators /\ Under("session")' \subseteq Under("session")
  BY DEF Creators, Under
<1>. QED
  BY <1>1, OtherStepCounts

LEMMA PeakHolds == Spec => []PeakInv
<1>1. Init => PeakInv
  <2> SUFFICES ASSUME Init PROVE PeakInv
    OBVIOUS
  <2>1. Creators = {} /\ Under("session") = {} /\ Len(payments) = 0 /\ peak = 0
    BY DEF Init, Creators, Under, Idle
  <2>2. Cardinality({}) = 0 /\ Cardinality(Calls) \in Nat
    BY FS_EmptySet, SetsOfCalls
  <2>3. Cardinality(Creators) = 0 /\ Cardinality(Under("session")) = 0
    BY <2>1, <2>2
  <2>. QED
    BY <2>1, <2>2, <2>3 DEF PeakInv
<1>2. Types /\ PeakInv /\ [Next]_vars => PeakInv'
  <2> SUFFICES ASSUME Types, PeakInv, [Next]_vars PROVE PeakInv'
    OBVIOUS
  <2>0. /\ call \in [Calls -> CallType] /\ peak \in Nat /\ Len(payments) \in Nat
        /\ Creators \in SUBSET Calls /\ Under("session") \in SUBSET Calls
    BY DEF Types, Creators, Under
  <2>1. CASE UNCHANGED vars
    BY <2>1, NoSessionStep DEF vars
  <2>2. CASE Tick
    BY <2>2, NoSessionStep DEF Tick
  <2>3. CASE ChangeOrderStatus
    BY <2>3, NoSessionStep DEF ChangeOrderStatus
  <2>4. CASE Restart
    BY <2>4, NoSessionStep DEF Restart, Idle
  <2>5. ASSUME NEW c \in Calls, OpenSession(c) PROVE PeakInv'
    <3> DEFINE S == Under("session")
    <3>1. PICK m \in Methods : call' = [call EXCEPT ![c] =
              [do |-> "session", at |-> "provider", method |-> m]]
      BY <2>5 DEF OpenSession
    <3>2. c \notin S
      BY <2>5 DEF OpenSession, Under, Idle
    <3>3. S' = S \cup {c}
      BY <2>0, <3>1 DEF Under
    <3>4. Cardinality(S') = Cardinality(S) + 1
      BY <2>0, <3>2, <3>3, SetsOfCalls, FS_AddElement
    <3>5. Cardinality(S') <= Cardinality(Calls) /\ Cardinality(S) \in Nat
          /\ Cardinality(Calls) \in Nat
      BY <2>0, <3>3, SetsOfCalls
    <3>6. Creators' = Creators
      BY <2>0, <2>5, <3>1 DEF Creators, OpenSession, Idle
    <3>7. peak' = IF Cardinality(S) + 1 > peak THEN Cardinality(S) + 1 ELSE peak
      BY <2>5 DEF OpenSession
    <3>8. Len(payments') = Len(payments) /\ Cardinality(Creators) \in Nat
      BY <2>0, <2>5, SetsOfCalls DEF OpenSession
    <3>9. peak' \in Nat /\ peak' >= peak /\ peak' >= Cardinality(S')
          /\ peak' <= Cardinality(Calls)
      <4>. HIDE DEF S
      <4>. QED
        BY <2>0, <3>4, <3>5, <3>7 DEF PeakInv
    <3>. QED
      BY <2>0, <3>5, <3>6, <3>8, <3>9 DEF PeakInv
  <2>6. ASSUME NEW c \in Calls, AskProvider(c) PROVE PeakInv'
    <3>1. /\ call[c].do = "session"
          /\ call'[c].at = "find" \/ call'[c] = Idle
          /\ \A d \in Calls \ {c} : call'[d] = call[d]
      BY <2>0, <2>6 DEF AskProvider
    <3>2. Creators' \subseteq Creators /\ Under("session")' \subseteq Under("session")
      BY <3>1 DEF Creators, Under, Idle
    <3>. QED
      BY <2>6, <3>2, OtherStepCounts DEF AskProvider
  <2>7. ASSUME NEW c \in Calls, FindPayment(c) PROVE PeakInv'
    <3> DEFINE S == Under("session")
    <3>1. /\ call[c].do = "session" /\ call'[c].do = "session"
          /\ \A d \in Calls \ {c} : call'[d] = call[d]
          /\ payments # <<>> => call'[c].copy # {}
      BY <2>0, <2>7 DEF FindPayment, Existing
    <3>2. UNCHANGED <<payments, peak>>
      BY <2>7 DEF FindPayment
    <3>3. S' = S
      BY <3>1 DEF Under
    <3>4. CASE payments # <<>>
      <4>1. Creators' \subseteq Creators
        BY <3>1, <3>4 DEF Creators
      <4>. QED
        BY <3>2, <3>3, <4>1, OtherStepCounts
    <3>5. CASE payments = <<>>
      <4>1. Len(payments') = 0
        BY <3>2, <3>5
      <4>2. Creators' \subseteq S
        BY <3>3 DEF Creators, Under
      <4>3. Cardinality(Creators') <= Cardinality(S)
        BY <2>0, <4>2, Larger
      <4>4. Cardinality(Creators') \in Nat /\ Cardinality(S) \in Nat
        BY <2>0, <4>2, SetsOfCalls
      <4>. HIDE DEF S
      <4>5. Cardinality(S) <= peak /\ peak <= Cardinality(Calls)
        BY DEF PeakInv, S
      <4>6. Len(payments') + Cardinality(Creators') <= peak'
        BY <2>0, <3>2, <4>1, <4>3, <4>4, <4>5
      <4>7. Cardinality(Under("session")') <= peak' /\ peak' <= Cardinality(Calls)
        BY <3>2, <3>3, <4>5 DEF S
      <4>. QED
        BY <4>6, <4>7 DEF PeakInv
    <3>. QED
      BY <3>4, <3>5
  <2>8. ASSUME NEW c \in Calls, SaveSession(c) PROVE PeakInv'
    <3>1. call' = [call EXCEPT ![c] = Idle] /\ peak' = peak
      BY <2>8 DEF SaveSession
    <3>2. CASE Len(payments') = Len(payments)
      BY <2>0, <3>1, <3>2, NoSessionStep DEF Idle
    <3>3. CASE c \in Creators /\ Len(payments') = Len(payments) + 1
      <4>1. Creators' = Creators \ {c}
        BY <2>0, <3>1 DEF Creators, Idle
      <4>2. Cardinality(Creators') = Cardinality(Creators) - 1
        BY <2>0, <3>3, <4>1, SetsOfCalls, FS_RemoveElement
      <4>3. Under("session")' \subseteq Under("session")
        BY <2>0, <3>1 DEF Under, Idle
      <4>4. Cardinality(Under("session")') <= Cardinality(Under("session"))
        BY <2>0, <4>3, Larger
      <4>5. /\ Cardinality(Creators) \in Nat
            /\ Cardinality(Under("session")) \in Nat
            /\ Cardinality(Under("session")') \in Nat
        BY <2>0, <4>3, SetsOfCalls
      <4>. QED
        BY <2>0, <3>1, <3>3, <4>2, <4>4, <4>5 DEF PeakInv
    <3>. QED
      BY <2>8, <3>2, <3>3, SessionSaves
  <2>9. ASSUME NEW c \in Calls, StartStatusCall(c) PROVE PeakInv'
    <3>1. ASSUME NEW d \in Calls, call'[d].do = "session"
          PROVE  call'[d] = call[d]
      <4>1. PICK i \in DOMAIN payments, t \in Targets :
              call'[d] = IF d = c
                         THEN [do |-> IF t \in Refunds THEN "refund" ELSE "mark",
                               at |-> IF t \in Refunds THEN "order" ELSE "payment",
                               on |-> i, to |-> t, saw |-> payments[i].status,
                               alone |-> StatusCalls = {}]
                         ELSE IF d \in StatusCalls
                         THEN [call[d] EXCEPT !.alone = FALSE] ELSE call[d]
        BY <2>9 DEF StartStatusCall
      <4>2. d # c
        BY <3>1, <4>1
      <4>3. d \notin StatusCalls
        <5>1. CASE d \in StatusCalls
          <6>1. /\ call[d].do \in {"mark", "refund"} /\ "do" \in DOMAIN call[d]
                /\ call'[d] = [call[d] EXCEPT !.alone = FALSE]
            BY <4>1, <4>2, <5>1, CallKinds
          <6>. QED
            BY <3>1, <6>1
        <5>. QED
          BY <5>1
      <4>. QED
        BY <4>1, <4>2, <4>3
    <3>. QED
      BY <2>9, <3>1, NoSessionStep DEF StartStatusCall
  <2>10. ASSUME NEW c \in Calls, SavePayment(c) PROVE PeakInv'
    <3>1. c \in StatusCalls /\ "do" \in DOMAIN call[c]
          /\ call[c].do # "session" /\ call[c].on \in DOMAIN payments
      BY <2>10, CallKinds DEF SavePayment
    <3>2. \/ call' = [call EXCEPT ![c] = Idle]
          \/ call' = [call EXCEPT ![c].at = "order"]
      BY <2>10 DEF SavePayment, Finish
    <3>3. \A d \in Calls : call'[d].do = "session" => call'[d] = call[d]
      BY <2>0, <3>1, <3>2 DEF Idle
    <3>4. Len(payments') = Len(payments)
      <4>1. payments \in Seq(PaymentType)
        BY DEF Types, PaymentType
      <4>. QED
        BY <2>10, <4>1 DEF SavePayment
    <3>. QED
      BY <2>10, <3>3, <3>4, NoSessionStep DEF SavePayment
  <2>11. ASSUME NEW c \in Calls, SaveOrder(c) PROVE PeakInv'
    <3>1. c \in StatusCalls /\ "do" \in DOMAIN call[c] /\ call[c].do # "session"
      BY <2>11, CallKinds DEF SaveOrder
    <3>2. \/ call' = [call EXCEPT ![c] = Idle]
          \/ call' = [call EXCEPT ![c].at = "payment"]
      BY <2>11 DEF SaveOrder, Finish
    <3>3. \A d \in Calls : call'[d].do = "session" => call'[d] = call[d]
      BY <2>0, <3>1, <3>2 DEF Idle
    <3>. QED
      BY <2>11, <3>3, NoSessionStep DEF SaveOrder
  <2>. QED
    BY <2>1, <2>2, <2>3, <2>4, <2>5, <2>6, <2>7, <2>8, <2>9, <2>10, <2>11,
       NextCases
<1>. QED
  BY <1>1, <1>2, TypesHold, PTL DEF Spec

(* An order has no more payments than session calls that were under way     *)
(* together at some time, although the service looks for a payment and      *)
(* creates one in two steps; and every payment and call is well formed      *)
(* (payments.service.ts:66).                                                *)
THEOREM PaymentsBounded == Spec => []TypeOK
<1>1. Types /\ PeakInv => TypeOK
  <2> SUFFICES ASSUME Types, PeakInv PROVE TypeOK
    OBVIOUS
  <2>1. /\ Len(payments) \in Nat /\ peak \in Nat
        /\ Cardinality(Creators) \in Nat /\ Cardinality(Calls) \in Nat
    BY SetsOfCalls DEF Types, Creators
  <2>2. Len(payments) <= peak /\ peak \in 0..Cardinality(Calls)
    BY <2>1 DEF PeakInv
  <2>. QED
    BY <2>2 DEF Types, TypeOK
<1>. QED
  BY <1>1, TypesHold, PeakHolds, PTL

-----------------------------------------------------------------------------
(* The reference the customer was given.                                   *)

\* What a session call finds: the first payment there is.
Copies == {[on |-> i, reference |-> payments[i].reference,
            method |-> payments[i].method] : i \in {k \in {1} : payments # <<>>}}

\* While sessions never overlap, what a session call has found is still there
\* when it saves, so that it overwrites both fields or none.
ReferenceInv ==
  peak <= 1 =>
    /\ given # NoReference => /\ payments # <<>> /\ payments[1].reference = given
                              /\ payments[1].method = given[1]
    /\ \A c \in Under("session") :
         /\ call[c].at # "provider" => call[c].reference[1] = call[c].method
         /\ call[c].at = "save" => call[c].copy = Copies

\* A step that changes no session call and no reference.
LEMMA ReferenceStays ==
  ASSUME ReferenceInv, Under("session") \subseteq Calls, peak' = peak, given' = given,
         payments' = <<>> <=> payments = <<>>,
         payments # <<>> => /\ payments'[1].reference = payments[1].reference
                            /\ payments'[1].method = payments[1].method,
         \A d \in Calls : call'[d].do = "session" => call'[d] = call[d]
  PROVE  ReferenceInv'
<1>1. Copies' = Copies
  BY DEF Copies
<1>. QED
  BY <1>1 DEF ReferenceInv, Under

\* Two session calls at once are counted by peak.
LEMMA OneSession ==
  ASSUME Types, PeakInv, peak <= 1, NEW c \in Under("session")
  PROVE  Under("session") = {c}
<1>1. SUFFICES ASSUME NEW d \in Under("session"), d # c PROVE FALSE
  OBVIOUS
<1>2. Under("session") \in SUBSET Calls /\ {c, d} \in SUBSET Under("session")
  BY DEF Under
<1>3. Cardinality({c, d}) = 2
  <2>1. IsFiniteSet({c}) /\ Cardinality({c}) = 1 /\ d \notin {c}
    BY <1>1, FS_Singleton
  <2>2. Cardinality({c} \cup {d}) = 2
    <3>1. Cardinality({c} \cup {d}) = Cardinality({c}) + 1
      BY <2>1, FS_AddElement
    <3>. QED
      BY <2>1, <3>1
  <2>3. {c, d} = {c} \cup {d}
    OBVIOUS
  <2>. QED
    BY <2>2, <2>3
<1>4. Cardinality({c, d}) <= Cardinality(Under("session")) /\ Cardinality(Under("session")) \in Nat
  BY <1>2, Larger, SetsOfCalls
<1>. QED
  BY <1>3, <1>4 DEF PeakInv, Types

LEMMA SaveStoresReference ==
  ASSUME Types, PeakInv, ReferenceInv, NEW c \in Calls, SaveSession(c)
  PROVE  ReferenceInv'
<1> SUFFICES ASSUME peak <= 1 PROVE ReferenceInv'
  BY DEF ReferenceInv, SaveSession
<1> DEFINE ref == call[c].reference  m == call[c].method
<1>1. /\ c \in Under("session") /\ call[c].at = "save" /\ call' = [call EXCEPT ![c] = Idle]
      /\ call[c].copy = Copies /\ ref[1] = m /\ ref \in References /\ m \in Methods
  BY CallKinds DEF SaveSession, Under, ReferenceInv
<1>2. Under("session")' = {}
  BY <1>1, OneSession DEF Under, Idle, Types
<1>3. payments \in Seq(PaymentType) /\ payments # <<>> => 1 \in DOMAIN payments
  BY DEF Types, PaymentType
<1>4. payments' # <<>> /\ payments'[1].reference = ref /\ payments'[1].method = m /\ given' = ref
  <2>1. CASE payments = <<>>
    <3>1. Copies = {}
      BY <2>1 DEF Copies
    <3>2. payments' = Append(payments, [status |-> "pending", reference |-> ref, method |-> m])
          /\ given' = ref
      BY <1>1, <2>1, <3>1 DEF SaveSession
    <3>. QED
      BY <2>1, <3>2
  <2>2. CASE payments # <<>>
    <3> DEFINE k == [on |-> 1, reference |-> payments[1].reference, method |-> payments[1].method]
    <3>1. Copies = {k}
      BY <2>2 DEF Copies
    <3>2. payments \in Seq(PaymentType) /\ 1 \in DOMAIN payments /\ payments[1] \in PaymentType
      BY <1>3, <2>2, PaymentAt DEF Types, PaymentType
    <3>3. \/ /\ payments' = [payments EXCEPT ![1] = Overwritten(payments[1], k, ref, m)]
             /\ given' = ref
          \/ \E j \in DOMAIN payments : payments[j].reference = ref /\ j # 1
      <4>1. call[c].copy = {k} /\ k.on = 1
        BY <1>1, <3>1
      <4>. HIDE DEF k
      <4>2. CASE \E j \in DOMAIN payments :
                   payments[j].reference = ref /\ \A l \in call[c].copy : l.on # j
        BY <4>1, <4>2
      <4>3. CASE ~\E j \in DOMAIN payments :
                    payments[j].reference = ref /\ \A l \in call[c].copy : l.on # j
        <5>1. /\ \/ call[c].copy = {}
                 \/ \E l \in call[c].copy :
                      payments' = [payments EXCEPT ![l.on] = Overwritten(@, l, ref, m)]
              /\ given' = ref
          BY <4>3 DEF SaveSession
        <5>2. payments' = [payments EXCEPT ![k.on] = Overwritten(@, k, ref, m)]
          BY <4>1, <5>1
        <5>. QED
          BY <3>2, <4>1, <5>1, <5>2
      <4>. QED
        BY <4>2, <4>3
    <3>4. DOMAIN payments = {1}
      <4>1. Len(payments) \in Nat /\ Len(payments) <= 1 /\ DOMAIN payments = 1 .. Len(payments)
        <5>1. Creators \in SUBSET Calls
          BY DEF Creators
        <5>2. Cardinality(Creators) \in Nat /\ Len(payments) \in Nat /\ peak \in Nat
          BY <5>1, SetsOfCalls DEF Types
        <5>. QED
          BY <3>2, <5>2 DEF PeakInv
      <4>. QED
        BY <3>2, <4>1
    <3>5. payments' = [payments EXCEPT ![1] = Overwritten(payments[1], k, ref, m)] /\ given' = ref
      BY <3>3, <3>4
    <3>6. payments'[1] = Overwritten(payments[1], k, ref, m) /\ payments' # <<>>
      BY <3>2, <3>5
    <3>7. /\ Overwritten(payments[1], k, ref, m).reference = ref
          /\ Overwritten(payments[1], k, ref, m).method = m
      BY <3>2 DEF Overwritten, PaymentType
    <3>. QED
      BY <3>5, <3>6, <3>7
  <2>. QED
    BY <2>1, <2>2
<1>. QED
  BY <1>1, <1>2, <1>4 DEF ReferenceInv

LEMMA ReferenceStep == Types /\ PeakInv /\ ReferenceInv /\ [Next]_vars => ReferenceInv'
<1> SUFFICES ASSUME Types, PeakInv, ReferenceInv, [Next]_vars PROVE ReferenceInv'
  OBVIOUS
<1>1. Under("session") \subseteq Calls
  BY DEF Under
<1>2. CASE UNCHANGED vars \/ Tick \/ ChangeOrderStatus
  BY <1>1, <1>2, ReferenceStays DEF vars, Tick, ChangeOrderStatus
<1>3. CASE Restart
  BY <1>1, <1>3, ReferenceStays DEF Restart, Idle
<1>4. ASSUME NEW c \in Calls, OpenSession(c) PROVE ReferenceInv'
  <2>1. /\ call'[c].at = "provider" /\ call'[c].do = "session"
        /\ \A d \in Calls \ {c} : call'[d] = call[d]
        /\ UNCHANGED <<payments, given>>
        /\ peak' <= 1 => peak <= 1
    BY <1>4, SetsOfCalls, <1>1 DEF OpenSession, Types
  <2>. QED
    BY <2>1 DEF ReferenceInv, Under, Copies
<1>5. ASSUME NEW c \in Calls, AskProvider(c) PROVE ReferenceInv'
  <2>1. /\ \A d \in Calls \ {c} : call'[d] = call[d]
        /\ UNCHANGED <<payments, given, peak>>
        /\ \/ call'[c] = Idle
           \/ call'[c] = [do |-> "session", at |-> "find", method |-> call[c].method,
                          reference |-> <<call[c].method, now>>]
    BY <1>5 DEF AskProvider, Types
  <2>. QED
    BY <2>1 DEF ReferenceInv, Under, Copies, Idle
<1>6. ASSUME NEW c \in Calls, FindPayment(c) PROVE ReferenceInv'
  <2>1. /\ \A d \in Calls \ {c} : call'[d] = call[d]
        /\ UNCHANGED <<payments, given, peak>>
        /\ call[c].do = "session" /\ call[c].at = "find"
        /\ call'[c] = [do |-> "session", at |-> "save", method |-> call[c].method,
                       reference |-> call[c].reference, copy |-> Copies]
    BY <1>6 DEF FindPayment, Types, Existing, Copies
  <2>2. Copies' = Copies
    BY <2>1 DEF Copies
  <2>. QED
    BY <2>1, <2>2 DEF ReferenceInv, Under
<1>7. ASSUME NEW c \in Calls, SaveSession(c) PROVE ReferenceInv'
  BY <1>7, SaveStoresReference
<1>8. ASSUME NEW c \in Calls, StartStatusCall(c) PROVE ReferenceInv'
  <2>1. \A d \in Calls : call'[d].do = "session" => call'[d] = call[d]
    BY <1>8 DEF StartStatusCall, StatusCalls, Under, Types
  <2>. QED
    BY <1>1, <1>8, <2>1, ReferenceStays DEF StartStatusCall
<1>9. ASSUME NEW c \in Calls, SavePayment(c) \/ SaveOrder(c) PROVE ReferenceInv'
  <2>1. c \in StatusCalls /\ call[c].do \in {"mark", "refund"} /\ UNCHANGED <<peak, given>>
    BY <1>9, CallKinds DEF SavePayment, SaveOrder
  <2>2. \A d \in Calls : call'[d].do = "session" => call'[d] = call[d]
    <3>1. \/ call' = [call EXCEPT ![c] = Idle]
          \/ call' = [call EXCEPT ![c].at = "order"]
          \/ call' = [call EXCEPT ![c].at = "payment"]
      BY <1>9 DEF SavePayment, SaveOrder, Finish
    <3>2. /\ \A d \in Calls \ {c} : call'[d] = call[d]
          /\ call'[c].do # "session"
      <4>1. call[c] \in [do : {"mark", "refund"}, at : {"payment", "order"},
                         on : DOMAIN payments, to : Targets,
                         saw : PaymentStatuses, alone : BOOLEAN]
        BY <2>1, CallKinds
      <4>. QED
        BY <3>1, <4>1 DEF Idle, Types
    <3>. QED
      BY <3>2
  <2>3. /\ payments' = <<>> <=> payments = <<>>
        /\ payments # <<>> => /\ payments'[1].reference = payments[1].reference
                              /\ payments'[1].method = payments[1].method
    <3>1. UNCHANGED payments
            \/ payments' = [payments EXCEPT ![call[c].on].status = call[c].to]
      BY <1>9 DEF SavePayment, SaveOrder
    <3>2. payments \in Seq(PaymentType) /\ (payments # <<>> => 1 \in DOMAIN payments)
      BY DEF Types, PaymentType
    <3>3. payments # <<>> => payments[1] \in PaymentType
      BY <3>2, PaymentAt
    <3>. QED
      BY <3>1, <3>2, <3>3 DEF PaymentType
  <2>. QED
    BY <1>1, <2>1, <2>2, <2>3, ReferenceStays
<1>. QED
  BY <1>2, <1>3, <1>4, <1>5, <1>6, <1>7, <1>8, <1>9, NextCases

(* As long as no two session calls overlapped, the reference last answered *)
(* to the customer is that of a payment, with the method it is one of,     *)
(* whatever calls failed, stopped or changed statuses in between.          *)
THEOREM ReferenceIsStored == Spec => []GivenReferenceStored
<1>1. Init => ReferenceInv
  BY DEF Init, ReferenceInv, Under, Idle
<1>2. Types /\ ReferenceInv => GivenReferenceStored
  <2> SUFFICES ASSUME Types, ReferenceInv, peak <= 1, given # NoReference
               PROVE  1 \in DOMAIN payments /\ payments[1].reference = given
                        /\ payments[1].method = given[1]
    BY DEF GivenReferenceStored
  <2>. QED
    BY DEF ReferenceInv, Types
<1>. QED
  BY <1>1, <1>2, ReferenceStep, TypesHold, PeakHolds, PTL DEF Spec
=============================================================================
