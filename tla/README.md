# A verification project for opps

opps is a shop: a NestJS backend over MongoDB and Redis (`src/backend`) and a
Next.js frontend (`src/frontend`). This directory holds TLA+ models of the parts of
it where concurrency, retries and failures decide whether the code is right, the
TLC configurations that check them on small instances, and TLAPS proofs of the
properties that matter most.

    tlc -workers 2 -config MCCheckout.cfg MCCheckout.tla      # check one instance
    tlapm CheckoutProofs.tla                                  # check proofs

## The system

Every HTTP request is served by an asynchronous handler: between two `await`s any
other request may run, in the same process or in another one, and no lock is taken.
What handlers share is in MongoDB (one document is written atomically; several only
in a transaction), in Redis, or, in the browser, in the variables of a module.

| Component | State | Operations | What makes it correct |
|---|---|---|---|
| Order placement `checkout.service.ts` | one MongoDB transaction per attempt over products, variants, movements, counter, orders; outside of it proofs, coupon counters, usages | `createOrder` (retry loop of 5 attempts) | no oversell; all of an order or nothing; one order per idempotency key; unique numbers; coupons counted; every request ends |
| Inventory `inventory.service.ts`, direct edits in `products`, `product-variants` | stock, status, threshold, movement log | `adjustStock`, `reserveStock`, `releaseStock`, `createMovement`, `updateStock`, the product page, its threshold alone | movements account for the stock; status follows stock; never negative |
| Orders `orders.service.ts` | `orderStatus`, `statusHistory` | `updateStatus`, `cancelOrder`, `restoreStock` | history ends in the status; stock restored once |
| Coupons `coupons.service.ts` | `usedCount`, usages | `validateCoupon`, `recordUsage` | limits kept |
| Sessions `auth.service.ts` | refresh tokens | login, `refreshTokens`, `logout`, password change and reset | a replaced token is dead; a session goes on while it is used; logout ends it |
| API client `api-client.ts`, `auth-store.ts` | tokens, `isRefreshing`, `failedQueue` | request and response interceptors, logout | one refresh at a time; every request settles |
| Payments `payments.service.ts` | payment and its order's `paymentStatus` | create session, mark paid or under review, refund | the two statuses agree; one payment per order |
| One-time codes `email-verification.service.ts`, `auth.service.ts` | codes, cooldown, counter and lock, in MongoDB or Redis | `sendOTP`, `verifyOTP`, registration and its verification | one usable code; a code verifies once; guesses bounded; a code that is answered for is mailed |
| E-mail queue `email-queue` | deduplication keys, jobs | `enqueue`, `process` | a mail that is answered for is on its way |
| Campaigns `campaigns`, `campaign-queue`; consents in `users`, `unsubscribe` | status, counters, `sentEmails`, consents | `sendCampaign`, recipient jobs with retries, edit, deletion, consent given and withdrawn | each recipient once, and only with consent; `sent` means delivered; a final status is reached |
| Cart `cart.service.ts`, `cart-store.ts` | lines, coupon, totals; the copy on the page | add, update, remove, coupon, clear; answers in any order | no line lost; quantities on their line; the page shows what is stored |
| Pricing, delivery zones, discount | none | pure functions | amounts in range (not modelled) |

The components call each other directly: checkout calls coupons, orders, pricing and
cart; orders and inventory write the documents of products and variants; the API
client calls the auth service. Proofs go from the one-time codes to checkout through
a collection. The hard behaviours are conflicts between transactions, the
mixture of transactional and plain writes in one handler, read-compute-save sequences
without any transaction, lost answers, crashes between two writes, and the queueing
of requests around a token refresh. `PROJECT.json` lists all components, the ones
that are not modelled included, and under `hazards` where each of these bites.

## The modules

| Module | Models |
|---|---|
| `Checkout` | `createOrder` with everything it calls that changes state |
| `AtomicOrders` | what checkout promises: an order is one atomic step |
| `Inventory` | stock edits, order status and cancellation, next to atomic sales |
| `Payments` | the payments of one order and its payment status |
| `Cart` | one customer's cart, the requests that edit it and the page that shows it |
| `EmailOtp` | the codes of one address and purpose, with the registration and the e-mail queue |
| `Session` | the API client's refresh queue with the auth service's rotation, logout and password reset |
| `Campaign` | `sendCampaign`, the queue of recipient jobs and its workers, consents, edit and deletion |
| `MCCheckout`, `MCCustomerLimit`, `MCInventory`, `MCPayments`, `MCCart`, `MCEmailOtp`, `MCSession`, `MCCampaign` | the instances TLC checks |
| `CheckoutProofs`, `InventoryProofs`, `PaymentsProofs`, `CartProofs`, `EmailOtpProofs`, `SessionProofs`, `CampaignProofs` | theorems about the module they are named for |
| `Sums` | facts about sums over finite sets, for the proofs about quantities and amounts |

`Inventory` instantiates `AtomicOrders` for its sales, and `Checkout` is shown to refine it. The
modules share no other variables: what one needs of another is a constant (a proof
that was issued) or an operation of its own (an administrator who changes the order status in `Payments`).

### Checkout

A request is a call of `createOrder`; `pc[r]` is the `await` it is at, and each action
is the code between two awaits. `Identify` ... `Validate` are the steps before the
transaction; `ReadStock`, `WriteStock`, `DrawNumber`, `InsertOrder`, `Commit` are the
operations of the transaction, once per line where the code loops; `CountUsage` and
`RecordUsage` are the two writes of `recordUsage`, which are made without the session.
`Conflict`, `RetryAfterConflict`, `Interrupted` and `GiveUp` are the catch branch: a
transient error starts the next attempt while attempts are left, everything else fails.
`Interrupted` is a transient error the server raises by itself, as in a failover; whoever meets
one in the last attempt ends as `interrupted`, and who meets a conflict there as `exhausted`.
`Fail` is a database call that fails for good, or a crash. `Validate` reads in several awaits and
is one step.

MongoDB is modelled from how the code uses it, and marked external: a transaction reads
a snapshot taken at its first operation (`view`), sees its own writes, and is aborted
when it writes a document that another open transaction has written (`dirty`) or that
was committed after its snapshot (`stale`). `Commit` applies everything at once; its
answer may be lost, in which case `createOrder` fails although the order is placed. The locks of
a transaction are gone as soon as it ends, also by a crash, which MongoDB would notice later.

What is abstracted: prices, addresses, names; the discount; the clock. The clearing of the cart
after the commit, best effort and only for a cookie that nothing sets, is not part of the module (see `Cart`).

### Inventory

A call is one of the operations `adjust`, `reserve`, `release`, `set` (`updateStock`), `edit` (the
product page), `threshold`, `movement` (`createMovement`), `cancel` (`cancelOrder` with
`restoreStock`), `status` (`updateStatus`) or `sale`. Reading, saving and logging are
separate steps. A sale is one step of `AtomicOrders`, which is instantiated: that `Checkout`
implements it is what `OrdersAreAtomic` checks. A Mongoose save writes only the fields the call
changed, so a stock that is what was read is not written (`SaveItem`, `WrittenStatus`).
The product page sends back the stock its form was opened with, with every edit. `inStock` is
not a variable of its own. `createMovement`, `reserveStock`, `releaseStock` and
`cancelOrder` have no caller in the repository; they are modelled as any caller could use them.

Most of what one would like to claim here is false when two saves race, so the history
variable `raced` holds the documents that were saved over a change their writer
had not read, and the invariants say that nothing else goes wrong: the movements account
for the stock of every item that is not in `raced`, whose movement was not cut off by a crash,
and that no operation that writes stock or movement alone touched (`unlogged`: `updateStock`,
the product page, `createMovement`). The status follows the stock but for a threshold changed alone
(`unjudged`). `StockTracked`, without `raced`, is violated (see below).

### Payments

A call opens a payment session (`OpenSession`, `AskProvider` for a provider on the network,
`FindPayment`, `SaveSession`) or is an administrator's: `markAsPaid`, `markAsUnderReview`,
`processRefund` (`StartStatusCall`, `SavePayment`, `SaveOrder`). The payment and the order are two
documents saved one after the other; `Restart` loses every call that is under way. `Tick` is the
millisecond clock references are made from, so that two of different ticks differ and two of one may be equal;
`ChangeOrderStatus` is an administrator cancelling or reopening the order.

`StatusesAgree` speaks of `settled`, the payment of the last status call that ran alone: calls that
overlap or are cut off leave the two statuses apart until such a call, and a session begun before
`markAsPaid` can overwrite the reference of the paid payment. No provider verifies a
payment: `verifyPayment` is reached from no controller, and `handleWebhook`
(payments.service.ts:209-216) changes nothing, so neither is an action.

### Cart

A request reads the document (`Find`), or finds none and creates it (`CreateCart`), works on its
copy and saves the edit (`Save`). The edit follows Mongoose's arrays: a push is added to
whatever is stored and bumps the version, a quantity is written at its position and does not, a
removal or `clearCart` rewrites the list, requires the version that was read (`Refuse` when it
is another) and bumps it. Subtotal, discount and total are written where the copy changed them. `Show`
puts an answer on the page, in any order; `LoseAnswer` leaves the page as it is. The `_id` of
a line is declared in the schema with no default, so whether stored lines have one is
explored both ways (`LineIds`).

What is false under overlap, and therefore excluded by the histories: two first requests create two
carts; totals are those of one copy until a request that runs alone computes them (`mixed`);
a rewrite can put back a quantity that was changed meanwhile, because a quantity does not bump the
version; two additions of one line count once; the discount is not reconsidered when lines change. `PlaceOrder` is an order:
the page empties its copy, and the stored cart keeps its lines, since the server clears it
only for a request with the cookie `cart_session` (checkout.controller.ts:41-42,
checkout.service.ts:338-344), which nothing in the repository sets.

### EmailOtp

One address and one purpose, `checkout_verification` or `email_verification`. The mode says where
cooldown, counter and lock are: `mongo`, `redis`, or `queue`, which is Redis with
the mail sent by a job. `pc` is the await a request is at: `register`, `cooldown`, `invalidate`,
`create`, `deliver`, `reserve` and `add` of a request that sends a code; `find`, `reject`, `accept`,
`clear`, `activate` and `tokens` of one that verifies it. The worker takes the job (`TakeJob`), mails the
code, marks it sent or fails (`MailJob`, `MarkSent`, `FailJob`). Every key may run out
at any time after it was set, a code may expire, and a mail, request or worker may fail. The
mails of other purposes take the same path through the queue. The counter of wrong guesses is taken to end
before the lock it led to, as it does unless `OTP_LOCK_SECONDS` is set below the counter's window.

Without Redis two requests pass the cooldown together, and with it a request may outlive its key:
`raced`. Verifications of one code at a time that were under way together are in `crowded`.
With the queue, the deduplication key and the identifier of a job that ended are those of every code
of one address and purpose, so that only the first mail is promised (`FirstCodeOnItsWay`).

### Session

Pairs of access and refresh tokens are numbered in the order of issue. Every tab was opened
with the first pair, that of the login, and keeps its own copy in memory (`persist` of the auth store reads
the browser's storage when a page is loaded; a reload, which takes over the pair another tab stored last, is
not modelled); `given[t]` is the history of the pairs tab `t` was issued. The client's part
is the response interceptor: a 401 is queued while a refresh is under way (`Enqueue`), or
starts one (`StartRefresh`); its outcome settles the queue (`Refreshed`,
`RefreshFailed`). The server's part is `refreshTokens`, one action per database call,
`logout`, and the last step of `resetPassword` (`RevokeAll`), which revokes every token of the user,
those of other devices (`elsewhere`) included. A refresh that had found its token when
they were revoked (`midway`) issues a pair that survives; a login that had compared the old
password by then does, too, and is not modelled. `changePassword` has no action: it compares with
a password its query does not select (auth.service.ts:455-460) and always fails.

Two tabs may find the shared token usable at the same time, and each is then given a pair; or the
second is refused it and signed out (`Outrun`). So `RotatedOnUse` promises what the code keeps: the first
token is dead once it is replaced, and of the tokens a tab was given at most one can be used. `SessionKept`
promises that a tab goes on unless another one was first with their token, which then goes on itself.
A logout, a lost call, a crash and a reset are incidents after which `SessionKept` promises nothing.

Whether the WeakSet `retriedRequests` holds a request is not part of the
state: axios makes a new configuration object for every call, so that the
configuration in a later error is never one that was added.

### Campaign

`CheckStatus`, `ReadAudience`, `SetQueued` and `AddJob` are the awaits of `sendCampaign`;
`MarkProcessing`, `Look`, `SendMail`, `Record`, `ReadCounts` and `SettleStatus` are those of the
job's `process`, `Catch` and `CountFailure` its catch branch. BullMQ is external: a job is known by its
recipient and taken once (`TakeJob`), waits again after a throw while it has attempts
(`Throw`), and is given to another worker when its lock has run out, in which case the
first worker may still be at it (`Stall`, `WorkerDies`). Retention of ended jobs for days is
taken as for ever, and the back-off as a delay of any length. A call that fails has
changed nothing; the one fault inside a step, an e-mail that left and was not recorded, is kept in the
history variable `unrecorded`.

The audience is everybody who consents, in the unspecified order in which the query returns them
(`SetToSeq`), or a list of addresses an administrator named, which
ignores consents (campaigns.service.ts:128-130). `SetConsent` is the account page, `Unsubscribe` the
link of a mail, `Update` an edit of the audience and `Delete` the deletion of the campaign,
also while it is being sent: its `sentEmails` are gone with it, so a job that is retried mails again, and
such recipients count as unrecorded. A second request that found another audience changes
`targetCount` (`resized`), and the campaign may show `sent` early. A status written through the update
of the API is not modelled.

The status is settled by a successful job only, so `CampaignSettles` holds without
faults and says so: when the last job fails for good, or `sendCampaign` fails between
`SetQueued` and the last `AddJob`, the campaign stays as it is and cannot be sent again; so does
a campaign to nobody.

## The runs

| Run | Instance | Shows |
|---|---|---|
| `checkout` | three requests over two products and a variant, a proof, a key and a coupon shared by two of them each, one of them interrupted by the server, three attempts at most | the safety properties of checkout, that someone always wins a conflict, refinement of `AtomicOrders`, and that every request ends |
| `coupon_limit` | expects a violation | `usedCount` passes `usageLimit` |
| `customer_limit` | expects a violation | a customer with a capital in the address passes the limit per customer |
| `inventory` | any three of eleven calls on a product, a variant and an order, and any four of them but `edit`, `threshold` and `movement`, with failures | accounting, status and cancellation |
| `stock_tracking` | expects a violation | an adjustment saved over a sale |
| `payments` | two calls at a time, five in all, two methods, one of them over the network, restarts | the statuses agree, the answered reference is stored |
| `cart` | two requests at a time, four in all, a product plain and in a variant, a coupon, lost answers | no line lost, quantities on their line, the page shows what is stored |
| `otp` | two requests at a time, two codes, one fault, in three settings of mode and purpose | one usable code, used once, bounded guesses, one registration session, the first code mailed |
| `otp_resend` | expects a violation | a resent code that no mail carries |
| `session` | two tabs opened with one pair of tokens, a request and a logout in one and a request in the other, two expiries, losses and crashes, a password reset | single flight, a tab keeps its session, rotation in each tab, the reset ends sessions, every request settles |
| `session_logout` | expects a violation | a logout that revokes a token already replaced |
| `campaign` | two recipients, two workers, a campaign sent twice, two faults or changes | one e-mail each, only with consent, `sent` means delivered, a status in the end |

The bounds. Three requests of two or three lines suffice for every kind of conflict in
checkout: two transactions on one document, a third that commits between a snapshot and
a write, a cycle of two items locked in opposite order. The server interrupts one of them
(`Interruptible`), the one whose product another waits for. `MaxRetries` is 5 in the code and
smaller in the passing runs; nothing but `EveryRequestEnds` and the labels `exhausted` and `interrupted` depends on
its value, and the proofs hold for all. Three or four calls in `Inventory` allow a read, two writes in between and a
late save. In `Payments`, `MaxCalls` is 5 and `MaxNow` 1: a session, two overlapping calls and a call
alone after them, with equal and different references. In `Cart`, `MaxSent` is 4: a line or
two, and two edits that overlap. In `EmailOtp`, `MaxCodes` is 2, a code and its replacement, which may
overlap; `MaxAttempts` and `JobAttempts` are 2 and `MaxFaults` 1 (none in `otp_resend`, which needs no fault). In
`Session`, two tabs are what it takes to present one token twice, and two expiries (`MaxExpired`) let a token
expire again while the refresh that replaced the first is under way or its retries are on the wire;
without the bound a browser could refresh for ever. In `Campaign`, `MaxEvents` is 2, faults and changes together, and
a job has two attempts: a job can fail for good, fail and then stall, or a consent be withdrawn
before a stall.

Symmetry is used where the requests are interchangeable: `cart`, `payments`, and the two runs of
`EmailOtp`, none of which checks a liveness property. Deadlock is checked in every
run but `cart` and `payments`, which stop when the bounded number of requests has been sent;
elsewhere, requests that have all ended take a stuttering step.

Fairness. `Checkout` assumes weak fairness of each request: every awaited database call
settles, because the driver answers or times out. `Session` assumes it of each request's
progress: a request is answered or times out and the server goes on with a refresh it
started. The refresh itself is sent with plain `axios.post` and no timeout of its own, so
there the assumption is that the connection is answered or breaks. `Campaign` assumes it of requests
and workers, which run until their calls settle, and of the queue's check for jobs without a
worker. Starting a request, expiry, failures, edits and changes of consent are never assumed.

Every property of a passing run has a mutant in `PROJECT.json`: a plausible bug in a
definition, with which TLC finds the property violated.

## The findings

* `coupon_limit`: `validateCoupon` checks the usage limit before the order and
  `recordUsage` increments without looking.
* `customer_limit`: the use of a coupon is recorded under the address as it was typed and counted under
  its lower-case form, so that a customer who types a capital is never stopped.
* `stock_tracking`: stock edits are read-modify-write; one that overlaps with a sale
  gives the sold units back, and the movement log no longer explains the stock.
* `session_logout`: a logout with an expired access token rotates the refresh token first,
  then revokes the old one; the new one stays usable.
* `otp_resend`: with the e-mail queue, every code of one address and purpose has one deduplication key;
  a code asked for again is not mailed, and the earlier ones are no longer valid.

Met while modelling, without a run of their own:

* Two tabs that refresh with the token they share may be given a pair each, or one of them is signed
  out: README.md:360 of the repository has refresh tokens "rotated on use", and nothing says for how
  many tabs.
* An edit on the product page while orders come in puts the units sold meanwhile back on sale; a
  threshold changed alone leaves the status as it was.
* Login attempts are counted by a read and a later write. `validateUser` and
  `forgotPassword` look an address up as it was typed.
* A registration repeated after its mail failed is answered with a flow no code belongs to
  (auth.service.ts:79-84, 121-136).
* Order quantities need not be whole (create-order.dto.ts:23). `Checkout` takes them as integers.
* Ordinary campaign mails carry no unsubscribe link; only test mails are given a token.

## The proofs

Every theorem holds for any values of the constants that satisfy the assumptions its module
declares, which TLC evaluates in the runs. In each module the argument is an inductive invariant:
it holds initially, every action keeps it (one lemma or step per action), and it implies the property.

Every invariant of every passing run has a theorem, and so has the refinement of
`AtomicOrders`.

**Checkout.** `CheckoutProofs` has four parts, each of which rests on those before it.

* Types. `TypeCorrect`: that stocks are natural numbers needs the control state: a request that is
  about to write has checked its own view (`TypeInv`).
* Stock. `NoOversell`, `LedgerCorrect`: `StockInv` adds to the types: two open transactions never
  hold the same document (`Locks`); what a transaction sees of a document it holds, or that is not
  stale for it, is the committed stock, minus its own writes (`Views`); and the movements of
  an item tile the interval from its stock to its initial stock, the pending ones of a transaction
  the interval from its view to the committed stock (`Ledger`). First-committer-wins then
  makes every commit append its tiles to the others. Without `Views` the induction fails at
  `Commit`: a snapshot could be written over a later sale.
* Orders. `NumbersUnique`, `KeysBuyOnce`, `ProofsAreSpent`, `StatusFresh`, `CouponsAreCounted`:
  `OrderInv` says of the counter, the keys and the proofs what a request at a given `pc`
  holds: a drawn number is above those of all orders and the counter is locked; a key that passed
  the insertion is locked; the use of a coupon has been counted once for every request from `usage`
  on. From the same invariant `LimitChecked`, which says what the limit per customer does catch: the orders
  that were sent with the lower-case form of the address (for the others see `customer_limit`).
* Atomic. `CheckoutIsAtomic`: `Spec => OrdersAreAtomic`. `Commit` maps to `PlaceOrder`, every
  other step to a stutter. `AtomicInv` says how far each transaction is: what it has left of an item and
  what its lines have taken so far add up to the committed stock (`Progress`), so that
  at the commit it has taken exactly the quantity of its order, a sum over its lines. From the same
  invariant `NotAllExhausted`, for any interruptions: a request that meets a conflict met it with a transaction that
  is open, which can still commit, or with an order that has been placed.

**Inventory.** `IInv` is `TypeOK`, where each call is in its program (`Placed`), `StatusFresh`,
and `OrdersAgree`, which adds to `CancelledOnce` what a cancellation that read a status may still
do. From it `StocksAreNatural` (no stock is negative, though checked on an earlier read),
`StatusesAreFresh` and `OneCancellation`. `MovementsAccount` needs no further invariant but
itself: the movements that are saved and not yet logged are a sum with one term for every call that is under way
at the item (`InFlight`). A save adds a term and changes the stock by it, the log takes it out again, a
crash puts the item among those of which nothing is promised.

**Payments.** `PaymentAndOrderAgree`: `AgreeInv` adds what a status call that runs
alone has saved halfway. `PaymentsBounded`: `PeakInv` counts a call that is about to create a
payment as if it had, so that there are no more payments than session calls once overlapped.
`ReferenceIsStored`: while session calls never overlap, what one of them has found is still what
is stored (`Copies`, in `ReferenceInv`), so that it writes method and reference together or not at all.

**Cart.** `CartInv` says which edits of a copy are still right for the stored document: a copy
whose version is the stored one has the same lines in the same positions, but for their quantities
(`SameLines`), because whatever adds or moves a line bumps the version. From it `LinesKept` and
`QuantitiesHit`, for any number of requests and carts. `PageIsRight` adds that a request which runs
alone holds, or answers with, what is stored (`AloneInv`), that totals which nobody mixed are those of
their lines (`SumsInv`), and that a page which has seen such an answer shows the stored cart when no other
is under way (`SeenInv`). `CartTyping` adds the amounts, which are natural numbers wherever a cart is
copied to (`MoneyInv`), and that the carts, with the requests about to create one, are no more than the
requests (`PlacesInv`).

**EmailOtp.** After the types (`CodesTyped`), which need that the lock is set no later than the
counter is full and that a job which is not done has tries left, each property has an invariant of its own:

* `CodeReplaces`: unless two requests passed the cooldown together, there is one request between
  the cooldown and its mail, no code is usable while it creates the next, and only the last code may be
  usable (`OneSender`).
* `CodeOnce`: a code that is not used has not been accepted, and one that is being judged by one request alone
  is nobody else's (`UsedOnce`).
* `RegistersOnce`: of all the verifications, the one that activated the account is the only one
  to issue tokens (`OneSession`).
* `FirstCodeArrives`: up to the first code the deduplication key is free and there is no
  job, so nothing can hide the first one (`FirstMail`).
* `GuessesCounted`: the guesses made are at most those counted, one for each fault and the one
  that has looked and not yet counted (`Bounded`).

**Session.** `OneRefreshAtATime` holds for any number of tabs (`FlightInv`: the queue of a
tab is exactly its waiting requests, and one request is refreshing when `isRefreshing` is set).
`ResetEndsThem` holds for any tabs (`ResetInv`), and so does `SessionTyping`, which adds the tokens of the
server and of the requests (`ServerTypes`, `MarkTypes`). `RotatedPerTab` and `SessionKeptInTabs` hold for
any number of tabs that share the first pair, by `TokenInv`: the server has one refresh of a tab to do, and a tab
that gave one up has no tokens to send another with (`OneServing`); what a tab has or asks for is the first token or one
that it alone was given (`Belongs`); of these the only one that can be used is the one it has, or its refresh
presents or has brought (`Rotation`); and until an incident a refused refresh presented the first token, which
another tab has had replaced (`Going`). Without `Belongs` the induction fails where one tab's refresh revokes its
token: it could be another's.

**Campaign.** `CampaignTyping` first (`TypesInv`). `NobodyTwice`: a recipient who is not in `unrecorded` (a
mail that left unrecorded, a record deleted, a job that stalled under a live worker) has been
mailed at most once, because only the holder of its job's lock is at work on it, and a mail that is not in
`sentEmails` yet is the one it is about to record (`Once`, in `OInv`). `OnlyWithConsent`: the recipients of
every list, job, worker and delivery had agreed when the list was read (`ConsentInv`).
`SentIsDelivered`, for campaigns without a stalled job and of one size: `sentCount` is the number of recipients in `sentEmails`
(`CountInv`), each of them has been mailed (`ServedInv`), and a count that led to `sent` reached
`targetCount` (`VerdictInv`, in `SentInv`).

**Sums.** Quantities and amounts are sums over a finite set (`SumFunctionOnSet` of `Functions`,
a recursive function on the subsets of the set). That it obeys its equation,
that any element can be taken out first, and that it depends on its terms only are proved once, by
induction over those subsets: of the subsets that violate the claim there is one that has none below it
(`WFMin`), which needs no operator as a parameter.

Only model-checked: the three liveness properties, `EveryRequestEnds` of `Checkout`, `EveryRequestSettles`
of `Session` and `CampaignSettles`, since fairness and ENABLED are beyond the prover. The five
runs that expect a violation show a behaviour, and there is nothing to prove of it.

## Plan

1. Proofs: the invariant of `AtomicOrders` itself (what is
   in stock and what the orders hold add up to the initial stock), carried over to `Checkout` by
   the refinement.
2. `Session`: the login and its attempt counter.
3. Creation and deletion of products and variants next to sales; the default address.
4. Pricing and delivery zones as functions, against what their documentation promises.

## Not modelled

Most of the repository's lines are presentation (pages and components), administration of single
documents, reports and seed data, most of it without steps that could interleave. What is left out, and
why:

* Rate limits and login attempts: atomic Redis scripts of one window each, or a counter of the form
  `EmailOtp` has.
* Addresses: choosing the default is a check and a later write over one user's list; nothing
  promises that there is one default.
* Pricing, delivery zones: pure functions of one call.
* `mergeCart` and the expiry of carts; the log of payment events; login and profile; the
  unsubscribe token, which is looked up by its hash.
* Administration of the catalogue, coupons, users, roles and settings (single-document
  edits); analytics and financial planning (read-only reports); uploads and notifications
  (I/O); guards, interceptors, configuration, seeding and health checks; the pages and
  components of the frontend.

`PROJECT.json` gives the reason for each.
