------------------------------ MODULE EmailOtp ------------------------------
(***************************************************************************)
(* The one-time codes of one e-mail address and one purpose: how a code is  *)
(* sent, by mail or through the e-mail queue, and verified, for a checkout  *)
(* or for the registration of an account.  The codes of another address or *)
(* purpose share no document, no key of Redis and no job with them.        *)
(*                                                                         *)
(* A code is the number of its document, in the order of creation; a        *)
(* registration flow is named by the first code sent for it; 0 is none.     *)
(***************************************************************************)
EXTENDS Naturals, Sequences, FiniteSets

CONSTANTS
  Clients,      \* requests the server handles at once
  Settings,     \* what is checked: pairs of a mode of the server and a purpose
  MaxAttempts,  \* wrong guesses a code allows
  JobAttempts,  \* times the worker tries a mail
  MaxCodes,     \* bound: codes created
  MaxFaults     \* bound: mails that fail, requests and workers that die

Purposes == {"checkout_verification", "email_verification"}

ASSUME EmailOtpAssumption ==
  /\ Settings # {} /\ Settings \subseteq {"mongo", "redis", "queue"} \X Purposes
  /\ MaxAttempts \in Nat \ {0} /\ JobAttempts \in Nat \ {0}
  /\ MaxCodes \in Nat /\ MaxFaults \in Nat

Account == "email_verification"

VARIABLES
  mode,       \* without Redis, with it, or with it and the e-mail queue
  purpose,    \* EmailOtpPurpose of the codes
  \* MongoDB.
  otps,       \* the codes: [flow, attempts, isUsed]
  recent,     \* codes younger than the cooldown
  expired,    \* codes past their expiresAt
  account,    \* accountStatus of the address
  \* Redis and BullMQ.
  cooling,    \* whether the otpSend key is set
  attempts,   \* the otpAttempts counter
  locked,     \* whether the otpLock key is set
  dedup,      \* the deduplication key of the mail
  job,        \* the job of the mail: [state, code, tries]
  \* The requests, and what the address has received.
  pc,
  call,       \* what they carry: [kind, flow, code, held, seen]
  mailbox,    \* codes that were mailed
  \* History.
  promised,   \* codes for which "OTP sent successfully" was answered
  accepted,   \* accepted[k]: how often code k was found right and saved
  guesses,    \* wrong guesses since their counter started
  crowded,    \* codes of verifications that were under way at once
  raced,      \* two requests for a code could meet: one of them outlived the
              \* key that keeps them apart
  sessions,   \* sessions opened by verifying a registration
  faults

config  == <<mode, purpose>>
codes   == <<otps, recent, expired>>
redis   == <<cooling, attempts, locked>>
queue   == <<dedup, job>>
history == <<promised, accepted, guesses, crowded, raced, sessions, faults>>
vars    == <<config, codes, account, redis, queue, pc, call, mailbox, history>>

NoCall == [kind |-> "none", flow |-> 0, code |-> 0, held |-> 0, seen |-> 0]
NoJob  == [state |-> "none", code |-> 0, tries |-> 0]

Init ==
  /\ \E s \in Settings : mode = s[1] /\ purpose = s[2]
  /\ otps = <<>> /\ recent = {} /\ expired = {}
  /\ account = "none"
  /\ cooling = FALSE /\ locked = FALSE /\ attempts = 0
  /\ dedup = "free" /\ job = NoJob
  /\ pc = [c \in Clients |-> "idle"]
  /\ call = [c \in Clients |-> NoCall]
  /\ mailbox = {} /\ promised = {} /\ crowded = {} /\ raced = FALSE
  /\ accepted = <<>> /\ guesses = 0 /\ sessions = 0 /\ faults = 0

Codes == 1..Len(otps)

\* The flows the address was told of.
Given == {otps[k].flow : k \in promised} \ {0}

Usable == {k \in Codes : ~otps[k].isUsed /\ k \notin expired}

Goto(c, label) == pc' = [pc EXCEPT ![c] = label]

\* The request is answered, or refused: nothing is kept of it.
Done(c) ==
  /\ Goto(c, "idle")
  /\ call' = [call EXCEPT ![c] = NoCall]

Start(c, label, request) ==
  /\ pc[c] = "idle"
  /\ Goto(c, label)
  /\ call' = [call EXCEPT ![c] = request]

-----------------------------------------------------------------------------
(* The requests that send a code.                                          *)

Sending == {c \in Clients : pc[c] \in {"register", "cooldown", "invalidate", "create"}}

MayCreate == Len(otps) + Cardinality(Sending) < MaxCodes

\* POST checkout/email/send-otp, for either purpose.
Send(c) ==
  /\ MayCreate
  /\ Start(c, "cooldown", [NoCall EXCEPT !.kind = "send"])
  /\ UNCHANGED <<config, codes, account, redis, queue, mailbox, history>>

\* POST auth/register of an address that is new; one that is not new is
\* answered with a flow no code belongs to.
Register(c) ==
  /\ MayCreate /\ purpose = Account /\ account = "none"
  /\ Start(c, "register", [NoCall EXCEPT !.kind = "begin"])
  /\ UNCHANGED <<config, codes, account, redis, queue, mailbox, history>>

\* users.create; the address is unique.
CreateAccount(c) ==
  /\ pc[c] = "register"
  /\ IF account = "none"
     THEN account' = "pending" /\ Goto(c, "cooldown") /\ UNCHANGED call
     ELSE Done(c) /\ UNCHANGED account
  /\ UNCHANGED <<config, codes, redis, queue, mailbox, history>>

\* POST auth/login with the right password, for an account that is pending.
Login(c) ==
  /\ MayCreate /\ account = "pending"
  /\ Start(c, "cooldown", [NoCall EXCEPT !.kind = "begin"])
  /\ UNCHANGED <<config, codes, account, redis, queue, mailbox, history>>

\* POST auth/registration/resend.
Resend(c, f) ==
  /\ MayCreate /\ f \in Given
  /\ Start(c, "cooldown", [NoCall EXCEPT !.kind = "send", !.flow = f])
  /\ UNCHANGED <<config, codes, account, redis, queue, mailbox, history>>

-----------------------------------------------------------------------------
(* sendOTP.                                                                *)

\* Requests past the cooldown.
Replacing == {c \in Clients : pc[c] \in {"invalidate", "create", "deliver", "reserve", "add"}}

\* Mutant of Passes: with Redis, the key is set without NX.
PassesSet == mode # "mongo" \/ \A k \in recent : otps[k].isUsed

\* A code a minute: SET NX of a key in Redis, or else a look at the codes.
Passes == IF mode = "mongo" THEN \A k \in recent : otps[k].isUsed ELSE ~cooling

CoolDown(c) ==
  /\ pc[c] = "cooldown"
  /\ IF Passes THEN Goto(c, "invalidate") /\ UNCHANGED call ELSE Done(c)
  /\ cooling' = (cooling \/ (Passes /\ mode # "mongo"))
  /\ raced' = (raced \/ (Passes /\ mode = "mongo" /\ Replacing # {}))
  /\ UNCHANGED <<config, codes, account, attempts, locked, queue, mailbox,
                 promised, accepted, guesses, crowded, sessions, faults>>

Invalidate(c) ==
  /\ pc[c] = "invalidate"
  /\ Goto(c, "create")
  /\ otps' = [k \in Codes |-> [otps[k] EXCEPT !.isUsed = TRUE]]
  /\ UNCHANGED <<config, recent, expired, account, redis, queue, call, mailbox, history>>

\* The new code; a registration or a login starts its flow with it.  Without
\* Redis the wrong guesses are counted in the code.
Create(c) ==
  LET k == Len(otps) + 1
      f == IF call[c].kind = "begin" THEN k ELSE call[c].flow
  IN /\ pc[c] = "create"
     /\ otps' = Append(otps, [flow |-> f, attempts |-> 0, isUsed |-> FALSE])
     /\ recent' = recent \cup {k}
     /\ call' = [call EXCEPT ![c].flow = f, ![c].held = k]
     /\ Goto(c, IF mode = "queue" THEN "reserve" ELSE "deliver")
     /\ accepted' = Append(accepted, 0)
     /\ guesses' = IF mode = "mongo" THEN 0 ELSE guesses
     /\ UNCHANGED <<config, expired, account, redis, queue, mailbox,
                    promised, crowded, raced, sessions, faults>>

\* "OTP sent successfully"; register, login and resend answer with the flow.
AnswerSent(c) ==
  /\ promised' = promised \cup {call[c].held}
  /\ Done(c)

Fault == faults < MaxFaults /\ faults' = faults + 1

\* Mutant of Deliver: the failure of the mail is swallowed.
DeliverQuietly(c) ==
  /\ pc[c] = "deliver"
  /\ AnswerSent(c)
  /\ \/ mailbox' = mailbox \cup {call[c].held} /\ UNCHANGED faults
     \/ Fault /\ UNCHANGED mailbox
  /\ UNCHANGED <<config, codes, account, redis, queue,
                 accepted, guesses, crowded, raced, sessions>>

\* The mail is sent at once, and its failure is the request's.
Deliver(c) ==
  /\ pc[c] = "deliver"
  /\ \/ /\ mailbox' = mailbox \cup {call[c].held}
        /\ AnswerSent(c)
        /\ UNCHANGED faults
     \/ Fault /\ Done(c) /\ UNCHANGED <<mailbox, promised>>
  /\ UNCHANGED <<config, codes, account, redis, queue,
                 accepted, guesses, crowded, raced, sessions>>

-----------------------------------------------------------------------------
(* The e-mail queue.  The operation of a mail is the purpose of its code,   *)
(* so that an address has one key and one job for each purpose.             *)

\* enqueue reserves the key; a mail whose key is there is a duplicate.
Reserve(c) ==
  /\ pc[c] = "reserve"
  /\ IF dedup = "free"
     THEN dedup' = "queued" /\ Goto(c, "add") /\ UNCHANGED <<call, promised>>
     ELSE AnswerSent(c) /\ UNCHANGED dedup
  /\ UNCHANGED <<config, codes, account, redis, job, mailbox,
                 accepted, guesses, crowded, raced, sessions, faults>>

\* BullMQ adds no job while there is one of the same id.
AddJob(c) ==
  /\ pc[c] = "add"
  /\ job' = IF job.state = "none"
            THEN [state |-> "waiting", code |-> call[c].held, tries |-> 0] ELSE job
  /\ AnswerSent(c)
  /\ UNCHANGED <<config, codes, account, redis, dedup, mailbox,
                 accepted, guesses, crowded, raced, sessions, faults>>

\* The worker: process.
TakeJob ==
  /\ job.state = "waiting"
  /\ job' = [job EXCEPT !.state = "active"]
  /\ dedup' = "processing"
  /\ UNCHANGED <<config, codes, account, redis, pc, call, mailbox, history>>

MailJob ==
  /\ job.state = "active"
  /\ mailbox' = mailbox \cup {job.code}
  /\ job' = [job EXCEPT !.state = "mailed"]
  /\ UNCHANGED <<config, codes, account, redis, dedup, pc, call, history>>

MarkSent ==
  /\ job.state = "mailed"
  /\ job' = [job EXCEPT !.state = "completed"]
  /\ dedup' = "sent"
  /\ UNCHANGED <<config, codes, account, redis, pc, call, mailbox, history>>

\* The mail or its mark fails, or the worker dies and marks nothing, and the
\* job is tried again, so many times.
FailJob ==
  /\ job.state \in {"active", "mailed"}
  /\ Fault
  /\ job' = [job EXCEPT !.tries = @ + 1,
                        !.state = IF job.tries + 1 < JobAttempts THEN "waiting" ELSE "failed"]
  /\ dedup' \in {"failed", dedup}
  /\ UNCHANGED <<config, codes, account, redis, pc, call, mailbox,
                 promised, accepted, guesses, crowded, raced, sessions>>

-----------------------------------------------------------------------------
(* verifyOTP, and the verification of a registration around it.            *)

\* The other verifications that have passed the lock.
Others(c) == {d \in Clients \ {c} : pc[d] \in {"find", "reject", "accept"}}

\* An address that is locked is refused.
PassLock(c, request) ==
  /\ ~locked
  /\ Start(c, "find", request)
  /\ crowded' = crowded \cup ({call[d].held : d \in Others(c)} \ {0})
  /\ UNCHANGED <<config, codes, account, redis, queue, mailbox,
                 promised, accepted, guesses, raced, sessions, faults>>

\* POST checkout/email/verify-otp with a code that was mailed, or a wrong one.
Verify(c, k) == PassLock(c, [NoCall EXCEPT !.kind = "verify", !.code = k])

\* POST auth/registration/verify: a code of the flow can be used.
Confirm(c, f, k) ==
  /\ \E g \in Usable : otps[g].flow = f
  /\ PassLock(c, [NoCall EXCEPT !.kind = "confirm", !.code = k])

TooMany(k) == otps[k].attempts >= MaxAttempts

\* Bound: guesses are counted up to what is too many.
Counted(n) == IF n > MaxAttempts + MaxFaults THEN n ELSE n + 1

\* The code is read, and compared with the one that was entered.
FindCode(c) ==
  /\ pc[c] = "find"
  /\ \/ Usable = {} /\ Done(c) /\ UNCHANGED <<guesses, crowded>>
     \/ \E k \in Usable :
          IF TooMany(k)
          THEN Done(c) /\ UNCHANGED <<guesses, crowded>>
          ELSE /\ call' = [call EXCEPT ![c].code = 0, ![c].held = k, ![c].seen = otps[k].attempts]
               /\ Goto(c, IF call[c].code = k THEN "accept" ELSE "reject")
               /\ guesses' = IF call[c].code = k THEN guesses ELSE Counted(guesses)
               /\ crowded' = IF Others(c) = {} THEN crowded ELSE crowded \cup {k}
  /\ UNCHANGED <<config, codes, account, redis, queue, mailbox,
                 promised, accepted, raced, sessions, faults>>

\* Mutant of Full: one guess more.
OverFull(count) == count > MaxAttempts

Full(count) == count >= MaxAttempts

\* A wrong guess: Redis counts it in one step, and locks the address; the
\* document is saved with one more than what was read.
Reject(c) ==
  /\ pc[c] = "reject"
  /\ Done(c)
  /\ IF mode = "mongo"
     THEN /\ otps' = [otps EXCEPT ![call[c].held].attempts = call[c].seen + 1]
          /\ UNCHANGED <<attempts, locked>>
     ELSE /\ attempts' = IF locked THEN attempts ELSE attempts + 1
          /\ locked' = (locked \/ Full(attempts'))
          /\ UNCHANGED otps
  /\ UNCHANGED <<config, recent, expired, account, cooling, queue, mailbox, history>>

\* Mutant of Consumed: the code is not marked as used.
NotConsumed(k) == otps

Consumed(k) == [otps EXCEPT ![k].isUsed = TRUE]

Accept(c) ==
  /\ pc[c] = "accept"
  /\ otps' = Consumed(call[c].held)
  /\ accepted' = [accepted EXCEPT ![call[c].held] = @ + 1]
  /\ Goto(c, "clear")
  /\ call' = [call EXCEPT ![c] = [NoCall EXCEPT !.kind = call[c].kind]]
  /\ UNCHANGED <<config, recent, expired, account, redis, queue, mailbox,
                 promised, guesses, crowded, raced, sessions, faults>>

\* The counter and the lock are deleted; a checkout gets its proof, and the
\* verification of a registration goes on.
Clear(c) ==
  /\ pc[c] = "clear"
  /\ IF mode = "mongo"
     THEN UNCHANGED <<attempts, locked, guesses>>
     ELSE attempts' = 0 /\ locked' = FALSE /\ guesses' = 0
  /\ IF call[c].kind = "confirm" THEN Goto(c, "activate") /\ UNCHANGED call ELSE Done(c)
  /\ UNCHANGED <<config, codes, account, cooling, queue, mailbox,
                 promised, accepted, crowded, raced, sessions, faults>>

\* Mutant of MayActivate: an account that is verified is found as well.
AnyAccount == account # "none"

\* The filter of the update.
MayActivate == account = "pending"

\* findOneAndUpdate of the account, and the tokens of its first session.
Activate(c) ==
  /\ pc[c] = "activate"
  /\ IF MayActivate THEN account' = "verified" /\ Goto(c, "tokens") /\ UNCHANGED call
     ELSE UNCHANGED account /\ Done(c)
  /\ UNCHANGED <<config, codes, redis, queue, mailbox, history>>

IssueTokens(c) ==
  /\ pc[c] = "tokens"
  /\ sessions' = sessions + 1
  /\ Done(c)
  /\ UNCHANGED <<config, codes, account, redis, queue, mailbox,
                 promised, accepted, guesses, crowded, raced, faults>>

-----------------------------------------------------------------------------
(* Time and faults.                                                        *)

\* The request dies, with the server or with a database.
Crash(c) ==
  /\ pc[c] # "idle"
  /\ Fault /\ Done(c)
  /\ UNCHANGED <<config, codes, account, redis, queue, mailbox,
                 promised, accepted, guesses, crowded, raced, sessions>>

\* The cooldown ends: of a key in Redis, or of a code.
KeyCools ==
  /\ cooling
  /\ cooling' = FALSE
  /\ raced' = (raced \/ Replacing # {})
  /\ UNCHANGED <<config, codes, account, attempts, locked, queue, pc, call, mailbox,
                 promised, accepted, guesses, crowded, sessions, faults>>

CodeCools(k) ==
  /\ mode = "mongo" /\ k \in recent
  /\ recent' = recent \ {k}
  /\ UNCHANGED <<config, otps, expired, account, redis, queue, pc, call, mailbox, history>>

\* In the order in which they were created, 10 minutes after.
CodeExpires(k) ==
  /\ k \in Codes \ expired /\ 1..(k - 1) \subseteq expired
  /\ mode = "mongo" => k \notin recent
  /\ expired' = expired \cup {k}
  /\ UNCHANGED <<config, otps, recent, account, redis, queue, pc, call, mailbox, history>>

\* The counter ends before the lock that it led to: 600 and 900 seconds, unless
\* OTP_LOCK_SECONDS is set to less.
AttemptsEnd ==
  /\ attempts > 0
  /\ attempts' = 0 /\ guesses' = 0
  /\ UNCHANGED <<config, codes, account, cooling, locked, queue, pc, call, mailbox,
                 promised, accepted, crowded, raced, sessions, faults>>

LockEnds ==
  /\ locked /\ attempts = 0
  /\ locked' = FALSE
  /\ UNCHANGED <<config, codes, account, cooling, attempts, queue, pc, call, mailbox, history>>

\* 300 seconds, and 7 days after the mail.
DedupEnds ==
  /\ dedup # "free"
  /\ dedup = "sent" => job.code \in expired \cup {0}
  /\ dedup' = "free"
  /\ raced' = (raced \/ \E c \in Clients : pc[c] = "add")
  /\ UNCHANGED <<config, codes, account, redis, job, pc, call, mailbox,
                 promised, accepted, guesses, crowded, sessions, faults>>

\* removeOnComplete and removeOnFail, after 1 and 7 days.
JobRemoved ==
  /\ job.state \in {"completed", "failed"} /\ job.code \in expired
  /\ job' = NoJob
  /\ UNCHANGED <<config, codes, account, redis, dedup, pc, call, mailbox, history>>

-----------------------------------------------------------------------------

Request(c) ==
  \/ Send(c) \/ Register(c) \/ Login(c)
  \/ \E f \in Given : Resend(c, f)
  \/ \E k \in mailbox \cup {0} : Verify(c, k)
  \/ \E f \in Given, k \in mailbox \cup {0} : Confirm(c, f, k)

Handle(c) ==
  \/ CreateAccount(c)
  \/ CoolDown(c) \/ Invalidate(c) \/ Create(c) \/ Deliver(c)
  \/ Reserve(c) \/ AddJob(c)
  \/ FindCode(c)
  \/ Reject(c) \/ Accept(c) \/ Clear(c)
  \/ Activate(c) \/ IssueTokens(c)

Work == TakeJob \/ MailJob \/ MarkSent \/ FailJob

Time ==
  \/ KeyCools \/ AttemptsEnd \/ LockEnds \/ DedupEnds \/ JobRemoved
  \/ \E k \in Codes : CodeCools(k) \/ CodeExpires(k)

Next ==
  \/ \E c \in Clients : Request(c) \/ Handle(c) \/ Crash(c)
  \/ Work \/ Time

Spec == Init /\ [][Next]_vars

-----------------------------------------------------------------------------
(* Properties.                                                             *)

TypeOK ==
  /\ <<mode, purpose>> \in Settings
  /\ otps \in Seq([flow : Nat, attempts : Nat, isUsed : BOOLEAN])
  /\ recent \subseteq Codes /\ expired \subseteq Codes
  /\ account \in {"none", "pending", "verified"}
  /\ cooling \in BOOLEAN /\ locked \in BOOLEAN /\ attempts \in 0..MaxAttempts
  /\ dedup \in {"free", "queued", "processing", "sent", "failed"}
  /\ job \in [state : {"none", "waiting", "active", "mailed", "completed", "failed"},
             code : {0} \cup Codes, tries : 0..JobAttempts]
  /\ pc \in [Clients -> {"idle", "register", "cooldown", "invalidate", "create", "deliver",
                         "reserve", "add", "find", "reject", "accept",
                         "clear", "activate", "tokens"}]
  /\ call \in [Clients -> [kind : {"none", "begin", "send", "verify", "confirm"},
                           flow : {0} \cup Codes, code : {0} \cup Codes, held : {0} \cup Codes, seen : Nat]]
  /\ mailbox \subseteq Codes /\ promised \subseteq Codes
  /\ accepted \in Seq(Nat) /\ Len(accepted) = Len(otps)
  /\ guesses \in Nat /\ crowded \subseteq Codes /\ raced \in BOOLEAN
  /\ sessions \in Nat /\ faults \in 0..MaxFaults

\* A new code replaces the ones before it: there is one that can be used,
\* unless a request that sends one outlived the cooldown of its key or,
\* without Redis, two passed the cooldown together.
OneUsableCode == raced \/ Cardinality(Usable) <= 1

\* A code is good for one verification (one proof, one account), unless two
\* requests look at it before either has marked it.
CodeUsedOnce == \A k \in Codes \ crowded : accepted[k] <= 1

\* However often codes are sent anew and the lock ends, no more guesses are
\* looked at than the counter allows, unless they are made at once or die
\* before they are counted.
GuessesBounded ==
  raced \/ crowded # {} \/ guesses <= MaxAttempts + faults

\* An account is verified, and signed in by it, once, however many codes and
\* flows it has and however its requests overlap.
OneRegistrationSession ==
  /\ sessions <= 1
  /\ sessions = 1 => account = "verified"

\* The first code is on its way once its request
\* was told so: it was mailed, or its job holds it until the code has expired.
FirstCodeOnItsWay ==
  1 \in promised => raced \/ 1 \in mailbox \cup expired \/ job.code = 1

\* "A new verification code has been sent." (verify-account-form.tsx): a code
\* that a flow asked for anew was mailed, or has a job that holds it.
ResentMeansOnItsWay ==
  \A k \in promised :
    otps[k].flow \in 1..(k - 1)
      => raced \/ k \in mailbox \cup expired \/ job.code = k

=============================================================================
