------------------------------ MODULE Campaign ------------------------------
(***************************************************************************)
(* Sending a campaign: sendCampaign queues one job for each recipient, and *)
(* the workers of the queue send the e-mails and count them in the         *)
(* campaign, whose status they settle.  Meanwhile users give and withdraw  *)
(* their consent, and an administrator edits the campaign or deletes it.   *)
(*                                                                         *)
(* The queue (BullMQ) is external.  A job is known by its recipient and    *)
(* kept when it ends, so that it is added once.  A job that throws is      *)
(* tried again while it has attempts.  A job whose worker dies or does not *)
(* renew its lock in time has stalled: it is given to another worker, once,*)
(* and the first may still be at work on it.                               *)
(***************************************************************************)
EXTENDS Naturals, FiniteSets, SequencesExt

CONSTANTS
  Sends,       \* calls of sendCampaign
  Users,       \* the addresses of the users the campaign is for, whether or not
               \* they consent
  Named,       \* its list of addresses (customerEmails)
  Workers,
  Attempts,    \* attempts of a job (emailQueueMaxAttempts)
  MaxEvents,   \* bound: calls that fail, workers that stall or die, changes
               \* of consents and of the campaign
  Nobody

Recipients == Users \cup Range(Named)

ASSUME CampaignAssumption ==
  /\ IsFiniteSet(Users) /\ Named \in Seq(Range(Named))
  /\ Attempts \in Nat \ {0}
  /\ MaxEvents \in Nat
  /\ Nobody \notin Workers

VARIABLES
  consents,       \* the users with marketingConsent
  audience,       \* the campaign is for "all" of its users or "specific" ones
  status, targetCount, sentCount, failedCount,
  sentEmails,     \* sentEmails[a]: how often a is in the campaign's sentEmails
  sending,        \* where each sendCampaign is
  list,           \* the recipients it has read
  next,           \* index of the recipient it adds next
  job,            \* state of the job of each recipient
  lock,           \* the worker that holds it
  attemptsMade,   \* its failed attempts
  stalled,        \* the jobs that have stalled
  work,           \* where each worker is
  at,             \* the recipient of its job
  verdict,        \* the status it is about to write
  \* History.
  faults, changes,  \* how many of each there were
  delivered,      \* delivered[a]: e-mails sent to a
  unrecorded,     \* recipients of an e-mail that is not recorded, or whose
                  \* job was given to two workers
  agreed,         \* those that consented, or were named, when a request read
                  \* its recipients
  resized         \* a request found another number of recipients than the last

counts   == <<targetCount, sentCount, failedCount, sentEmails>>
campaign == <<audience, status, counts>>
request  == <<sending, list, next>>
queue    == <<job, lock, attemptsMade, stalled>>
worker   == <<work, at, verdict>>
events   == <<faults, changes>>
past     == <<delivered, unrecorded, agreed, resized>>
vars     == <<consents, campaign, request, queue, worker, events, past>>

-----------------------------------------------------------------------------

Init ==
  /\ consents = Users
  /\ audience \in {"all", "specific"}
  /\ status = "draft"
  /\ targetCount = 0 /\ sentCount = 0 /\ failedCount = 0
  /\ sentEmails = [a \in Recipients |-> 0]
  /\ sending = [s \in Sends |-> "check"]
  /\ list = [s \in Sends |-> <<>>]
  /\ next = [s \in Sends |-> 1]
  /\ job = [a \in Recipients |-> "none"]
  /\ lock = [a \in Recipients |-> Nobody]
  /\ attemptsMade = [a \in Recipients |-> 0]
  /\ stalled = {}
  /\ work = [w \in Workers |-> "idle"]
  /\ at = [w \in Workers |-> Nobody]
  /\ verdict = [w \in Workers |-> "none"]
  /\ faults = 0 /\ changes = 0
  /\ delivered = [a \in Recipients |-> 0]
  /\ unrecorded = {}
  /\ agreed = {}
  /\ resized = FALSE

Fault ==
  /\ faults + changes < MaxEvents
  /\ faults' = faults + 1
  /\ UNCHANGED changes

Change ==
  /\ faults + changes < MaxEvents
  /\ changes' = changes + 1
  /\ UNCHANGED faults

Deleted == status = "deleted"

\* findByIdAndUpdate of a status writes nothing when the campaign is gone.
WriteStatus(new) == status' = IF Deleted THEN status ELSE new

-----------------------------------------------------------------------------
(* Users and administrators.                                               *)

\* The switch of the account page.
SetConsent(a) ==
  /\ consents' = IF a \in consents THEN consents \ {a} ELSE consents \cup {a}
  /\ Change
  /\ UNCHANGED <<campaign, request, queue, worker, past>>

\* consumeToken: the link of an e-mail, which may be used again.
Unsubscribe(a) ==
  /\ consents' = consents \ {a}
  /\ Change
  /\ UNCHANGED <<campaign, request, queue, worker, past>>

\* An edit may be saved whatever has become of the campaign since the page
\* showed it as a draft; what it changes here is the audience.
Update ==
  /\ ~Deleted
  /\ audience' = IF audience = "all" THEN "specific" ELSE "all"
  /\ Change
  /\ UNCHANGED <<consents, status, counts, request, queue, worker, past>>

\* A campaign may be deleted at any time, and its list of sent e-mails with it.
Delete ==
  /\ ~Deleted
  /\ status' = "deleted"
  /\ targetCount' = 0 /\ sentCount' = 0 /\ failedCount' = 0
  /\ sentEmails' = [a \in Recipients |-> 0]
  /\ unrecorded' = unrecorded \cup {a \in Recipients : sentEmails[a] > 0}
  /\ Change
  /\ UNCHANGED <<consents, audience, request, queue, worker, delivered, agreed, resized>>

-----------------------------------------------------------------------------
(* sendCampaign.                                                           *)

SendAt(s, label) == sending' = [sending EXCEPT ![s] = label]

Sendable == status \in {"draft", "partially_failed", "failed"}

\* A campaign that is under way, sent or gone is refused.  Its list of
\* addresses is read with it.
CheckStatus(s) ==
  /\ sending[s] = "check"
  /\ IF Sendable /\ audience = "specific"
     THEN /\ list' = [list EXCEPT ![s] = Named]
          /\ agreed' = agreed \cup Range(Named)
          /\ SendAt(s, "queue")
     ELSE /\ SendAt(s, IF Sendable THEN "audience" ELSE "refused")
          /\ UNCHANGED <<list, agreed>>
  /\ UNCHANGED <<consents, campaign, next, queue, worker, events>>
  /\ UNCHANGED <<delivered, unrecorded, resized>>

\* Mutant of Targets: getTargetEmails does not ask for consent.
AllUsers == Users

\* getTargetEmails: the users that consent.
Targets == Users \cap consents

\* The query asks for no order.
ReadAudience(s) ==
  /\ sending[s] = "audience"
  /\ list' = [list EXCEPT ![s] = SetToSeq(Targets)]
  /\ agreed' = agreed \cup consents
  /\ SendAt(s, "queue")
  /\ UNCHANGED <<consents, campaign, next, queue, worker, events>>
  /\ UNCHANGED <<delivered, unrecorded, resized>>

SetQueued(s) ==
  /\ sending[s] = "queue"
  /\ WriteStatus("queued")
  /\ targetCount' = IF Deleted THEN targetCount ELSE Len(list[s])
  /\ resized' = (resized \/ (status # "draft" /\ targetCount' # targetCount))
  /\ SendAt(s, IF list[s] = <<>> THEN "done" ELSE "add")
  /\ UNCHANGED <<consents, audience, sentCount, failedCount, sentEmails, list, next>>
  /\ UNCHANGED <<queue, worker, events, delivered, unrecorded, agreed>>

\* The queue takes a job it does not know.
AddJob(s) ==
  /\ sending[s] = "add"
  /\ LET a == list[s][next[s]]
     IN job' = [job EXCEPT ![a] = IF @ = "none" THEN "waiting" ELSE @]
  /\ next' = [next EXCEPT ![s] = @ + 1]
  /\ SendAt(s, IF next[s] = Len(list[s]) THEN "done" ELSE "add")
  /\ UNCHANGED <<consents, campaign, list, lock, attemptsMade, stalled, worker, events, past>>

SendFails(s) ==
  /\ sending[s] \in {"check", "audience", "queue", "add"}
  /\ SendAt(s, "failed")
  /\ Fault
  /\ UNCHANGED <<consents, campaign, list, next, queue, worker, past>>

-----------------------------------------------------------------------------
(* The queue.                                                              *)

WorkAt(w, label) == work' = [work EXCEPT ![w] = label]

\* It is done with its job.
Rest(w) ==
  /\ WorkAt(w, "idle")
  /\ at' = [at EXCEPT ![w] = Nobody]
  /\ verdict' = [verdict EXCEPT ![w] = "none"]

TakeJob(w) ==
  /\ work[w] = "idle"
  /\ \E a \in Recipients :
       /\ job[a] = "waiting"
       /\ job' = [job EXCEPT ![a] = "active"]
       /\ lock' = [lock EXCEPT ![a] = w]
       /\ at' = [at EXCEPT ![w] = a]
  /\ WorkAt(w, "mark")
  /\ UNCHANGED <<consents, campaign, request, attemptsMade, stalled, verdict, events, past>>

\* Mutant of EndJob: a worker ends its job without looking who has it.
EndAnyJob(w, outcome) ==
  /\ Rest(w)
  /\ job' = [job EXCEPT ![at[w]] = outcome]
  /\ UNCHANGED lock

\* The job ends as its outcome says, unless another worker has it by now.
EndJob(w, outcome) ==
  /\ Rest(w)
  /\ IF lock[at[w]] = w
     THEN /\ job' = [job EXCEPT ![at[w]] = outcome]
          /\ lock' = [lock EXCEPT ![at[w]] = Nobody]
     ELSE UNCHANGED <<job, lock>>

\* What becomes of a job that throws.
AfterThrow(a) == IF attemptsMade[a] + 1 < Attempts THEN "waiting" ELSE "failed"

Throw(w) ==
  /\ EndJob(w, AfterThrow(at[w]))
  /\ attemptsMade' = [attemptsMade EXCEPT ![at[w]] = IF lock[at[w]] = w THEN @ + 1 ELSE @]

\* An active job has lost its worker's lock: it waits again, or fails if it
\* has stalled before.
Stall(a) ==
  /\ job[a] = "active"
  /\ IF lock[a] = Nobody THEN UNCHANGED events ELSE Fault
  /\ job' = [job EXCEPT ![a] = IF a \in stalled THEN "failed" ELSE "waiting"]
  /\ lock' = [lock EXCEPT ![a] = Nobody]
  /\ stalled' = stalled \cup {a}
  /\ unrecorded' = unrecorded \cup {a}
  /\ UNCHANGED <<consents, campaign, request, attemptsMade, worker, delivered, agreed, resized>>

WorkerDies(w) ==
  /\ work[w] # "idle"
  /\ Fault
  /\ Rest(w)
  /\ lock' = [a \in Recipients |-> IF lock[a] = w THEN Nobody ELSE lock[a]]
  /\ unrecorded' = IF work[w] = "record" THEN unrecorded \cup {at[w]} ELSE unrecorded
  /\ UNCHANGED <<consents, campaign, request, job, attemptsMade, stalled>>
  /\ UNCHANGED <<delivered, agreed, resized>>

-----------------------------------------------------------------------------
(* CampaignQueueProcessor.process.                                         *)

MarkProcessing(w) ==
  /\ work[w] = "mark"
  /\ WriteStatus("processing")
  /\ WorkAt(w, "look")
  /\ UNCHANGED <<consents, audience, counts, request, queue, at, verdict, events, past>>

\* Mutant of AlreadySent: the list is not looked at.
NeverSent(a) == FALSE

AlreadySent(a) == sentEmails[a] > 0

\* A recipient on the list has been served: the job is over.
Look(w) ==
  /\ work[w] = "look"
  /\ \/ /\ AlreadySent(at[w])
        /\ EndJob(w, "completed")
     \/ /\ ~AlreadySent(at[w])
        /\ WorkAt(w, "mail")
        /\ UNCHANGED <<job, lock, at, verdict>>
  /\ UNCHANGED <<consents, campaign, request, attemptsMade, stalled, events, past>>

SendMail(w) ==
  /\ work[w] = "mail"
  /\ delivered' = [delivered EXCEPT ![at[w]] = @ + 1]
  /\ WorkAt(w, "record")
  /\ UNCHANGED <<consents, campaign, request, queue, at, verdict, events>>
  /\ UNCHANGED <<unrecorded, agreed, resized>>

\* There is nothing to record it in when the campaign is gone.
Record(w) ==
  /\ work[w] = "record"
  /\ IF Deleted
     THEN /\ unrecorded' = unrecorded \cup {at[w]}
          /\ UNCHANGED <<sentCount, sentEmails>>
     ELSE /\ sentCount' = sentCount + 1
          /\ sentEmails' = [sentEmails EXCEPT ![at[w]] = @ + 1]
          /\ UNCHANGED unrecorded
  /\ WorkAt(w, "count")
  /\ UNCHANGED <<consents, audience, status, targetCount, failedCount, request, queue>>
  /\ UNCHANGED <<at, verdict, events, delivered, agreed, resized>>

\* The try block fails.  An e-mail that was sent stays unrecorded.
Catch(w) ==
  /\ work[w] \in {"look", "mail", "record"}
  /\ Fault
  /\ WorkAt(w, "catch")
  /\ unrecorded' = IF work[w] = "record" THEN unrecorded \cup {at[w]} ELSE unrecorded
  /\ UNCHANGED <<consents, campaign, request, queue, at, verdict, delivered, agreed, resized>>

\* The catch branch counts the failure of the attempt and throws.
CountFailure(w) ==
  /\ work[w] = "catch"
  /\ failedCount' = IF Deleted THEN failedCount ELSE failedCount + 1
  /\ Throw(w)
  /\ UNCHANGED <<consents, audience, status, targetCount, sentCount, sentEmails, request>>
  /\ UNCHANGED <<stalled, events, past>>

\* Mutant of AllCounted: one more is waited for.
MoreThanAll(total) == total > targetCount

AllCounted(total) == total >= targetCount

\* Mutant of Outcome: what was sent counts, not what failed.
OutcomeOfSent(sent, failed) == IF sent > 0 THEN "sent" ELSE "failed"

Outcome(sent, failed) ==
  IF failed = 0 THEN "sent" ELSE IF sent > 0 THEN "partially_failed" ELSE "failed"

ReadCounts(w) ==
  /\ work[w] = "count"
  /\ \/ /\ ~Deleted /\ AllCounted(sentCount + failedCount)
        /\ verdict' = [verdict EXCEPT ![w] = Outcome(sentCount, failedCount)]
        /\ WorkAt(w, "settle")
        /\ UNCHANGED <<job, lock, at>>
     \/ /\ Deleted \/ ~AllCounted(sentCount + failedCount)
        /\ EndJob(w, "completed")
  /\ UNCHANGED <<consents, campaign, request, attemptsMade, stalled, events, past>>

SettleStatus(w) ==
  /\ work[w] = "settle"
  /\ WriteStatus(verdict[w])
  /\ EndJob(w, "completed")
  /\ UNCHANGED <<consents, audience, counts, request, attemptsMade, stalled, events, past>>

\* A call outside of the try block fails: the job throws, uncounted.
ThrowUncounted(w) ==
  /\ work[w] \in {"mark", "catch", "count", "settle"}
  /\ Fault
  /\ Throw(w)
  /\ UNCHANGED <<consents, campaign, request, stalled, past>>

-----------------------------------------------------------------------------

Process(w) ==
  \/ TakeJob(w) \/ MarkProcessing(w) \/ Look(w) \/ SendMail(w) \/ Record(w)
  \/ Catch(w) \/ CountFailure(w) \/ ReadCounts(w) \/ SettleStatus(w)
  \/ ThrowUncounted(w)

SendStep(s) ==
  CheckStatus(s) \/ ReadAudience(s) \/ SetQueued(s) \/ AddJob(s) \/ SendFails(s)

Quiet ==
  /\ \A s \in Sends : sending[s] \in {"done", "refused", "failed"}
  /\ \A a \in Recipients : job[a] \in {"none", "completed", "failed"}
  /\ \A w \in Workers : work[w] = "idle"
  /\ UNCHANGED vars

Next ==
  \/ \E s \in Sends : SendStep(s)
  \/ \E w \in Workers : Process(w) \/ WorkerDies(w)
  \/ \E a \in Recipients : Stall(a)
  \/ \E a \in Users : SetConsent(a) \/ Unsubscribe(a)
  \/ Update \/ Delete
  \/ Quiet

Spec == Init /\ [][Next]_vars

\* A request goes on, a worker takes jobs and goes on with the one it has,
\* and the queue notices a job without a worker.
FairSpec ==
  /\ Spec
  /\ \A s \in Sends : WF_vars(SendStep(s))
  /\ \A w \in Workers : WF_vars(Process(w))
  /\ \A a \in Recipients : WF_vars(lock[a] = Nobody /\ Stall(a))

-----------------------------------------------------------------------------
(* Properties.                                                             *)

\* The values of the variables; only an active job has a worker, and a request
\* adds no more than the list it has read.
TypeOK ==
  /\ consents \subseteq Recipients /\ agreed \subseteq Recipients
  /\ audience \in {"all", "specific"} /\ resized \in BOOLEAN
  /\ status \in {"draft", "queued", "processing", "sent", "partially_failed", "failed", "deleted"}
  /\ targetCount \in Nat /\ sentCount \in Nat /\ failedCount \in Nat
  /\ sentEmails \in [Recipients -> Nat]
  /\ sending \in [Sends -> {"check", "audience", "queue", "add", "done", "refused", "failed"}]
  /\ list \in [Sends -> Seq(Recipients)]
  /\ \A s \in Sends : next[s] \in 1..Len(list[s]) + 1
  /\ job \in [Recipients -> {"none", "waiting", "active", "completed", "failed"}]
  /\ lock \in [Recipients -> Workers \cup {Nobody}]
  /\ \A a \in Recipients : lock[a] # Nobody => job[a] = "active"
  /\ attemptsMade \in [Recipients -> 0..Attempts]
  /\ stalled \subseteq Recipients /\ unrecorded \subseteq Recipients
  /\ work \in [Workers -> {"idle", "mark", "look", "mail", "record", "catch", "count", "settle"}]
  /\ at \in [Workers -> Recipients \cup {Nobody}]
  /\ verdict \in [Workers -> {"none", "sent", "partially_failed", "failed"}]
  /\ faults \in Nat /\ changes \in Nat /\ faults + changes <= MaxEvents
  /\ delivered \in [Recipients -> Nat]

\* A recipient gets one e-mail, whatever is retried and however often the
\* campaign is sent or edited, unless an e-mail went out unrecorded, the
\* record was deleted with the campaign, or a job stalled.
OnceEach == \A a \in Recipients \ unrecorded : delivered[a] <= 1

\* A campaign shown as sent has reached as many recipients as it shows, unless
\* a job that stalled has been counted twice, or a request that overlapped with
\* another found another number of recipients.
SentMeansDelivered ==
  status = "sent" /\ stalled = {} /\ ~resized =>
    Cardinality({a \in Recipients : delivered[a] > 0}) >= targetCount

\* Whoever had withdrawn consent whenever the campaign was sent gets no e-mail
\* of it, whatever was queued before and is retried, unless an administrator
\* named the address.
ConsentRespected == \A a \in Recipients : delivered[a] > 0 => a \in agreed

\* A campaign to distinct addresses that is being processed is settled or
\* deleted, unless something failed or another request queues it meanwhile: it
\* may then be left as it is.
CampaignSettles ==
  status = "processing" /\ (\A s \in Sends : IsInjective(list[s])) ~>
    \/ status \in {"sent", "partially_failed", "failed", "queued", "deleted"}
    \/ faults > 0

=============================================================================
