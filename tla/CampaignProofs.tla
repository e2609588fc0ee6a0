--------------------------- MODULE CampaignProofs ---------------------------
(***************************************************************************)
(* Proofs about Campaign, for any recipients, workers, calls of            *)
(* sendCampaign and attempts: nobody gets the campaign twice, or without   *)
(* having agreed, and a campaign shown as sent has reached its recipients. *)
(***************************************************************************)
EXTENDS Campaign, FiniteSetTheorems, TLAPS

Labels == {"idle", "mark", "look", "mail", "record", "catch", "count", "settle"}

Types ==
  /\ work \in [Workers -> Labels]
  /\ at \in [Workers -> Recipients \cup {Nobody}]
  /\ job \in [Recipients -> {"none", "waiting", "active", "completed", "failed"}]
  /\ lock \in [Recipients -> Workers \cup {Nobody}]
  /\ sentEmails \in [Recipients -> Nat]
  /\ delivered \in [Recipients -> Nat]
  /\ \A w \in Workers : work[w] # "idle" => at[w] \in Recipients

\* A worker is at work on the job of a, and holds its lock.
Busy(w, a) == work[w] # "idle" /\ at[w] = a

Recording(a) == \E w \in Workers : work[w] = "record" /\ at[w] = a

\* What holds of a recipient whose e-mails are all recorded: the e-mails are
\* those of the list and the one that is about to be recorded.
Once(a) ==
  /\ \A w \in Workers : Busy(w, a) => lock[a] = w
  /\ lock[a] \in Workers => job[a] = "active"
  /\ Recording(a) => delivered[a] = 1 /\ sentEmails[a] = 0
  /\ ~Recording(a) => delivered[a] = sentEmails[a] /\ delivered[a] <= 1
  /\ \A w \in Workers : work[w] = "mail" /\ at[w] = a => delivered[a] = 0

OInv == Types /\ \A a \in Recipients \ unrecorded : Once(a)

LEMMA InitOnce == Init => OInv
  BY CampaignAssumption DEF Init, OInv, Types, Labels, Once, Busy, Recording

\* Nothing changes for a recipient whose jobs and e-mails stay as they are.
LEMMA OnceStays ==
  ASSUME NEW a \in Recipients, Once(a),
         lock'[a] = lock[a], job'[a] = job[a], delivered'[a] = delivered[a],
         sentEmails'[a] = sentEmails[a],
         \A w \in Workers : at[w] = a \/ at'[w] = a => at'[w] = at[w] /\ work'[w] = work[w]
  PROVE  Once(a)'
<1>1. \A w \in Workers : Busy(w, a)' <=> Busy(w, a)
  BY DEF Busy
<1>2. Recording(a)' <=> Recording(a)
  BY DEF Recording
<1>. QED
  BY <1>1, <1>2 DEF Once

\* A worker goes on with its job, to a step that neither sends nor records.
LEMMA WorkerGoesOn ==
  ASSUME OInv, NEW w \in Workers, work[w] \notin {"idle", "record"},
         NEW label \in Labels \ {"idle", "mail", "record"}, WorkAt(w, label),
         UNCHANGED <<at, job, lock, sentEmails, delivered>>, unrecorded \subseteq unrecorded'
  PROVE  OInv'
<1>1. Types'
  BY DEF OInv, Types, WorkAt
<1>2. ASSUME NEW a \in Recipients \ unrecorded' PROVE Once(a)'
  <2>1. Once(a)
    BY <1>2 DEF OInv
  <2>2. \A v \in Workers : work'[v] = IF v = w THEN label ELSE work[v]
    BY DEF OInv, Types, WorkAt
  <2>3. Recording(a)' <=> Recording(a)
    BY <2>2 DEF Recording
  <2>4. \A v \in Workers : Busy(v, a)' => Busy(v, a)
    BY <2>2 DEF Busy
  <2>. QED
    BY <2>1, <2>2, <2>3, <2>4 DEF Once
<1>. QED
  BY <1>1, <1>2 DEF OInv

\* A worker ends its job, in a step that is not that of recording.
LEMMA WorkerRests ==
  ASSUME OInv, NEW w \in Workers, work[w] \notin {"idle", "record"},
         NEW outcome \in {"waiting", "completed", "failed"}, EndJob(w, outcome),
         UNCHANGED <<sentEmails, delivered>>, unrecorded \subseteq unrecorded'
  PROVE  OInv'
<1>1. /\ at[w] \in Recipients
      /\ \A v \in Workers : /\ work'[v] = IF v = w THEN "idle" ELSE work[v]
                            /\ at'[v] = IF v = w THEN Nobody ELSE at[v]
  BY DEF OInv, Types, EndJob, Rest, WorkAt
<1>2. Types'
  BY <1>1 DEF OInv, Types, EndJob, Rest, WorkAt, Labels
<1>3. ASSUME NEW a \in Recipients \ unrecorded' PROVE Once(a)'
  <2>1. Once(a)
    BY <1>3 DEF OInv
  <2>2. Recording(a)' <=> Recording(a)
    BY <1>1 DEF Recording
  <2>3. \A v \in Workers : Busy(v, a)' => v # w /\ Busy(v, a)
    BY <1>1 DEF Busy
  <2>4. CASE at[w] = a
    <3>1. lock[a] = w
      BY <2>1, <2>4 DEF Once, Busy
    <3>2. lock'[a] = Nobody
      BY <2>4, <3>1 DEF EndJob, OInv, Types
    <3>3. \A v \in Workers : ~Busy(v, a)'
      BY <2>1, <2>3, <3>1 DEF Once
    <3>. QED
      BY <1>1, <2>1, <2>2, <3>2, <3>3, CampaignAssumption DEF Once, Busy
  <2>5. CASE at[w] # a
    <3>1. lock'[a] = lock[a] /\ job'[a] = job[a]
      BY <2>5 DEF EndJob, OInv, Types
    <3>. QED
      BY <1>1, <2>1, <2>2, <2>3, <3>1 DEF Once
  <2>. QED
    BY <2>4, <2>5
<1>. QED
  BY <1>2, <1>3 DEF OInv

LEMMA ThrowRests ==
  ASSUME OInv, NEW w \in Workers, work[w] \notin {"idle", "record"}, Throw(w),
         UNCHANGED <<sentEmails, delivered>>, unrecorded \subseteq unrecorded'
  PROVE  OInv'
<1>1. AfterThrow(at[w]) \in {"waiting", "completed", "failed"}
  BY DEF AfterThrow
<1>. QED
  BY <1>1, WorkerRests DEF Throw

-----------------------------------------------------------------------------
(* The queue.                                                              *)

LEMMA AddJobOnce ==
  ASSUME OInv, NEW s \in Sends, AddJob(s)
  PROVE  OInv'
<1>1. /\ UNCHANGED <<work, at, lock, sentEmails, delivered, unrecorded>>
      /\ job' \in [Recipients -> {"none", "waiting", "active", "completed", "failed"}]
      /\ \A a \in Recipients : job[a] = "active" => job'[a] = "active"
  BY DEF AddJob, OInv, Types, worker, past, campaign, counts
<1>2. Types'
  BY <1>1 DEF OInv, Types
<1>3. ASSUME NEW a \in Recipients \ unrecorded' PROVE Once(a)'
  BY <1>1, <1>3 DEF OInv, Once, Busy, Recording
<1>. QED
  BY <1>2, <1>3 DEF OInv

LEMMA TakeJobOnce ==
  ASSUME OInv, NEW w \in Workers, TakeJob(w)
  PROVE  OInv'
<1>1. PICK b \in Recipients :
        /\ job[b] = "waiting" /\ work[w] = "idle"
        /\ job' = [job EXCEPT ![b] = "active"]
        /\ lock' = [lock EXCEPT ![b] = w]
        /\ at' = [at EXCEPT ![w] = b]
        /\ work' = [work EXCEPT ![w] = "mark"]
        /\ UNCHANGED <<sentEmails, delivered, unrecorded>>
  BY DEF TakeJob, WorkAt, campaign, counts, past
<1>2. Types'
  BY <1>1 DEF OInv, Types, Labels
<1>3. ASSUME NEW a \in Recipients \ unrecorded' PROVE Once(a)'
  <2>1. Once(a)
    BY <1>1, <1>3 DEF OInv
  <2>2. \A v \in Workers : /\ work'[v] = IF v = w THEN "mark" ELSE work[v]
                           /\ at'[v] = IF v = w THEN b ELSE at[v]
    BY <1>1 DEF OInv, Types
  <2>3. Recording(a)' <=> Recording(a)
    BY <1>1, <2>2 DEF Recording
  <2>4. CASE a = b
    <3>1. lock[a] \notin Workers
      BY <1>1, <2>1, <2>4 DEF Once
    <3>2. \A v \in Workers : ~Busy(v, a)
      BY <2>1, <3>1 DEF Once
    <3>3. \A v \in Workers : Busy(v, a)' => v = w
      BY <2>2, <3>2 DEF Busy
    <3>4. lock'[a] = w /\ job'[a] = "active"
      BY <1>1, <2>4 DEF OInv, Types
    <3>. QED
      BY <1>1, <2>1, <2>2, <2>3, <3>3, <3>4 DEF Once
  <2>5. CASE a # b
    <3>1. lock'[a] = lock[a] /\ job'[a] = job[a]
      BY <1>1, <2>5 DEF OInv, Types
    <3>2. \A v \in Workers : Busy(v, a)' => Busy(v, a)
      BY <2>2, <2>5 DEF Busy
    <3>. QED
      BY <1>1, <2>1, <2>2, <2>3, <2>5, <3>1, <3>2 DEF Once
  <2>. QED
    BY <2>4, <2>5
<1>. QED
  BY <1>2, <1>3 DEF OInv

LEMMA StallOnce ==
  ASSUME OInv, NEW b \in Recipients, Stall(b)
  PROVE  OInv'
<1>1. /\ job' = [job EXCEPT ![b] = IF b \in stalled THEN "failed" ELSE "waiting"]
      /\ lock' = [lock EXCEPT ![b] = Nobody]
      /\ unrecorded' = unrecorded \cup {b}
      /\ UNCHANGED <<work, at, sentEmails, delivered>>
  BY DEF Stall, campaign, counts, worker
<1>2. Types'
  BY <1>1 DEF OInv, Types
<1>3. ASSUME NEW a \in Recipients \ unrecorded' PROVE Once(a)'
  <2>1. Once(a) /\ a # b
    BY <1>1, <1>3 DEF OInv
  <2>. QED
    BY <1>1, <2>1, OnceStays DEF OInv, Types
<1>. QED
  BY <1>2, <1>3 DEF OInv

LEMMA WorkerDiesOnce ==
  ASSUME OInv, NEW w \in Workers, WorkerDies(w)
  PROVE  OInv'
<1>1. /\ work[w] # "idle"
      /\ work' = [work EXCEPT ![w] = "idle"] /\ at' = [at EXCEPT ![w] = Nobody]
      /\ lock' = [a \in Recipients |-> IF lock[a] = w THEN Nobody ELSE lock[a]]
      /\ unrecorded' = IF work[w] = "record" THEN unrecorded \cup {at[w]} ELSE unrecorded
      /\ UNCHANGED <<job, sentEmails, delivered>>
  BY DEF WorkerDies, Rest, WorkAt, campaign, counts
<1>2. Types'
  BY <1>1 DEF OInv, Types, Labels
<1>3. ASSUME NEW a \in Recipients \ unrecorded' PROVE Once(a)'
  <2>1. Once(a)
    BY <1>1, <1>3 DEF OInv
  <2>2. \A v \in Workers : /\ work'[v] = IF v = w THEN "idle" ELSE work[v]
                           /\ at'[v] = IF v = w THEN Nobody ELSE at[v]
    BY <1>1 DEF OInv, Types
  <2>3. Recording(a)' <=> Recording(a)
    BY <1>1, <1>3, <2>2 DEF Recording
  <2>4. \A v \in Workers : Busy(v, a)' => v # w /\ Busy(v, a)
    BY <2>2 DEF Busy
  <2>5. lock'[a] = IF lock[a] = w THEN Nobody ELSE lock[a]
    BY <1>1
  <2>. QED
    BY <1>1, <2>1, <2>2, <2>3, <2>4, <2>5, CampaignAssumption DEF Once
<1>. QED
  BY <1>2, <1>3 DEF OInv

-----------------------------------------------------------------------------
(* process.                                                                *)

LEMMA LookOnce ==
  ASSUME OInv, NEW w \in Workers, Look(w)
  PROVE  OInv'
<1>1. work[w] = "look" /\ UNCHANGED <<sentEmails, delivered, unrecorded>>
  BY DEF Look, campaign, counts, past
<1>2. CASE EndJob(w, "completed")
  BY <1>1, <1>2, WorkerRests
<1>3. CASE ~AlreadySent(at[w]) /\ WorkAt(w, "mail") /\ UNCHANGED <<job, lock, at>>
  <2>1. Types'
    BY <1>1, <1>3 DEF OInv, Types, WorkAt, Labels
  <2>2. ASSUME NEW a \in Recipients \ unrecorded' PROVE Once(a)'
    <3>1. Once(a) /\ at[w] \in Recipients
      BY <1>1, <2>2 DEF OInv, Types
    <3>2. \A v \in Workers : work'[v] = IF v = w THEN "mail" ELSE work[v]
      BY <1>3 DEF OInv, Types, WorkAt
    <3>3. Recording(a)' <=> Recording(a)
      BY <1>1, <1>3, <3>2 DEF Recording
    <3>4. \A v \in Workers : Busy(v, a)' => Busy(v, a)
      BY <1>1, <1>3, <3>2 DEF Busy
    <3>5. at[w] = a => delivered[a] = 0
      <4>1. SUFFICES ASSUME at[w] = a PROVE delivered[a] = 0
        OBVIOUS
      <4>2. lock[a] = w
        BY <1>1, <3>1, <4>1 DEF Once, Busy
      <4>3. ~Recording(a)
        BY <1>1, <3>1, <4>2 DEF Once, Busy, Recording
      <4>. QED
        BY <1>3, <3>1, <4>1, <4>3 DEF Once, AlreadySent, OInv, Types
    <3>. QED
      BY <1>1, <1>3, <3>1, <3>2, <3>3, <3>4, <3>5 DEF Once
  <2>. QED
    BY <2>1, <2>2 DEF OInv
<1>. QED
  BY <1>2, <1>3 DEF Look

LEMMA SendMailOnce ==
  ASSUME OInv, NEW w \in Workers, SendMail(w)
  PROVE  OInv'
<1>1. /\ work[w] = "mail" /\ at[w] \in Recipients
      /\ delivered' = [delivered EXCEPT ![at[w]] = @ + 1]
      /\ WorkAt(w, "record")
      /\ UNCHANGED <<at, job, lock, sentEmails, unrecorded>>
  BY DEF SendMail, campaign, counts, queue, OInv, Types
<1>2. Types'
  BY <1>1 DEF OInv, Types, WorkAt, Labels
<1>3. ASSUME NEW a \in Recipients \ unrecorded' PROVE Once(a)'
  <2>1. Once(a)
    BY <1>1, <1>3 DEF OInv
  <2>2. \A v \in Workers : work'[v] = IF v = w THEN "record" ELSE work[v]
    BY <1>1 DEF OInv, Types, WorkAt
  <2>3. \A v \in Workers : Busy(v, a)' => Busy(v, a)
    BY <1>1, <2>2 DEF Busy
  <2>4. CASE at[w] = a
    <3>1. lock[a] = w /\ delivered[a] = 0 /\ \A v \in Workers : Busy(v, a) => v = w
      BY <1>1, <2>1, <2>4 DEF Once, Busy
    <3>2. ~Recording(a) /\ sentEmails[a] = 0
      BY <1>1, <2>1, <3>1 DEF Once, Busy, Recording
    <3>3. Recording(a)' /\ delivered'[a] = 1
      BY <1>1, <2>2, <2>4, <3>1 DEF Recording, OInv, Types
    <3>4. \A v \in Workers : at[v] = a /\ work'[v] = "mail" => v # w /\ Busy(v, a)
      BY <2>2 DEF Busy
    <3>. QED
      BY <1>1, <2>1, <2>3, <3>1, <3>2, <3>3, <3>4 DEF Once
  <2>5. CASE at[w] # a
    <3>1. delivered'[a] = delivered[a]
      BY <1>1, <2>5 DEF OInv, Types
    <3>. QED
      BY <1>1, <2>1, <2>2, <2>5, <3>1, OnceStays
  <2>. QED
    BY <2>4, <2>5
<1>. QED
  BY <1>2, <1>3 DEF OInv

LEMMA RecordOnce ==
  ASSUME OInv, NEW w \in Workers, Record(w)
  PROVE  OInv'
<1>1. /\ work[w] = "record" /\ at[w] \in Recipients
      /\ \/ unrecorded' = unrecorded \cup {at[w]} /\ sentEmails' = sentEmails
         \/ /\ sentEmails' = [sentEmails EXCEPT ![at[w]] = @ + 1]
            /\ unrecorded' = unrecorded
      /\ WorkAt(w, "count")
      /\ UNCHANGED <<at, job, lock, delivered>>
  BY DEF Record, queue, OInv, Types
<1>2. Types'
  BY <1>1 DEF OInv, Types, WorkAt, Labels
<1>3. ASSUME NEW a \in Recipients \ unrecorded' PROVE Once(a)'
  <2>1. Once(a)
    BY <1>1, <1>3 DEF OInv
  <2>2. \A v \in Workers : work'[v] = IF v = w THEN "count" ELSE work[v]
    BY <1>1 DEF OInv, Types, WorkAt
  <2>3. \A v \in Workers : Busy(v, a)' => Busy(v, a)
    BY <1>1, <2>2 DEF Busy
  <2>4. CASE at[w] = a
    <3>1. lock[a] = w /\ Recording(a) /\ \A v \in Workers : Busy(v, a) => v = w
      BY <1>1, <2>1, <2>4 DEF Once, Busy, Recording
    <3>2. sentEmails'[a] = 1 /\ delivered[a] = 1
      BY <1>1, <1>3, <2>1, <2>4, <3>1 DEF Once, OInv, Types
    <3>3. \A v \in Workers : at[v] = a => work'[v] \notin {"record", "mail"}
      BY <2>2, <3>1 DEF Busy
    <3>4. ~Recording(a)'
      BY <1>1, <3>3 DEF Recording
    <3>. QED
      BY <1>1, <2>1, <2>3, <3>2, <3>3, <3>4 DEF Once
  <2>5. CASE at[w] # a
    <3>1. sentEmails'[a] = sentEmails[a]
      BY <1>1, <2>5 DEF OInv, Types
    <3>. QED
      BY <1>1, <2>1, <2>2, <2>5, <3>1, OnceStays
  <2>. QED
    BY <2>4, <2>5
<1>. QED
  BY <1>2, <1>3 DEF OInv

LEMMA CatchOnce ==
  ASSUME OInv, NEW w \in Workers, Catch(w)
  PROVE  OInv'
<1>1. /\ work[w] \in {"look", "mail", "record"} /\ at[w] \in Recipients
      /\ WorkAt(w, "catch")
      /\ unrecorded' = IF work[w] = "record" THEN unrecorded \cup {at[w]} ELSE unrecorded
      /\ UNCHANGED <<at, job, lock, sentEmails, delivered>>
  BY DEF Catch, queue, campaign, counts, OInv, Types
<1>2. CASE work[w] # "record"
  BY <1>1, <1>2, WorkerGoesOn DEF Labels
<1>3. CASE work[w] = "record"
  <2>1. Types'
    BY <1>1 DEF OInv, Types, WorkAt, Labels
  <2>2. ASSUME NEW a \in Recipients \ unrecorded' PROVE Once(a)'
    <3>1. Once(a) /\ at[w] # a
      BY <1>1, <1>3, <2>2 DEF OInv
    <3>2. \A v \in Workers : work'[v] = IF v = w THEN "catch" ELSE work[v]
      BY <1>1 DEF OInv, Types, WorkAt
    <3>. QED
      BY <1>1, <3>1, <3>2, OnceStays
  <2>. QED
    BY <2>1, <2>2 DEF OInv
<1>. QED
  BY <1>2, <1>3

\* The record goes with the campaign: its recipients count as unrecorded.
LEMMA DeleteOnce ==
  ASSUME OInv, Delete
  PROVE  OInv'
<1>1. /\ sentEmails' = [a \in Recipients |-> 0]
      /\ unrecorded' = unrecorded \cup {a \in Recipients : sentEmails[a] > 0}
      /\ UNCHANGED <<work, at, job, lock, delivered>>
  BY DEF Delete, worker, queue
<1>2. Types'
  BY <1>1 DEF OInv, Types
<1>3. ASSUME NEW a \in Recipients \ unrecorded' PROVE Once(a)'
  <2>1. Once(a) /\ sentEmails[a] = 0 /\ sentEmails'[a] = 0
    BY <1>1, <1>3 DEF OInv, Types
  <2>. QED
    BY <1>1, <2>1, OnceStays
<1>. QED
  BY <1>2, <1>3 DEF OInv

-----------------------------------------------------------------------------

LEMMA ProcessOnce ==
  ASSUME OInv, NEW w \in Workers, Process(w)
  PROVE  OInv'
<1>1. CASE MarkProcessing(w)
  BY <1>1, WorkerGoesOn DEF MarkProcessing, Labels, counts, queue, past
<1>2. CASE CountFailure(w)
  BY <1>2, ThrowRests DEF CountFailure, past
<1>3. CASE ReadCounts(w)
  <2>1. work[w] = "count" /\ UNCHANGED <<sentEmails, delivered, unrecorded>>
    BY <1>3 DEF ReadCounts, campaign, counts, past
  <2>2. \/ WorkAt(w, "settle") /\ UNCHANGED <<job, lock, at>>
        \/ EndJob(w, "completed")
    BY <1>3 DEF ReadCounts
  <2>. QED
    BY <2>1, <2>2, WorkerGoesOn, WorkerRests DEF Labels
<1>4. CASE SettleStatus(w)
  BY <1>4, WorkerRests DEF SettleStatus, counts, past
<1>5. CASE ThrowUncounted(w)
  BY <1>5, ThrowRests DEF ThrowUncounted, campaign, counts, past
<1>. QED
  BY <1>1, <1>2, <1>3, <1>4, <1>5, TakeJobOnce, LookOnce, SendMailOnce, RecordOnce, CatchOnce
     DEF Process

\* Requests and edits touch neither workers nor e-mails.
LEMMA ElsewhereOnce ==
  ASSUME OInv, UNCHANGED <<work, at, job, lock, sentEmails, delivered, unrecorded>>
  PROVE  OInv'
<1>1. Types'
  BY DEF OInv, Types
<1>2. ASSUME NEW a \in Recipients \ unrecorded' PROVE Once(a)'
  BY <1>2, OnceStays DEF OInv
<1>. QED
  BY <1>1, <1>2 DEF OInv

LEMMA NextOnce == OInv /\ [Next]_vars => OInv'
<1> SUFFICES ASSUME OInv, [Next]_vars PROVE OInv'
  OBVIOUS
<1>1. ASSUME NEW s \in Sends, SendStep(s) PROVE OInv'
  <2>1. CASE AddJob(s)
    BY <2>1, AddJobOnce
  <2>2. CASE CheckStatus(s) \/ ReadAudience(s) \/ SetQueued(s) \/ SendFails(s)
    BY <2>2, ElsewhereOnce
       DEF CheckStatus, ReadAudience, SetQueued, SendFails, worker, queue, campaign, counts, past
  <2>. QED
    BY <1>1, <2>1, <2>2 DEF SendStep
<1>2. ASSUME NEW a \in Users, SetConsent(a) \/ Unsubscribe(a) PROVE OInv'
  BY <1>2, ElsewhereOnce DEF SetConsent, Unsubscribe, worker, queue, campaign, counts, past
<1>3. CASE Update
  BY <1>3, ElsewhereOnce DEF Update, worker, queue, counts, past
<1>4. CASE UNCHANGED vars
  BY <1>4, ElsewhereOnce DEF vars, worker, queue, campaign, counts, past
<1>. QED
  BY <1>1, <1>2, <1>3, <1>4, ProcessOnce, WorkerDiesOnce, StallOnce, DeleteOnce DEF Next, Quiet

\* A recipient gets one e-mail, whatever is retried and however often the
\* campaign is sent, edited or deleted, unless an e-mail is not recorded or two
\* workers have had the job.
THEOREM NobodyTwice == Spec => []OnceEach
<1>1. OInv => OnceEach
  BY DEF OInv, Types, Once, OnceEach
<1>. QED
  BY <1>1, InitOnce, NextOnce, PTL DEF Spec

-----------------------------------------------------------------------------
(* Types.                                                                  *)

Statuses ==
  {"draft", "queued", "processing", "sent", "partially_failed", "failed", "deleted"}

CampaignTypes ==
  /\ audience \in {"all", "specific"} /\ resized \in BOOLEAN
  /\ status \in Statuses
  /\ targetCount \in Nat /\ sentCount \in Nat /\ failedCount \in Nat

\* A request starts with its first recipient and has not passed its last.
RequestTypes ==
  /\ sending \in [Sends -> {"check", "audience", "queue", "add", "done", "refused", "failed"}]
  /\ list \in [Sends -> Seq(Recipients)]
  /\ next \in [Sends -> Nat]
  /\ \A s \in Sends :
       /\ next[s] \in 1..Len(list[s]) + 1
       /\ sending[s] \in {"check", "audience", "queue"} => next[s] = 1
       /\ sending[s] = "add" => next[s] <= Len(list[s])

\* A job that is not over has an attempt left, and only an active one a worker.
JobTypes ==
  /\ attemptsMade \in [Recipients -> Nat]
  /\ \A a \in Recipients :
       /\ attemptsMade[a] <= Attempts
       /\ job[a] \in {"none", "waiting", "active"} => attemptsMade[a] + 1 <= Attempts
       /\ lock[a] # Nobody => job[a] = "active"

\* A worker has a verdict while it is about to write it.
VerdictTypes ==
  /\ verdict \in [Workers -> {"none", "sent", "partially_failed", "failed"}]
  /\ \A w \in Workers : verdict[w] # "none" <=> work[w] = "settle"

PastTypes ==
  /\ consents \subseteq Recipients /\ agreed \subseteq Recipients
  /\ stalled \subseteq Recipients /\ unrecorded \subseteq Recipients
  /\ faults \in Nat /\ changes \in Nat /\ faults + changes <= MaxEvents

TypesInv == OInv /\ CampaignTypes /\ RequestTypes /\ JobTypes /\ VerdictTypes /\ PastTypes

\* What getTargetEmails hands over lists users that consent.
LEMMA TargetsListed ==
  ASSUME PastTypes
  PROVE  /\ SetToSeq(Targets) \in Seq(Recipients)
         /\ \A i \in 1..Len(SetToSeq(Targets)) : SetToSeq(Targets)[i] \in consents
<1>1. IsFiniteSet(Targets)
  BY CampaignAssumption, FS_Subset DEF Targets
<1>2. Cardinality(Targets) \in Nat /\ ExistsBijection(1..Cardinality(Targets), Targets)
  BY <1>1, FS_CardinalityType
<1>3. \E f \in [1..Cardinality(Targets) -> Targets] : IsInjective(f)
  BY <1>2 DEF ExistsBijection, Bijection, Injection, IsInjective
<1>4. SetToSeq(Targets) \in [1..Cardinality(Targets) -> Targets]
  BY <1>3 DEF SetToSeq
<1>5. SetToSeq(Targets) \in Seq(Targets) /\ Len(SetToSeq(Targets)) = Cardinality(Targets)
  BY <1>2, <1>4
<1>6. DOMAIN SetToSeq(Targets) = 1..Len(SetToSeq(Targets)) /\ Targets \subseteq Recipients
  BY <1>5 DEF Targets, Recipients
<1>7. SetToSeq(Targets) \in Seq(Recipients)
  BY <1>5, <1>6
<1>8. \A i \in 1..Len(SetToSeq(Targets)) : SetToSeq(Targets)[i] \in Targets
  BY <1>5
<1>. QED
  BY <1>7, <1>8 DEF Targets

LEMMA InitTypes == Init => TypesInv
<1> SUFFICES ASSUME Init PROVE TypesInv
  OBVIOUS
<1>1. OInv
  BY InitOnce
<1>2. CampaignTypes /\ VerdictTypes
  BY DEF Init, CampaignTypes, VerdictTypes, Statuses
<1>5. PastTypes
  BY CampaignAssumption DEF Init, PastTypes, Recipients
<1>3. RequestTypes
  BY DEF Init, RequestTypes
<1>4. JobTypes
  BY CampaignAssumption DEF Init, JobTypes
<1>. QED
  BY <1>1, <1>2, <1>3, <1>4, <1>5 DEF TypesInv

LEMMA RequestTyped ==
  ASSUME TypesInv, NEW s \in Sends, SendStep(s)
  PROVE  RequestTypes'
<1>0. /\ \A i \in Sends : list[i] \in Seq(Recipients) /\ next[i] \in Nat /\ Len(list[i]) \in Nat
      /\ Named \in Seq(Recipients)
  BY CampaignAssumption DEF TypesInv, RequestTypes, Recipients
<1>1. CASE CheckStatus(s)
  <2>1. CASE Sendable /\ audience = "specific"
    <3>1. /\ sending[s] = "check" /\ UNCHANGED next
          /\ sending' = [sending EXCEPT ![s] = "queue"] /\ list' = [list EXCEPT ![s] = Named]
      BY <1>1, <2>1 DEF CheckStatus, SendAt
    <3>2. next[s] = 1 /\ next[s] \in 1..Len(Named) + 1
      BY <1>0, <3>1 DEF TypesInv, RequestTypes
    <3>. QED
      BY <1>0, <3>1, <3>2 DEF TypesInv, RequestTypes
  <2>2. CASE ~(Sendable /\ audience = "specific")
    <3>1. sending' = [sending EXCEPT ![s] = "audience"] \/ sending' = [sending EXCEPT ![s] = "refused"]
      BY <1>1, <2>2 DEF CheckStatus, SendAt
    <3>2. sending[s] = "check" /\ UNCHANGED <<list, next>>
      BY <1>1, <2>2 DEF CheckStatus
    <3>. QED
      BY <1>0, <3>1, <3>2 DEF TypesInv, RequestTypes
  <2>. QED
    BY <2>1, <2>2
<1>2. CASE ReadAudience(s)
  <2>1. SetToSeq(Targets) \in Seq(Recipients)
    BY TargetsListed DEF TypesInv
  <2>. QED
    BY <1>0, <1>2, <2>1 DEF ReadAudience, SendAt, TypesInv, RequestTypes
<1>3. CASE SetQueued(s)
  <2>1. /\ sending[s] = "queue" /\ UNCHANGED <<list, next>>
        /\ sending' = [sending EXCEPT ![s] = IF list[s] = <<>> THEN "done" ELSE "add"]
    BY <1>3 DEF SetQueued, SendAt
  <2>2. list[s] # <<>> => 1 <= Len(list[s])
    BY <1>0
  <2>. QED
    BY <1>0, <2>1, <2>2 DEF TypesInv, RequestTypes
<1>4. CASE AddJob(s)
  <2>1. /\ sending[s] = "add" /\ UNCHANGED list
        /\ next' = [next EXCEPT ![s] = next[s] + 1]
        /\ sending' = [sending EXCEPT ![s] = IF next[s] = Len(list[s]) THEN "done" ELSE "add"]
    BY <1>4 DEF AddJob, SendAt
  <2>. QED
    BY <1>0, <2>1 DEF TypesInv, RequestTypes
<1>5. CASE SendFails(s)
  BY <1>0, <1>5 DEF SendFails, SendAt, TypesInv, RequestTypes
<1>. QED
  BY <1>1, <1>2, <1>3, <1>4, <1>5 DEF SendStep

\* A job ends, and has an attempt left if it waits for one.
LEMMA EndJobTyped ==
  ASSUME TypesInv, NEW w \in Workers, work[w] # "idle",
         NEW outcome \in {"waiting", "completed", "failed"}, EndJob(w, outcome),
         attemptsMade' \in [Recipients -> Nat],
         \A a \in Recipients : attemptsMade'[a] = attemptsMade[a] \/ (a = at[w] /\ lock[a] = w),
         attemptsMade'[at[w]] <= Attempts,
         outcome = "waiting" => attemptsMade'[at[w]] + 1 <= Attempts
  PROVE  JobTypes'
<1>1. at[w] \in Recipients /\ job \in [Recipients -> {"none", "waiting", "active", "completed", "failed"}]
      /\ lock \in [Recipients -> Workers \cup {Nobody}]
  BY DEF TypesInv, OInv, Types
<1>2. ASSUME NEW a \in Recipients
      PROVE  /\ attemptsMade'[a] <= Attempts
             /\ job'[a] \in {"none", "waiting", "active"} => attemptsMade'[a] + 1 <= Attempts
             /\ lock'[a] # Nobody => job'[a] = "active"
  <2>1. CASE a = at[w] /\ lock[a] = w
    <3>1. job'[a] = outcome /\ lock'[a] = Nobody
      BY <1>1, <2>1 DEF EndJob
    <3>. QED
      BY <2>1, <3>1
  <2>2. CASE ~(a = at[w] /\ lock[a] = w)
    <3>1. job'[a] = job[a] /\ lock'[a] = lock[a] /\ attemptsMade'[a] = attemptsMade[a]
      BY <1>1, <2>2 DEF EndJob
    <3>. QED
      BY <3>1 DEF TypesInv, JobTypes
  <2>. QED
    BY <2>1, <2>2
<1>. QED
  BY <1>2 DEF JobTypes

LEMMA ThrowTyped ==
  ASSUME TypesInv, NEW w \in Workers, work[w] # "idle", Throw(w)
  PROVE  JobTypes'
<1>1. at[w] \in Recipients /\ attemptsMade \in [Recipients -> Nat] /\ Attempts \in Nat
  BY CampaignAssumption DEF TypesInv, OInv, Types, JobTypes
<1>2. /\ attemptsMade' = [attemptsMade EXCEPT ![at[w]] =
                            IF lock[at[w]] = w THEN attemptsMade[at[w]] + 1 ELSE attemptsMade[at[w]]]
      /\ EndJob(w, AfterThrow(at[w]))
  BY DEF Throw
<1>3. /\ attemptsMade' \in [Recipients -> Nat]
      /\ \A a \in Recipients : attemptsMade'[a] = attemptsMade[a] \/ (a = at[w] /\ lock[a] = w)
  BY <1>1, <1>2
<1>4. lock[at[w]] = w => attemptsMade[at[w]] + 1 <= Attempts
  <2>1. lock[at[w]] = w => job[at[w]] = "active"
    BY <1>1, CampaignAssumption DEF TypesInv, JobTypes
  <2>. QED
    BY <1>1, <2>1 DEF TypesInv, JobTypes
<1>5. CASE lock[at[w]] = w
  <2>1. attemptsMade'[at[w]] = attemptsMade[at[w]] + 1
    BY <1>1, <1>2, <1>5
  <2>2. AfterThrow(at[w]) = "waiting" => attemptsMade[at[w]] + 1 < Attempts
    BY DEF AfterThrow
  <2>3. AfterThrow(at[w]) \in {"waiting", "completed", "failed"}
    BY DEF AfterThrow
  <2>. QED
    BY <1>1, <1>2, <1>3, <1>4, <1>5, <2>1, <2>2, <2>3, EndJobTyped
<1>6. CASE lock[at[w]] # w
  <2>1. attemptsMade' = attemptsMade /\ UNCHANGED <<job, lock>>
    BY <1>1, <1>2, <1>6 DEF EndJob
  <2>. QED
    BY <2>1 DEF TypesInv, JobTypes
<1>. QED
  BY <1>5, <1>6

LEMMA WorkerTyped ==
  ASSUME TypesInv, NEW w \in Workers, Process(w) \/ WorkerDies(w)
  PROVE  JobTypes'
<1>0. /\ attemptsMade \in [Recipients -> Nat] /\ Attempts \in Nat
      /\ work[w] # "idle" => at[w] \in Recipients /\ attemptsMade[at[w]] <= Attempts
      /\ job \in [Recipients -> {"none", "waiting", "active", "completed", "failed"}]
      /\ lock \in [Recipients -> Workers \cup {Nobody}]
  BY CampaignAssumption DEF TypesInv, OInv, Types, JobTypes
<1>1. CASE TakeJob(w)
  <2>1. PICK b \in Recipients : /\ job[b] = "waiting" /\ job' = [job EXCEPT ![b] = "active"]
                                /\ lock' = [lock EXCEPT ![b] = w] /\ UNCHANGED attemptsMade
    BY <1>1 DEF TakeJob
  <2>2. \A a \in Recipients : /\ job'[a] = IF a = b THEN "active" ELSE job[a]
                              /\ lock'[a] = IF a = b THEN w ELSE lock[a]
    BY <1>0, <2>1
  <2>. QED
    BY <2>1, <2>2 DEF TypesInv, JobTypes
<1>2. CASE CountFailure(w) \/ ThrowUncounted(w)
  <2>1. work[w] # "idle" /\ Throw(w)
    BY <1>2 DEF CountFailure, ThrowUncounted
  <2>. QED
    BY <2>1, ThrowTyped
<1>3. CASE /\ UNCHANGED attemptsMade /\ work[w] # "idle" /\ EndJob(w, "completed")
  BY <1>0, <1>3, EndJobTyped
<1>4. CASE UNCHANGED <<job, lock, attemptsMade>>
  BY <1>4 DEF TypesInv, JobTypes
<1>5. CASE WorkerDies(w)
  <2>1. /\ lock' = [a \in Recipients |-> IF lock[a] = w THEN Nobody ELSE lock[a]]
        /\ UNCHANGED <<job, attemptsMade>>
    BY <1>5 DEF WorkerDies
  <2>. QED
    BY <2>1 DEF TypesInv, JobTypes
<1>6. CASE Look(w) \/ ReadCounts(w) \/ SettleStatus(w)
  <2>1. UNCHANGED attemptsMade /\ work[w] # "idle"
    BY <1>6 DEF Look, ReadCounts, SettleStatus
  <2>2. EndJob(w, "completed") \/ UNCHANGED <<job, lock>>
    BY <1>6 DEF Look, ReadCounts, SettleStatus
  <2>. QED
    BY <1>3, <1>4, <2>1, <2>2
<1>7. CASE MarkProcessing(w) \/ SendMail(w) \/ Record(w) \/ Catch(w)
  BY <1>4, <1>7 DEF MarkProcessing, SendMail, Record, Catch, queue
<1>. QED
  BY <1>1, <1>2, <1>5, <1>6, <1>7 DEF Process

LEMMA JobTyped ==
  ASSUME TypesInv, [Next]_vars
  PROVE  JobTypes'
<1>0. /\ job \in [Recipients -> {"none", "waiting", "active", "completed", "failed"}]
      /\ lock \in [Recipients -> Workers \cup {Nobody}]
  BY DEF TypesInv, OInv, Types
<1>1. ASSUME NEW s \in Sends, AddJob(s) PROVE JobTypes'
  <2>1. /\ UNCHANGED <<lock, attemptsMade>>
        /\ job' = [job EXCEPT ![list[s][next[s]]] = IF @ = "none" THEN "waiting" ELSE @]
    BY <1>1 DEF AddJob
  <2>2. \A a \in Recipients : job'[a] = job[a] \/ (job[a] = "none" /\ job'[a] = "waiting")
    BY <1>0, <2>1
  <2>. QED
    BY <2>1, <2>2 DEF TypesInv, JobTypes
<1>2. ASSUME NEW b \in Recipients, Stall(b) PROVE JobTypes'
  <2>1. /\ job[b] = "active" /\ job'[b] \in {"waiting", "failed"} /\ lock'[b] = Nobody
        /\ \A a \in Recipients : a # b => job'[a] = job[a] /\ lock'[a] = lock[a]
        /\ UNCHANGED attemptsMade
    BY <1>0, <1>2 DEF Stall
  <2>2. ASSUME NEW a \in Recipients
        PROVE  /\ attemptsMade'[a] <= Attempts
               /\ job'[a] \in {"none", "waiting", "active"} => attemptsMade'[a] + 1 <= Attempts
               /\ lock'[a] # Nobody => job'[a] = "active"
    <3>1. CASE a = b
      BY <2>1, <3>1 DEF TypesInv, JobTypes
    <3>2. CASE a # b
      BY <2>1, <3>2 DEF TypesInv, JobTypes
    <3>. QED
      BY <3>1, <3>2
  <2>. QED
    BY <2>1, <2>2 DEF TypesInv, JobTypes
<1>3. CASE UNCHANGED queue
  BY <1>3 DEF queue, TypesInv, JobTypes
<1>4. ASSUME NEW s \in Sends, SendStep(s) PROVE JobTypes'
  BY <1>1, <1>3, <1>4 DEF SendStep, CheckStatus, ReadAudience, SetQueued, SendFails
<1>5. ASSUME \/ \E a \in Users : SetConsent(a) \/ Unsubscribe(a)
             \/ Update \/ Delete \/ Quiet \/ UNCHANGED vars
      PROVE  JobTypes'
  BY <1>3, <1>5 DEF SetConsent, Unsubscribe, Update, Delete, Quiet, vars
<1>. QED
  BY <1>2, <1>4, <1>5, WorkerTyped DEF Next

LEMMA CampaignTyped ==
  ASSUME TypesInv, [Next]_vars
  PROVE  CampaignTypes'
<1>0. CampaignTypes /\ \A i \in Sends : Len(list[i]) \in Nat
  BY DEF TypesInv, RequestTypes
<1>1. CASE UNCHANGED <<campaign, resized>>
  BY <1>0, <1>1 DEF campaign, counts, CampaignTypes
<1>2. ASSUME NEW s \in Sends, SendStep(s) PROVE CampaignTypes'
  <2>1. CASE SetQueued(s)
    <3>1. /\ status' = IF Deleted THEN status ELSE "queued"
          /\ targetCount' = IF Deleted THEN targetCount ELSE Len(list[s])
          /\ UNCHANGED <<audience, sentCount, failedCount>>
      BY <2>1 DEF SetQueued, WriteStatus
    <3>2. resized' \in BOOLEAN
      BY <2>1 DEF SetQueued
    <3>. QED
      BY <1>0, <3>1, <3>2 DEF CampaignTypes, Statuses
  <2>2. CASE CheckStatus(s) \/ ReadAudience(s) \/ AddJob(s) \/ SendFails(s)
    BY <1>1, <2>2 DEF CheckStatus, ReadAudience, AddJob, SendFails, past
  <2>. QED
    BY <1>2, <2>1, <2>2 DEF SendStep
<1>3. ASSUME NEW w \in Workers, Process(w) \/ WorkerDies(w) PROVE CampaignTypes'
  <2>1. CASE MarkProcessing(w)
    BY <1>0, <2>1 DEF MarkProcessing, WriteStatus, counts, past, CampaignTypes, Statuses
  <2>2. CASE Record(w)
    <3>1. /\ sentCount' = sentCount \/ sentCount' = sentCount + 1
          /\ UNCHANGED <<audience, status, targetCount, failedCount, resized>>
      BY <2>2 DEF Record
    <3>. QED
      BY <1>0, <3>1 DEF CampaignTypes
  <2>3. CASE CountFailure(w)
    BY <1>0, <2>3 DEF CountFailure, past, CampaignTypes
  <2>4. CASE SettleStatus(w)
    <3>1. verdict[w] \in Statuses
      BY <2>4 DEF SettleStatus, TypesInv, VerdictTypes, Statuses
    <3>. QED
      BY <1>0, <2>4, <3>1 DEF SettleStatus, WriteStatus, counts, past, CampaignTypes
  <2>5. CASE \/ TakeJob(w) \/ Look(w) \/ SendMail(w) \/ Catch(w) \/ ReadCounts(w)
             \/ ThrowUncounted(w) \/ WorkerDies(w)
    BY <1>1, <2>5 DEF TakeJob, Look, SendMail, Catch, ReadCounts, ThrowUncounted, WorkerDies, past
  <2>. QED
    BY <1>3, <2>1, <2>2, <2>3, <2>4, <2>5 DEF Process
<1>4. CASE Update
  BY <1>0, <1>4 DEF Update, counts, past, CampaignTypes
<1>5. CASE Delete
  BY <1>0, <1>5 DEF Delete, CampaignTypes, Statuses
<1>6. ASSUME \/ \E a \in Users : SetConsent(a) \/ Unsubscribe(a)
             \/ \E a \in Recipients : Stall(a)
             \/ Quiet \/ UNCHANGED vars
      PROVE  CampaignTypes'
  BY <1>1, <1>6 DEF SetConsent, Unsubscribe, Stall, Quiet, vars, past
<1>. QED
  BY <1>2, <1>3, <1>4, <1>5, <1>6 DEF Next

LEMMA VerdictTyped ==
  ASSUME TypesInv, [Next]_vars
  PROVE  VerdictTypes'
<1>0. /\ verdict \in [Workers -> {"none", "sent", "partially_failed", "failed"}]
      /\ work \in [Workers -> Labels]
      /\ \A w \in Workers : verdict[w] # "none" <=> work[w] = "settle"
  BY DEF TypesInv, OInv, Types, VerdictTypes
<1>1. CASE UNCHANGED worker
  BY <1>0, <1>1 DEF worker, VerdictTypes
<1>2. ASSUME NEW w \in Workers, NEW label \in Labels \ {"settle"},
             work[w] # "settle", WorkAt(w, label), UNCHANGED verdict
      PROVE  VerdictTypes'
  BY <1>0, <1>2 DEF WorkAt, VerdictTypes
<1>3. ASSUME NEW w \in Workers, Rest(w) PROVE VerdictTypes'
  BY <1>0, <1>3 DEF Rest, WorkAt, VerdictTypes
<1>4. ASSUME NEW w \in Workers, Process(w) \/ WorkerDies(w) PROVE VerdictTypes'
  <2>1. CASE TakeJob(w) \/ MarkProcessing(w) \/ SendMail(w) \/ Record(w) \/ Catch(w)
    <3>1. work[w] # "settle" /\ UNCHANGED verdict
      BY <2>1 DEF TakeJob, MarkProcessing, SendMail, Record, Catch
    <3>2. \E label \in Labels \ {"settle"} : WorkAt(w, label)
      BY <2>1 DEF TakeJob, MarkProcessing, SendMail, Record, Catch, Labels
    <3>. QED
      BY <1>2, <3>1, <3>2
  <2>2. CASE Look(w)
    BY <1>2, <1>3, <2>2 DEF Look, EndJob, Labels
  <2>3. CASE ReadCounts(w)
    <3>1. CASE EndJob(w, "completed")
      BY <1>3, <3>1 DEF EndJob
    <3>2. CASE ~EndJob(w, "completed")
      <4>1. /\ verdict' = [verdict EXCEPT ![w] = Outcome(sentCount, failedCount)]
            /\ WorkAt(w, "settle")
        BY <2>3, <3>2 DEF ReadCounts
      <4>2. Outcome(sentCount, failedCount) \in {"sent", "partially_failed", "failed"}
        BY DEF Outcome
      <4>. QED
        BY <1>0, <4>1, <4>2 DEF WorkAt, VerdictTypes
    <3>. QED
      BY <3>1, <3>2
  <2>4. CASE CountFailure(w) \/ SettleStatus(w) \/ ThrowUncounted(w) \/ WorkerDies(w)
    BY <1>3, <2>4 DEF CountFailure, SettleStatus, ThrowUncounted, WorkerDies, Throw, EndJob
  <2>. QED
    BY <1>4, <2>1, <2>2, <2>3, <2>4 DEF Process
<1>5. ASSUME \/ \E s \in Sends : SendStep(s)
             \/ \E a \in Users : SetConsent(a) \/ Unsubscribe(a)
             \/ \E a \in Recipients : Stall(a)
             \/ Update \/ Delete \/ Quiet \/ UNCHANGED vars
      PROVE  VerdictTypes'
  BY <1>1, <1>5
     DEF SendStep, CheckStatus, ReadAudience, SetQueued, AddJob, SendFails,
         SetConsent, Unsubscribe, Stall, Update, Delete, Quiet, vars
<1>. QED
  BY <1>4, <1>5 DEF Next

\* Every fault and every change is counted and allowed for.
LEMMA EventsTyped ==
  ASSUME TypesInv, Fault \/ Change \/ UNCHANGED events
  PROVE  faults' \in Nat /\ changes' \in Nat /\ faults' + changes' <= MaxEvents
<1>1. faults \in Nat /\ changes \in Nat /\ faults + changes <= MaxEvents /\ MaxEvents \in Nat
  BY CampaignAssumption DEF TypesInv, PastTypes
<1>. QED
  BY <1>1 DEF Fault, Change, events

LEMMA PastTyped ==
  ASSUME TypesInv, [Next]_vars
  PROVE  PastTypes'
<1>0. /\ consents \subseteq Recipients /\ agreed \subseteq Recipients
      /\ stalled \subseteq Recipients /\ unrecorded \subseteq Recipients
      /\ Users \subseteq Recipients /\ Range(Named) \subseteq Recipients
      /\ \A w \in Workers : work[w] # "idle" => at[w] \in Recipients
  BY DEF TypesInv, PastTypes, Recipients, OInv, Types
<1>1. Fault \/ Change \/ UNCHANGED events
  <2>1. ASSUME NEW s \in Sends, SendStep(s) PROVE Fault \/ UNCHANGED events
    BY <2>1 DEF SendStep, CheckStatus, ReadAudience, SetQueued, AddJob, SendFails
  <2>2. ASSUME NEW w \in Workers, Process(w) \/ WorkerDies(w) PROVE Fault \/ UNCHANGED events
    BY <2>2 DEF Process, TakeJob, MarkProcessing, Look, SendMail, Record, Catch,
                CountFailure, ReadCounts, SettleStatus, ThrowUncounted, WorkerDies
  <2>3. ASSUME NEW a \in Recipients, Stall(a) PROVE Fault \/ UNCHANGED events
    BY <2>3 DEF Stall
  <2>4. ASSUME \/ \E a \in Users : SetConsent(a) \/ Unsubscribe(a)
               \/ Update \/ Delete \/ Quiet \/ UNCHANGED vars
        PROVE  Change \/ UNCHANGED events
    BY <2>4 DEF SetConsent, Unsubscribe, Update, Delete, Quiet, vars
  <2>. QED
    BY <2>1, <2>2, <2>3, <2>4 DEF Next
<1>2. /\ consents' \subseteq Recipients /\ agreed' \subseteq Recipients
      /\ stalled' \subseteq Recipients /\ unrecorded' \subseteq Recipients
  <2>1. ASSUME NEW s \in Sends, SendStep(s)
        PROVE  /\ UNCHANGED <<consents, stalled, unrecorded>>
               /\ agreed' \in {agreed, agreed \cup Range(Named), agreed \cup consents}
    BY <2>1 DEF SendStep, CheckStatus, ReadAudience, SetQueued, AddJob, SendFails, queue, past
  <2>2. ASSUME NEW w \in Workers, Process(w) \/ WorkerDies(w)
        PROVE  /\ UNCHANGED <<consents, agreed, stalled>>
               /\ unrecorded' = unrecorded \/ (work[w] # "idle" /\ unrecorded' = unrecorded \cup {at[w]})
    BY <2>2 DEF Process, TakeJob, MarkProcessing, Look, SendMail, Record, Catch,
                CountFailure, ReadCounts, SettleStatus, ThrowUncounted, WorkerDies, queue, past
  <2>3. ASSUME NEW a \in Recipients, Stall(a)
        PROVE  /\ UNCHANGED <<consents, agreed>>
               /\ stalled' = stalled \cup {a} /\ unrecorded' = unrecorded \cup {a}
    BY <2>3 DEF Stall
  <2>4. ASSUME \E a \in Users : SetConsent(a) \/ Unsubscribe(a)
        PROVE  UNCHANGED <<agreed, stalled, unrecorded>> /\ consents' \subseteq consents \cup Users
    BY <2>4 DEF SetConsent, Unsubscribe, queue, past
  <2>5. ASSUME Update \/ Quiet \/ UNCHANGED vars
        PROVE  UNCHANGED <<consents, agreed, stalled, unrecorded>>
    BY <2>5 DEF Update, Quiet, vars, queue, past
  <2>6. ASSUME Delete
        PROVE  /\ UNCHANGED <<consents, agreed, stalled>>
               /\ unrecorded' \subseteq unrecorded \cup Recipients
    BY <2>6 DEF Delete, queue
  <2>7. ASSUME NEW s \in Sends, SendStep(s)
        PROVE  /\ consents' \subseteq Recipients /\ agreed' \subseteq Recipients
               /\ stalled' \subseteq Recipients /\ unrecorded' \subseteq Recipients
    BY <1>0, <2>1, <2>7
  <2>8. ASSUME NEW w \in Workers, Process(w) \/ WorkerDies(w)
        PROVE  /\ consents' \subseteq Recipients /\ agreed' \subseteq Recipients
               /\ stalled' \subseteq Recipients /\ unrecorded' \subseteq Recipients
    BY <1>0, <2>2, <2>8
  <2>. QED
    BY <1>0, <2>3, <2>4, <2>5, <2>6, <2>7, <2>8 DEF Next
<1>3. faults' \in Nat /\ changes' \in Nat /\ faults' + changes' <= MaxEvents
  BY <1>1, EventsTyped
<1>. QED
  BY <1>2, <1>3 DEF PastTypes

LEMMA NextTypes == TypesInv /\ [Next]_vars => TypesInv'
<1> SUFFICES ASSUME TypesInv, [Next]_vars PROVE TypesInv'
  OBVIOUS
<1>1. OInv'
  BY NextOnce DEF TypesInv
<1>2. RequestTypes'
  <2>1. CASE \E s \in Sends : SendStep(s)
    BY <2>1, RequestTyped
  <2>2. CASE UNCHANGED request
    BY <2>2 DEF request, TypesInv, RequestTypes
  <2>3. ASSUME NEW w \in Workers, Process(w) \/ WorkerDies(w) PROVE UNCHANGED request
    BY <2>3 DEF Process, TakeJob, MarkProcessing, Look, SendMail, Record, Catch,
                CountFailure, ReadCounts, SettleStatus, ThrowUncounted, WorkerDies
  <2>4. ASSUME \/ \E a \in Recipients : Stall(a)
               \/ \E a \in Users : SetConsent(a) \/ Unsubscribe(a)
               \/ Update \/ Delete \/ Quiet \/ UNCHANGED vars
        PROVE  UNCHANGED request
    BY <2>4 DEF Stall, SetConsent, Unsubscribe, Update, Delete, Quiet, vars
  <2>. QED
    BY <2>1, <2>2, <2>3, <2>4 DEF Next
<1>. QED
  BY <1>1, <1>2, JobTyped, CampaignTyped, VerdictTyped, PastTyped DEF TypesInv

\* The variables keep their values' types, only an active job has a worker, and
\* a request never looks past its last recipient (sendCampaign and process).
THEOREM CampaignTyping == Spec => []TypeOK
<1>1. TypesInv => TypeOK
  <2> SUFFICES ASSUME TypesInv PROVE TypeOK
    OBVIOUS
  <2>1. attemptsMade \in [Recipients -> 0..Attempts]
    BY CampaignAssumption DEF TypesInv, JobTypes
  <2>2. /\ sentEmails \in [Recipients -> Nat]
        /\ job \in [Recipients -> {"none", "waiting", "active", "completed", "failed"}]
        /\ lock \in [Recipients -> Workers \cup {Nobody}]
        /\ at \in [Workers -> Recipients \cup {Nobody}]
        /\ delivered \in [Recipients -> Nat]
        /\ work \in [Workers -> {"idle", "mark", "look", "mail", "record", "catch", "count", "settle"}]
    BY DEF TypesInv, OInv, Types, Labels
  <2>. QED
    BY <2>1, <2>2
       DEF TypesInv, TypeOK, CampaignTypes, RequestTypes, JobTypes, VerdictTypes, PastTypes,
           Statuses
<1>. QED
  BY <1>1, InitTypes, NextTypes, PTL DEF Spec

-----------------------------------------------------------------------------
(* Consent.  Every recipient of a list has agreed; so has that of a job,   *)
(* which comes of a list, and of a worker, which has a job.                *)

ConsentInv ==
  /\ \A s \in Sends : \A i \in 1..Len(list[s]) : list[s][i] \in agreed
  /\ \A a \in Recipients : job[a] # "none" => a \in agreed
  /\ \A w \in Workers : work[w] # "idle" => at[w] \in agreed
  /\ \A a \in Recipients : delivered[a] # 0 => a \in agreed

LEMMA ConsentStays ==
  ASSUME ConsentInv, agreed \subseteq agreed', UNCHANGED list,
         \A a \in Recipients : job'[a] # "none" => job[a] # "none",
         \A w \in Workers : work'[w] # "idle" => work[w] # "idle" /\ at'[w] = at[w],
         UNCHANGED delivered
  PROVE  ConsentInv'
  BY DEF ConsentInv

LEMMA SendConsent ==
  ASSUME TypesInv, ConsentInv, NEW s \in Sends, SendStep(s)
  PROVE  ConsentInv'
<1>0. /\ list \in [Sends -> Seq(Recipients)] /\ Named \in Seq(Recipients)
      /\ job \in [Recipients -> {"none", "waiting", "active", "completed", "failed"}]
  BY CampaignAssumption DEF TypesInv, RequestTypes, Recipients, OInv, Types
<1>1. ASSUME NEW emails \in Seq(Recipients), list' = [list EXCEPT ![s] = emails],
             agreed \subseteq agreed', \A i \in 1..Len(emails) : emails[i] \in agreed',
             UNCHANGED <<job, work, at, delivered>>
      PROVE  ConsentInv'
  <2>1. ASSUME NEW q \in Sends, NEW i \in 1..Len(list'[q]) PROVE list'[q][i] \in agreed'
    BY <1>0, <1>1, <2>1 DEF ConsentInv
  <2>. QED
    BY <1>1, <2>1 DEF ConsentInv
<1>2. CASE CheckStatus(s)
  <2>1. /\ UNCHANGED <<job, work, at, delivered>>
        /\ \/ list' = [list EXCEPT ![s] = Named] /\ agreed' = agreed \cup Range(Named)
           \/ UNCHANGED <<list, agreed>>
    BY <1>2 DEF CheckStatus, queue, worker
  <2>2. \A i \in 1..Len(Named) : Named[i] \in Range(Named)
    BY <1>0 DEF Range
  <2>. QED
    BY <1>0, <1>1, <2>1, <2>2, ConsentStays
<1>3. CASE ReadAudience(s)
  <2>1. /\ UNCHANGED <<job, work, at, delivered>>
        /\ list' = [list EXCEPT ![s] = SetToSeq(Targets)] /\ agreed' = agreed \cup consents
    BY <1>3 DEF ReadAudience, queue, worker
  <2>. QED
    BY <1>1, <2>1, TargetsListed DEF TypesInv
<1>4. CASE AddJob(s)
  <2>1. /\ UNCHANGED <<list, agreed, work, at, delivered>>
        /\ sending[s] = "add"
        /\ job' = [job EXCEPT ![list[s][next[s]]] = IF @ = "none" THEN "waiting" ELSE @]
    BY <1>4 DEF AddJob, worker, past
  <2>2. list[s][next[s]] \in agreed
    <3>1. next[s] \in 1..Len(list[s])
      BY <1>0, <2>1 DEF TypesInv, RequestTypes
    <3>. QED
      BY <3>1 DEF ConsentInv
  <2>3. \A a \in Recipients : job'[a] # "none" => job[a] # "none" \/ a = list[s][next[s]]
    BY <1>0, <2>1
  <2>. QED
    BY <2>1, <2>2, <2>3 DEF ConsentInv
<1>5. CASE SetQueued(s) \/ SendFails(s)
  <2>1. UNCHANGED <<list, agreed, job, work, at, delivered>>
    BY <1>5 DEF SetQueued, SendFails, queue, worker, past
  <2>. QED
    BY <2>1, ConsentStays
<1>. QED
  BY <1>2, <1>3, <1>4, <1>5 DEF SendStep

LEMMA WorkerConsent ==
  ASSUME TypesInv, ConsentInv, NEW w \in Workers, Process(w) \/ WorkerDies(w)
  PROVE  ConsentInv'
<1>0. /\ work \in [Workers -> Labels] /\ at \in [Workers -> Recipients \cup {Nobody}]
      /\ job \in [Recipients -> {"none", "waiting", "active", "completed", "failed"}]
      /\ lock \in [Recipients -> Workers \cup {Nobody}]
      /\ delivered \in [Recipients -> Nat]
      /\ \A v \in Workers : work[v] # "idle" => at[v] \in Recipients
  BY DEF TypesInv, OInv, Types
<1>1. CASE TakeJob(w)
  <2>1. PICK b \in Recipients : /\ job[b] = "waiting" /\ job' = [job EXCEPT ![b] = "active"]
                                /\ at' = [at EXCEPT ![w] = b]
    BY <1>1 DEF TakeJob
  <2>2. work' = [work EXCEPT ![w] = "mark"] /\ UNCHANGED <<list, agreed, delivered>>
    BY <1>1 DEF TakeJob, WorkAt, request, past
  <2>3. b \in agreed
    BY <2>1 DEF ConsentInv
  <2>. QED
    BY <1>0, <2>1, <2>2, <2>3 DEF ConsentInv
<1>2. CASE SendMail(w)
  <2>1. /\ work[w] = "mail" /\ work' = [work EXCEPT ![w] = "record"]
        /\ delivered' = [delivered EXCEPT ![at[w]] = @ + 1]
        /\ UNCHANGED <<list, agreed, job, at>>
    BY <1>2 DEF SendMail, WorkAt, request, queue
  <2>2. \A v \in Workers : work'[v] # "idle" => work[v] # "idle"
    BY <1>0, <2>1
  <2>3. \A a \in Recipients : delivered'[a] # 0 => delivered[a] # 0 \/ a = at[w]
    BY <1>0, <2>1
  <2>4. at[w] \in agreed
    BY <2>1 DEF ConsentInv
  <2>. QED
    BY <2>1, <2>2, <2>3, <2>4 DEF ConsentInv
<1>3. ASSUME NEW label \in Labels, work[w] # "idle", WorkAt(w, label), UNCHANGED <<at, job>>,
             UNCHANGED <<list, agreed, delivered>>
      PROVE  ConsentInv'
  <2>1. \A v \in Workers : work'[v] # "idle" => work[v] # "idle"
    BY <1>0, <1>3 DEF WorkAt
  <2>. QED
    BY <1>3, <2>1, ConsentStays
<1>4. ASSUME Rest(w), UNCHANGED <<list, agreed, delivered>>,
             \A a \in Recipients : job'[a] # "none" => job[a] # "none" \/ (a = at[w] /\ work[w] # "idle")
      PROVE  ConsentInv'
  <2>1. \A v \in Workers : work'[v] # "idle" => work[v] # "idle" /\ at'[v] = at[v]
    BY <1>0, <1>4 DEF Rest, WorkAt
  <2>. QED
    BY <1>4, <2>1 DEF ConsentInv
<1>5. ASSUME NEW outcome, work[w] # "idle", EndJob(w, outcome), UNCHANGED <<list, agreed, delivered>>
      PROVE  ConsentInv'
  <2>1. \A a \in Recipients : job'[a] # "none" => job[a] # "none" \/ a = at[w]
    BY <1>0, <1>5 DEF EndJob
  <2>. QED
    BY <1>4, <1>5, <2>1 DEF EndJob
<1>6. CASE MarkProcessing(w) \/ Record(w) \/ Catch(w)
  <2>1. work[w] # "idle" /\ UNCHANGED <<at, job, list, agreed, delivered>>
    BY <1>6 DEF MarkProcessing, Record, Catch, request, queue, past
  <2>2. \E label \in Labels : WorkAt(w, label)
    BY <1>6 DEF MarkProcessing, Record, Catch, Labels
  <2>. QED
    BY <1>3, <2>1, <2>2
<1>7. CASE Look(w) \/ ReadCounts(w) \/ SettleStatus(w)
  <2>1. work[w] # "idle" /\ UNCHANGED <<list, agreed, delivered>>
    BY <1>7 DEF Look, ReadCounts, SettleStatus, request, past
  <2>2. EndJob(w, "completed") \/ (UNCHANGED <<at, job>> /\ \E label \in Labels : WorkAt(w, label))
    BY <1>7 DEF Look, ReadCounts, SettleStatus, Labels
  <2>. QED
    BY <1>3, <1>5, <2>1, <2>2
<1>8. CASE CountFailure(w) \/ ThrowUncounted(w)
  <2>1. /\ work[w] # "idle" /\ UNCHANGED <<list, agreed, delivered>>
        /\ EndJob(w, AfterThrow(at[w]))
    BY <1>8 DEF CountFailure, ThrowUncounted, Throw, request, past
  <2>. QED
    BY <1>5, <2>1
<1>9. CASE WorkerDies(w)
  <2>1. Rest(w) /\ UNCHANGED <<list, agreed, delivered, job>>
    BY <1>9 DEF WorkerDies, request
  <2>. QED
    BY <1>4, <2>1
<1>. QED
  BY <1>1, <1>2, <1>6, <1>7, <1>8, <1>9 DEF Process

LEMMA NextConsent == TypesInv /\ ConsentInv /\ [Next]_vars => ConsentInv'
<1> SUFFICES ASSUME TypesInv, ConsentInv, [Next]_vars PROVE ConsentInv'
  OBVIOUS
<1>1. ASSUME NEW b \in Recipients, Stall(b) PROVE ConsentInv'
  <2>1. /\ job[b] = "active" /\ UNCHANGED <<list, agreed, work, at, delivered>>
        /\ job' = [job EXCEPT ![b] = IF b \in stalled THEN "failed" ELSE "waiting"]
    BY <1>1 DEF Stall, request, worker
  <2>2. \A a \in Recipients : job'[a] # "none" => job[a] # "none"
    BY <2>1 DEF TypesInv, OInv, Types
  <2>. QED
    BY <2>1, <2>2, ConsentStays
<1>2. ASSUME \/ \E a \in Users : SetConsent(a) \/ Unsubscribe(a)
             \/ Update \/ Delete \/ Quiet \/ UNCHANGED vars
      PROVE  ConsentInv'
  <2>1. UNCHANGED <<list, agreed, job, work, at, delivered>>
    BY <1>2 DEF SetConsent, Unsubscribe, Update, Delete, Quiet, vars, request, queue, worker, past
  <2>. QED
    BY <2>1, ConsentStays
<1>. QED
  BY <1>1, <1>2, SendConsent, WorkerConsent DEF Next

\* Whoever had withdrawn consent whenever a request read its recipients, and
\* was not named, gets no e-mail of the campaign, whatever was queued before
\* and is retried (getTargetEmails, enqueueCampaign and process).
THEOREM OnlyWithConsent == Spec => []ConsentRespected
<1>1. Init => ConsentInv
  BY DEF Init, ConsentInv
<1>2. ConsentInv => ConsentRespected
  BY DEF ConsentInv, ConsentRespected
<1>. QED
  BY <1>1, <1>2, InitTypes, NextTypes, NextConsent, PTL DEF Spec

-----------------------------------------------------------------------------
(* A campaign shown as sent.  As long as no job stalls, a job has one      *)
(* worker, so that a recipient is counted once; and the count a verdict    *)
(* rests on is never less than the number of recipients, which stays what  *)
(* it was unless a request finds another.                                  *)

Served(a) ==
  /\ \A w \in Workers : Busy(w, a) => lock[a] = w
  /\ \A w \in Workers : Busy(w, a) /\ work[w] \in {"mail", "record"} => sentEmails[a] = 0
  /\ \A w \in Workers : Busy(w, a) /\ work[w] = "record" => delivered[a] # 0
  /\ sentEmails[a] # 0 => delivered[a] # 0

ServedInv == \A a \in Recipients \ stalled : Served(a)

Listed == {a \in Recipients : sentEmails[a] # 0}

CountInv == stalled = {} => sentCount = Cardinality(Listed)

\* Nothing is under way for a draft.
DraftInv ==
  status = "draft" =>
    /\ \A s \in Sends : sending[s] # "add"
    /\ \A a \in Recipients : job[a] = "none"
    /\ \A w \in Workers : work[w] = "idle"

VerdictInv ==
  ~Deleted /\ ~resized /\ (status = "sent" \/ \E w \in Workers : verdict[w] = "sent")
    => targetCount <= sentCount

SentInv == TypesInv /\ ServedInv /\ CountInv /\ DraftInv /\ VerdictInv

LEMMA RecipientsFinite == IsFiniteSet(Recipients)
<1>1. IsFiniteSet(DOMAIN Named)
  BY CampaignAssumption, FS_Interval
<1>2. Named \in Surjection(DOMAIN Named, Range(Named))
  BY CampaignAssumption DEF Surjection, Range
<1>3. IsFiniteSet(Range(Named))
  BY <1>1, <1>2, FS_Surjection
<1>. QED
  BY <1>3, CampaignAssumption, FS_Union DEF Recipients

LEMMA InitSent == Init => SentInv
<1> SUFFICES ASSUME Init PROVE SentInv
  OBVIOUS
<1>1. TypesInv
  BY InitTypes
<1>2. ServedInv
  BY DEF Init, ServedInv, Served, Busy
<1>3. CountInv
  <2>1. Listed = {}
    BY DEF Init, Listed
  <2>. QED
    BY <2>1, FS_EmptySet DEF Init, CountInv
<1>4. DraftInv /\ VerdictInv
  BY DEF Init, DraftInv, VerdictInv
<1>. QED
  BY <1>1, <1>2, <1>3, <1>4 DEF SentInv

\* Nothing changes for a recipient but workers that leave its job.
LEMMA ServedStays ==
  ASSUME NEW a \in Recipients, Served(a), lock'[a] = lock[a],
         sentEmails'[a] = sentEmails[a] \/ sentEmails'[a] = 0,
         delivered'[a] # 0 <=> delivered[a] # 0,
         \A w \in Workers : Busy(w, a)' => Busy(w, a) /\ work'[w] = work[w]
  PROVE  Served(a)'
  BY DEF Served

\* A worker goes on with its job to a step that does not send or record.
LEMMA WorkerServes ==
  ASSUME SentInv, NEW w \in Workers, work[w] # "idle",
         NEW label \in Labels \ {"idle", "mail", "record"}, WorkAt(w, label),
         UNCHANGED <<at, lock, sentEmails, delivered, stalled>>
  PROVE  ServedInv'
<1>1. ASSUME NEW a \in Recipients \ stalled' PROVE Served(a)'
  <2>1. Served(a)
    BY <1>1 DEF SentInv, ServedInv
  <2>2. \A v \in Workers : work'[v] = IF v = w THEN label ELSE work[v]
    BY DEF SentInv, TypesInv, OInv, Types, WorkAt
  <2>3. \A v \in Workers : Busy(v, a)' => Busy(v, a) /\ (v = w \/ work'[v] = work[v])
    BY <2>2 DEF Busy
  <2>. QED
    BY <2>1, <2>2, <2>3 DEF Served
<1>. QED
  BY <1>1 DEF ServedInv

\* A worker leaves its job, and the lock if it is its own.
LEMMA WorkerLeaves ==
  ASSUME SentInv, NEW w \in Workers, Rest(w),
         \A a \in Recipients : lock'[a] = lock[a] \/ lock[a] = w,
         UNCHANGED <<sentEmails, delivered, stalled>>
  PROVE  ServedInv'
<1>1. ASSUME NEW a \in Recipients \ stalled' PROVE Served(a)'
  <2>1. Served(a)
    BY <1>1 DEF SentInv, ServedInv
  <2>2. \A v \in Workers : Busy(v, a)' => v # w /\ Busy(v, a) /\ work'[v] = work[v]
    BY DEF SentInv, TypesInv, OInv, Types, Rest, WorkAt, Busy
  <2>3. CASE lock[a] = w
    <3>1. \A v \in Workers : ~Busy(v, a)'
      BY <2>1, <2>2, <2>3 DEF Served
    <3>. QED
      BY <2>1, <3>1 DEF Served
  <2>4. CASE lock[a] # w
    BY <2>1, <2>2, <2>4, ServedStays
  <2>. QED
    BY <2>3, <2>4
<1>. QED
  BY <1>1 DEF ServedInv

LEMMA WorkerServed ==
  ASSUME SentInv, NEW w \in Workers, Process(w) \/ WorkerDies(w)
  PROVE  ServedInv'
<1>0. /\ work \in [Workers -> Labels] /\ at \in [Workers -> Recipients \cup {Nobody}]
      /\ lock \in [Recipients -> Workers \cup {Nobody}]
      /\ delivered \in [Recipients -> Nat] /\ sentEmails \in [Recipients -> Nat]
      /\ work[w] # "idle" => at[w] \in Recipients
  BY DEF SentInv, TypesInv, OInv, Types
<1>1. ASSUME NEW outcome, EndJob(w, outcome), work[w] # "idle",
             UNCHANGED <<sentEmails, delivered, stalled>>
      PROVE  ServedInv'
  <2>1. \A a \in Recipients : lock'[a] = lock[a] \/ lock[a] = w
    BY <1>0, <1>1 DEF EndJob
  <2>. QED
    BY <1>1, <2>1, WorkerLeaves DEF EndJob
<1>2. CASE TakeJob(w)
  <2>1. PICK b \in Recipients : /\ job[b] = "waiting" /\ lock' = [lock EXCEPT ![b] = w]
                                /\ at' = [at EXCEPT ![w] = b]
    BY <1>2 DEF TakeJob
  <2>2. /\ work[w] = "idle" /\ work' = [work EXCEPT ![w] = "mark"]
        /\ UNCHANGED <<sentEmails, delivered, stalled>>
    BY <1>2 DEF TakeJob, WorkAt, campaign, counts, past
  <2>3. lock[b] = Nobody
    BY <2>1 DEF SentInv, TypesInv, JobTypes
  <2>4. ASSUME NEW a \in Recipients \ stalled' PROVE Served(a)'
    <3>1. Served(a)
      BY <2>2, <2>4 DEF SentInv, ServedInv
    <3>2. \A v \in Workers : /\ work'[v] = IF v = w THEN "mark" ELSE work[v]
                             /\ at'[v] = IF v = w THEN b ELSE at[v]
      BY <1>0, <2>1, <2>2
    <3>3. CASE a = b
      <4>1. \A v \in Workers : ~Busy(v, a)
        BY <2>3, <3>1, <3>3, CampaignAssumption DEF Served
      <4>2. \A v \in Workers : Busy(v, a)' => v = w
        BY <3>2, <4>1 DEF Busy
      <4>3. lock'[a] = w
        BY <1>0, <2>1, <3>3
      <4>. QED
        BY <2>2, <3>1, <3>2, <4>2, <4>3 DEF Served
    <3>4. CASE a # b
      <4>1. lock'[a] = lock[a]
        BY <1>0, <2>1, <3>4
      <4>2. \A v \in Workers : Busy(v, a)' => Busy(v, a) /\ work'[v] = work[v]
        BY <3>2, <3>4 DEF Busy
      <4>. QED
        BY <2>2, <3>1, <4>1, <4>2, ServedStays
    <3>. QED
      BY <3>3, <3>4
  <2>. QED
    BY <2>4 DEF ServedInv
<1>3. CASE MarkProcessing(w) \/ Catch(w)
  <2>1. work[w] # "idle" /\ UNCHANGED <<at, lock, sentEmails, delivered, stalled>>
    BY <1>3 DEF MarkProcessing, Catch, campaign, counts, queue, past
  <2>2. WorkAt(w, "look") \/ WorkAt(w, "catch")
    BY <1>3 DEF MarkProcessing, Catch
  <2>. QED
    BY <2>1, <2>2, WorkerServes DEF Labels
<1>4. CASE Look(w)
  <2>1. work[w] = "look" /\ UNCHANGED <<sentEmails, delivered, stalled>>
    BY <1>4 DEF Look, campaign, counts, past
  <2>2. CASE EndJob(w, "completed")
    BY <1>1, <2>1, <2>2
  <2>3. CASE ~AlreadySent(at[w]) /\ WorkAt(w, "mail") /\ UNCHANGED <<lock, at>>
    <3>1. ASSUME NEW a \in Recipients \ stalled' PROVE Served(a)'
      <4>1. Served(a)
        BY <2>1, <3>1 DEF SentInv, ServedInv
      <4>2. \A v \in Workers : work'[v] = IF v = w THEN "mail" ELSE work[v]
        BY <1>0, <2>3 DEF WorkAt
      <4>3. \A v \in Workers : Busy(v, a)' => Busy(v, a)
        BY <2>1, <2>3, <4>2 DEF Busy
      <4>4. at[w] = a => sentEmails[a] = 0
        BY <1>0, <2>3 DEF AlreadySent
      <4>5. Busy(w, a)' => sentEmails[a] = 0
        BY <2>3, <4>4 DEF Busy
      <4>. QED
        BY <2>1, <2>3, <4>1, <4>2, <4>3, <4>5 DEF Served
    <3>. QED
      BY <3>1 DEF ServedInv
  <2>. QED
    BY <1>4, <2>2, <2>3 DEF Look
<1>5. CASE SendMail(w)
  <2>1. /\ work[w] = "mail" /\ WorkAt(w, "record")
        /\ delivered' = [delivered EXCEPT ![at[w]] = @ + 1]
        /\ UNCHANGED <<at, lock, sentEmails, stalled>>
    BY <1>5 DEF SendMail, campaign, counts, queue
  <2>2. ASSUME NEW a \in Recipients \ stalled' PROVE Served(a)'
    <3>1. Served(a)
      BY <2>1, <2>2 DEF SentInv, ServedInv
    <3>2. \A v \in Workers : work'[v] = IF v = w THEN "record" ELSE work[v]
      BY <1>0, <2>1 DEF WorkAt
    <3>3. \A v \in Workers : Busy(v, a)' => Busy(v, a)
      BY <2>1, <3>2 DEF Busy
    <3>4. delivered'[a] = IF at[w] = a THEN delivered[a] + 1 ELSE delivered[a]
      BY <1>0, <2>1
    <3>5. delivered[a] \in Nat
      BY <1>0
    <3>6. (delivered[a] # 0 => delivered'[a] # 0) /\ (at[w] = a => delivered'[a] # 0)
      BY <3>4, <3>5
    <3>7. Busy(w, a)' => sentEmails[a] = 0 /\ at[w] = a
      BY <2>1, <3>1, <3>3 DEF Served, Busy
    <3>. QED
      BY <2>1, <3>1, <3>2, <3>3, <3>6, <3>7 DEF Served
  <2>. QED
    BY <2>2 DEF ServedInv
<1>6. CASE Record(w)
  <2>1. /\ work[w] = "record" /\ WorkAt(w, "count")
        /\ \/ UNCHANGED sentEmails
           \/ sentEmails' = [sentEmails EXCEPT ![at[w]] = @ + 1]
        /\ UNCHANGED <<at, lock, delivered, stalled>>
    BY <1>6 DEF Record, queue
  <2>2. ASSUME NEW a \in Recipients \ stalled' PROVE Served(a)'
    <3>1. Served(a)
      BY <2>1, <2>2 DEF SentInv, ServedInv
    <3>2. \A v \in Workers : work'[v] = IF v = w THEN "count" ELSE work[v]
      BY <1>0, <2>1 DEF WorkAt
    <3>3. \A v \in Workers : Busy(v, a)' => Busy(v, a)
      BY <2>1, <3>2 DEF Busy
    <3>4. CASE at[w] = a
      <4>1. Busy(w, a) /\ delivered[a] # 0 /\ lock[a] = w
        BY <2>1, <3>1, <3>4 DEF Served, Busy
      <4>2. \A v \in Workers : Busy(v, a)' => v = w
        BY <3>1, <3>3, <4>1 DEF Served
      <4>. QED
        BY <2>1, <3>2, <4>1, <4>2 DEF Served
    <3>5. CASE at[w] # a
      <4>1. sentEmails'[a] = sentEmails[a]
        BY <1>0, <2>1, <3>5
      <4>2. \A v \in Workers : Busy(v, a)' => v # w
        BY <2>1, <3>5 DEF Busy
      <4>. QED
        BY <2>1, <3>1, <3>2, <3>3, <4>1, <4>2, ServedStays
    <3>. QED
      BY <3>4, <3>5
  <2>. QED
    BY <2>2 DEF ServedInv
<1>7. CASE ReadCounts(w)
  <2>1. work[w] # "idle" /\ UNCHANGED <<sentEmails, delivered, stalled>>
    BY <1>7 DEF ReadCounts, campaign, counts, past
  <2>2. EndJob(w, "completed") \/ (UNCHANGED <<at, lock>> /\ WorkAt(w, "settle"))
    BY <1>7 DEF ReadCounts
  <2>. QED
    BY <1>1, <2>1, <2>2, WorkerServes DEF Labels
<1>8. CASE CountFailure(w) \/ SettleStatus(w) \/ ThrowUncounted(w)
  <2>1. work[w] # "idle" /\ UNCHANGED <<sentEmails, delivered, stalled>>
    BY <1>8 DEF CountFailure, SettleStatus, ThrowUncounted, campaign, counts, past
  <2>2. \E outcome : EndJob(w, outcome)
    BY <1>8 DEF CountFailure, SettleStatus, ThrowUncounted, Throw
  <2>. QED
    BY <1>1, <2>1, <2>2
<1>9. CASE WorkerDies(w)
  <2>1. /\ Rest(w) /\ UNCHANGED <<sentEmails, delivered, stalled>>
        /\ lock' = [a \in Recipients |-> IF lock[a] = w THEN Nobody ELSE lock[a]]
    BY <1>9 DEF WorkerDies, campaign, counts
  <2>. QED
    BY <2>1, WorkerLeaves
<1>. QED
  BY <1>2, <1>3, <1>4, <1>5, <1>6, <1>7, <1>8, <1>9 DEF Process

LEMMA NextServed == SentInv /\ [Next]_vars => ServedInv'
<1> SUFFICES ASSUME SentInv, [Next]_vars PROVE ServedInv'
  OBVIOUS
<1>1. CASE UNCHANGED <<work, at, lock, sentEmails, delivered, stalled>>
  <2>1. ASSUME NEW a \in Recipients \ stalled' PROVE Served(a)'
    BY <1>1, <2>1, ServedStays DEF SentInv, ServedInv, Busy
  <2>. QED
    BY <2>1 DEF ServedInv
<1>2. ASSUME NEW b \in Recipients, Stall(b) PROVE ServedInv'
  <2>1. /\ lock' = [lock EXCEPT ![b] = Nobody] /\ stalled' = stalled \cup {b}
        /\ UNCHANGED <<work, at, sentEmails, delivered>>
    BY <1>2 DEF Stall, campaign, counts, worker
  <2>2. ASSUME NEW a \in Recipients \ stalled' PROVE Served(a)'
    <3>1. Served(a) /\ lock'[a] = lock[a]
      BY <2>1, <2>2 DEF SentInv, ServedInv, TypesInv, OInv, Types
    <3>. QED
      BY <2>1, <3>1, ServedStays DEF Busy
  <2>. QED
    BY <2>2 DEF ServedInv
<1>3. CASE Delete
  <2>1. /\ sentEmails' = [a \in Recipients |-> 0]
        /\ UNCHANGED <<work, at, lock, delivered, stalled>>
    BY <1>3 DEF Delete, queue, worker
  <2>2. ASSUME NEW a \in Recipients \ stalled' PROVE Served(a)'
    <3>1. Served(a)
      BY <2>1, <2>2 DEF SentInv, ServedInv
    <3>. QED
      BY <2>1, <3>1, ServedStays DEF Busy
  <2>. QED
    BY <2>2 DEF ServedInv
<1>4. ASSUME NEW s \in Sends, SendStep(s) PROVE ServedInv'
  BY <1>1, <1>4 DEF SendStep, CheckStatus, ReadAudience, SetQueued, AddJob, SendFails,
                    worker, queue, campaign, counts, past
<1>5. ASSUME \E a \in Users : SetConsent(a) \/ Unsubscribe(a)
      PROVE  ServedInv'
  BY <1>1, <1>5 DEF SetConsent, Unsubscribe, worker, queue, campaign, counts, past
<1>6. CASE Update \/ Quiet \/ UNCHANGED vars
  BY <1>1, <1>6 DEF Update, Quiet, vars, worker, queue, campaign, counts, past
<1>. QED
  BY <1>2, <1>3, <1>4, <1>5, <1>6, WorkerServed DEF Next

\* A recipient is counted when it enters the list.
LEMMA NextCount == SentInv /\ [Next]_vars => CountInv'
<1> SUFFICES ASSUME SentInv, [Next]_vars PROVE CountInv'
  OBVIOUS
<1>0. /\ sentEmails \in [Recipients -> Nat] /\ sentCount \in Nat
      /\ IsFiniteSet(Listed) /\ Cardinality(Listed) \in Nat
  <2>1. IsFiniteSet(Listed)
    BY RecipientsFinite, FS_Subset DEF Listed
  <2>. QED
    BY <2>1, FS_CardinalityType DEF SentInv, TypesInv, OInv, Types, CampaignTypes
<1>1. ASSUME UNCHANGED <<sentCount, sentEmails>>, stalled \subseteq stalled' PROVE CountInv'
  BY <1>1 DEF SentInv, CountInv, Listed
<1>2. ASSUME NEW w \in Workers, Record(w) PROVE CountInv'
  <2>1. work[w] = "record" /\ at[w] \in Recipients /\ UNCHANGED stalled
    BY <1>2 DEF Record, queue, SentInv, TypesInv, OInv, Types
  <2>2. CASE UNCHANGED <<sentCount, sentEmails>>
    BY <1>1, <2>1, <2>2
  <2>3. CASE ~UNCHANGED <<sentCount, sentEmails>>
    <3>1. /\ sentCount' = sentCount + 1
          /\ sentEmails' = [sentEmails EXCEPT ![at[w]] = @ + 1]
      BY <1>2, <2>3 DEF Record
    <3>2. SUFFICES ASSUME stalled = {} PROVE sentCount' = Cardinality(Listed')
      BY <2>1 DEF CountInv
    <3>3. sentEmails[at[w]] = 0
      BY <2>1, <3>2 DEF SentInv, ServedInv, Served, Busy
    <3>4. Listed' = Listed \cup {at[w]} /\ at[w] \notin Listed
      BY <1>0, <2>1, <3>1, <3>3 DEF Listed
    <3>5. Cardinality(Listed') = Cardinality(Listed) + 1
      BY <1>0, <3>4, FS_AddElement
    <3>. QED
      BY <3>1, <3>2, <3>5 DEF SentInv, CountInv
  <2>. QED
    BY <2>2, <2>3
<1>3. CASE Delete
  <2>1. sentCount' = 0 /\ sentEmails' = [a \in Recipients |-> 0]
    BY <1>3 DEF Delete
  <2>2. Listed' = {}
    BY <2>1 DEF Listed
  <2>. QED
    BY <2>1, <2>2, FS_EmptySet DEF CountInv
<1>4. ASSUME NEW w \in Workers, Process(w) \/ WorkerDies(w), ~Record(w) PROVE CountInv'
  BY <1>1, <1>4
     DEF Process, TakeJob, MarkProcessing, Look, SendMail, Catch, CountFailure, ReadCounts,
         SettleStatus, ThrowUncounted, WorkerDies, queue, campaign, counts
<1>5. ASSUME NEW s \in Sends, SendStep(s) PROVE CountInv'
  BY <1>1, <1>5 DEF SendStep, CheckStatus, ReadAudience, SetQueued, AddJob, SendFails,
                    queue, campaign, counts
<1>6. ASSUME \/ \E a \in Users : SetConsent(a) \/ Unsubscribe(a)
             \/ \E a \in Recipients : Stall(a)
             \/ Update \/ Quiet \/ UNCHANGED vars
      PROVE  CountInv'
  BY <1>1, <1>6 DEF SetConsent, Unsubscribe, Stall, Update, Quiet, vars, queue, campaign, counts
<1>. QED
  BY <1>2, <1>3, <1>4, <1>5, <1>6 DEF Next

\* Jobs are added, and so taken, after the campaign has been marked as queued.
LEMMA NextDraft == SentInv /\ [Next]_vars => DraftInv'
<1> SUFFICES ASSUME SentInv, [Next]_vars, status' = "draft"
             PROVE  /\ \A s \in Sends : sending'[s] # "add"
                    /\ \A a \in Recipients : job'[a] = "none"
                    /\ \A w \in Workers : work'[w] = "idle"
  BY DEF DraftInv
<1>0. /\ sending \in [Sends -> {"check", "audience", "queue", "add", "done", "refused", "failed"}]
      /\ status = "draft" => DraftInv /\ \A w \in Workers : verdict[w] # "draft"
  BY DEF SentInv, TypesInv, RequestTypes, VerdictTypes
<1>1. CASE UNCHANGED <<status, sending, job, work>>
  BY <1>0, <1>1 DEF DraftInv
<1>2. ASSUME NEW s \in Sends, SendStep(s), ~UNCHANGED <<status, sending, job, work>>
      PROVE  /\ \A q \in Sends : sending'[q] # "add"
             /\ UNCHANGED <<status, job, work>>
  <2>1. CASE SetQueued(s)
    <3>1. Deleted
      BY <2>1 DEF SetQueued, WriteStatus
    <3>. QED
      BY <2>1, <3>1 DEF SetQueued, WriteStatus, Deleted
  <2>2. CASE AddJob(s)
    <3>1. sending[s] = "add" /\ status = "draft"
      BY <2>2 DEF AddJob, campaign
    <3>. QED
      BY <1>0, <3>1 DEF DraftInv
  <2>3. CASE CheckStatus(s) \/ ReadAudience(s) \/ SendFails(s)
    <3>1. /\ UNCHANGED <<status, job, work>>
          /\ \E label \in {"queue", "audience", "refused", "failed"} : SendAt(s, label)
      BY <2>3 DEF CheckStatus, ReadAudience, SendFails, campaign, queue, worker
    <3>. QED
      BY <1>0, <3>1 DEF SendAt, DraftInv
  <2>. QED
    BY <1>2, <2>1, <2>2, <2>3 DEF SendStep
<1>3. ASSUME NEW w \in Workers, Process(w) \/ WorkerDies(w)
      PROVE  FALSE
  <2>1. status = "draft"
    <3>1. status' = status \/ status' = "processing" \/ status' = verdict[w]
      BY <1>3 DEF Process, TakeJob, MarkProcessing, Look, SendMail, Record, Catch, CountFailure,
                  ReadCounts, SettleStatus, ThrowUncounted, WorkerDies, WriteStatus, campaign
    <3>2. verdict[w] # "draft"
      BY DEF SentInv, TypesInv, VerdictTypes
    <3>. QED
      BY <3>1, <3>2
  <2>2. work[w] = "idle" /\ \A a \in Recipients : job[a] = "none"
    BY <1>0, <2>1 DEF DraftInv
  <2>. QED
    BY <1>3, <2>2 DEF Process, TakeJob, MarkProcessing, Look, SendMail, Record, Catch, CountFailure,
                      ReadCounts, SettleStatus, ThrowUncounted, WorkerDies
<1>4. ASSUME NEW a \in Recipients, Stall(a) PROVE FALSE
  BY <1>0, <1>4 DEF Stall, campaign, DraftInv
<1>5. CASE Delete
  BY <1>5 DEF Delete
<1>6. ASSUME \/ \E a \in Users : SetConsent(a) \/ Unsubscribe(a)
             \/ Update \/ Quiet \/ UNCHANGED vars
      PROVE  UNCHANGED <<status, sending, job, work>>
  BY <1>6 DEF SetConsent, Unsubscribe, Update, Quiet, vars, campaign, request, queue, worker
<1>7. ASSUME NEW s \in Sends, SendStep(s)
      PROVE  /\ \A q \in Sends : sending'[q] # "add"
             /\ \A a \in Recipients : job'[a] = "none"
             /\ \A w \in Workers : work'[w] = "idle"
  BY <1>0, <1>1, <1>2, <1>7 DEF DraftInv
<1>. QED
  BY <1>1, <1>3, <1>4, <1>5, <1>6, <1>7 DEF Next

\* A verdict of success counts every recipient, and none is added afterwards.
LEMMA NextVerdict == SentInv /\ [Next]_vars => VerdictInv'
<1> SUFFICES ASSUME SentInv, [Next]_vars, ~Deleted', ~resized',
                    status' = "sent" \/ \E w \in Workers : verdict'[w] = "sent"
             PROVE  targetCount' <= sentCount'
  BY DEF VerdictInv
<1>0. /\ targetCount \in Nat /\ sentCount \in Nat /\ failedCount \in Nat
      /\ verdict \in [Workers -> {"none", "sent", "partially_failed", "failed"}]
      /\ \A w \in Workers : verdict[w] # "none" <=> work[w] = "settle"
  BY DEF SentInv, TypesInv, CampaignTypes, VerdictTypes
<1>1. ASSUME ~Deleted, ~resized, targetCount' = targetCount, sentCount <= sentCount',
             status' = "sent" => status = "sent" \/ \E w \in Workers : verdict[w] = "sent",
             \A w \in Workers : verdict'[w] = "sent" => verdict[w] = "sent"
      PROVE  targetCount' <= sentCount'
  <2>1. targetCount <= sentCount
    BY <1>1 DEF SentInv, VerdictInv
  <2>2. CampaignTypes'
    BY NextTypes DEF SentInv, TypesInv
  <2>. QED
    BY <1>0, <1>1, <2>1, <2>2 DEF CampaignTypes
<1>2. ASSUME UNCHANGED <<status, targetCount, sentCount, resized, verdict>>
      PROVE  targetCount' <= sentCount'
  BY <1>0, <1>1, <1>2 DEF Deleted
<1>3. ASSUME NEW s \in Sends, SetQueued(s) PROVE targetCount' <= sentCount'
  <2>1. /\ ~Deleted /\ status' = "queued"
        /\ resized' = (resized \/ (status # "draft" /\ targetCount' # targetCount))
        /\ UNCHANGED <<sentCount, verdict>>
    BY <1>3 DEF SetQueued, WriteStatus, Deleted, worker
  <2>2. PICK w \in Workers : verdict[w] = "sent"
    BY <2>1
  <2>3. status # "draft"
    BY <1>0, <2>2 DEF SentInv, DraftInv
  <2>4. ~resized /\ targetCount' = targetCount
    BY <2>1, <2>3, Zenon
  <2>5. sentCount <= sentCount'
    BY <1>0, <2>1
  <2>. QED
    BY <1>1, <2>1, <2>4, <2>5
<1>4. ASSUME NEW w \in Workers, Process(w) \/ WorkerDies(w) PROVE targetCount' <= sentCount'
  <2>1. \A v \in Workers : Rest(w) /\ verdict'[v] = "sent" => verdict[v] = "sent"
    BY <1>0 DEF Rest
  <2>2. CASE MarkProcessing(w)
    <3>1. /\ status' # "sent" \/ status' = status
          /\ UNCHANGED <<targetCount, sentCount, resized, verdict>>
      BY <2>2 DEF MarkProcessing, WriteStatus, counts, past
    <3>2. ~Deleted
      BY <2>2 DEF MarkProcessing, WriteStatus, Deleted
    <3>. QED
      BY <1>0, <1>1, <3>1, <3>2
  <2>3. CASE Record(w)
    <3>1. /\ sentCount' = sentCount \/ sentCount' = sentCount + 1
          /\ UNCHANGED <<status, targetCount, resized, verdict>>
      BY <2>3 DEF Record
    <3>2. sentCount <= sentCount'
      BY <1>0, <3>1
    <3>. QED
      BY <1>1, <3>1, <3>2 DEF Deleted
  <2>4. CASE ReadCounts(w)
    <3>1. UNCHANGED <<status, targetCount, sentCount, failedCount, resized>>
      BY <2>4 DEF ReadCounts, campaign, counts, past
    <3>2. CASE EndJob(w, "completed")
      BY <1>0, <1>1, <2>1, <3>1, <3>2 DEF EndJob, Deleted
    <3>3. CASE ~EndJob(w, "completed")
      <4>1. /\ AllCounted(sentCount + failedCount)
            /\ verdict' = [verdict EXCEPT ![w] = Outcome(sentCount, failedCount)]
        BY <2>4, <3>3 DEF ReadCounts
      <4>2. CASE Outcome(sentCount, failedCount) = "sent"
        <5>1. failedCount = 0
          BY <4>2 DEF Outcome
        <5>. QED
          BY <1>0, <3>1, <4>1, <5>1 DEF AllCounted
      <4>3. CASE Outcome(sentCount, failedCount) # "sent"
        <5>1. \A v \in Workers : verdict'[v] = "sent" => verdict[v] = "sent"
          BY <1>0, <4>1, <4>3
        <5>. QED
          BY <1>0, <1>1, <3>1, <5>1 DEF Deleted
      <4>. QED
        BY <4>2, <4>3
    <3>. QED
      BY <3>2, <3>3
  <2>5. CASE SettleStatus(w)
    <3>1. /\ status' = IF Deleted THEN status ELSE verdict[w]
          /\ Rest(w) /\ UNCHANGED <<targetCount, sentCount, resized>>
      BY <2>5 DEF SettleStatus, WriteStatus, EndJob, counts, past
    <3>2. ~Deleted
      BY <3>1 DEF Deleted
    <3>. QED
      BY <1>0, <1>1, <2>1, <3>1, <3>2
  <2>6. CASE CountFailure(w) \/ ThrowUncounted(w) \/ WorkerDies(w)
    <3>1. Rest(w) /\ UNCHANGED <<status, targetCount, sentCount, resized>>
      BY <2>6 DEF CountFailure, ThrowUncounted, WorkerDies, Throw, EndJob, campaign, counts, past
    <3>. QED
      BY <1>0, <1>1, <2>1, <3>1 DEF Deleted
  <2>7. CASE Look(w)
    <3>1. /\ UNCHANGED <<status, targetCount, sentCount, resized>>
          /\ Rest(w) \/ UNCHANGED verdict
      BY <2>7 DEF Look, EndJob, campaign, counts, past
    <3>. QED
      BY <1>0, <1>1, <2>1, <3>1 DEF Deleted
  <2>8. CASE TakeJob(w) \/ SendMail(w) \/ Catch(w)
    BY <1>2, <2>8 DEF TakeJob, SendMail, Catch, campaign, counts, past
  <2>. QED
    BY <1>4, <2>2, <2>3, <2>4, <2>5, <2>6, <2>7, <2>8 DEF Process
<1>5. CASE Delete
  BY <1>5 DEF Delete, Deleted
<1>6. ASSUME NEW s \in Sends, SendStep(s), ~SetQueued(s) PROVE targetCount' <= sentCount'
  BY <1>2, <1>6 DEF SendStep, CheckStatus, ReadAudience, AddJob, SendFails,
                    worker, campaign, counts, past
<1>7. ASSUME \/ \E a \in Users : SetConsent(a) \/ Unsubscribe(a)
             \/ \E a \in Recipients : Stall(a)
             \/ Update \/ Quiet \/ UNCHANGED vars
      PROVE  targetCount' <= sentCount'
  BY <1>2, <1>7
  DEF SetConsent, Unsubscribe, Stall, Update, Quiet, vars, worker, campaign, counts, past
<1>. QED
  BY <1>3, <1>4, <1>5, <1>6, <1>7 DEF Next

\* A campaign shown as sent has reached as many recipients as it shows, unless
\* a job stalled, or a request found another number of recipients than the one
\* before it (process, which settles the status by the campaign's counts).
THEOREM SentIsDelivered == Spec => []SentMeansDelivered
<1>1. SentInv => SentMeansDelivered
  <2> SUFFICES ASSUME SentInv, status = "sent", stalled = {}, ~resized
               PROVE  targetCount <= Cardinality({a \in Recipients : delivered[a] > 0})
    BY RecipientsFinite DEF SentMeansDelivered
  <2> DEFINE reached == {a \in Recipients : delivered[a] > 0}
  <2>1. IsFiniteSet(reached) /\ Listed \subseteq reached
    <3>1. \A a \in Recipients : delivered[a] \in Nat /\ (sentEmails[a] # 0 => delivered[a] # 0)
      BY DEF SentInv, ServedInv, Served, TypesInv, OInv, Types
    <3>2. \A a \in Recipients : delivered[a] # 0 => delivered[a] > 0
      BY <3>1
    <3>. QED
      BY <3>1, <3>2, RecipientsFinite, FS_Subset DEF Listed
  <2>2. /\ Cardinality(Listed) <= Cardinality(reached)
        /\ Cardinality(Listed) \in Nat /\ Cardinality(reached) \in Nat
    BY <2>1, FS_Subset, FS_CardinalityType
  <2>3. targetCount <= sentCount /\ sentCount = Cardinality(Listed) /\ targetCount \in Nat
    BY DEF SentInv, VerdictInv, CountInv, Deleted, TypesInv, CampaignTypes
  <2>. QED
    BY <2>2, <2>3
<1>2. SentInv /\ [Next]_vars => SentInv'
  BY NextTypes, NextServed, NextCount, NextDraft, NextVerdict DEF SentInv
<1>. QED
  BY <1>1, <1>2, InitSent, PTL DEF Spec
=============================================================================
