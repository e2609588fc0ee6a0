--------------------------- MODULE EmailOtpProofs ---------------------------
(***************************************************************************)
(* Proofs about the one-time codes: for any number of requests at once, of *)
(* codes, of attempts and of faults.                                       *)
(*                                                                         *)
(* Types comes first; every other part is an invariant of its own that     *)
(* rests on it, and says in which order the steps of two requests can fall.*)
(***************************************************************************)
EXTENDS EmailOtp, TLAPS, FiniteSetTheorems

-----------------------------------------------------------------------------
(* Types, with what they need: the lock is set no later than the counter   *)
(* is full, a job that is not done has tries left, and a request that has  *)
(* a code to send or to judge holds it.                                    *)

Otp == [flow : Nat, attempts : Nat, isUsed : BOOLEAN]

Call == [kind : {"none", "begin", "send", "verify", "confirm"},
         flow : {0} \cup Codes, code : {0} \cup Codes, held : {0} \cup Codes, seen : Nat]

Labels == {"idle", "register", "cooldown", "invalidate", "create", "deliver",
           "reserve", "add", "find", "reject", "accept", "clear", "activate", "tokens"}

Holding == {"deliver", "reserve", "add", "reject", "accept"}

CodeTypes ==
  /\ <<mode, purpose>> \in Settings
  /\ otps \in Seq(Otp) /\ Len(otps) \in Nat
  /\ recent \subseteq Codes /\ expired \subseteq Codes
  /\ account \in {"none", "pending", "verified"}
  /\ \A k \in Codes : otps[k].flow <= Len(otps)

RedisTypes ==
  /\ cooling \in BOOLEAN /\ locked \in BOOLEAN /\ attempts \in 0..MaxAttempts
  /\ ~locked => attempts < MaxAttempts

QueueTypes ==
  /\ dedup \in {"free", "queued", "processing", "sent", "failed"}
  /\ job \in [state : {"none", "waiting", "active", "mailed", "completed", "failed"},
              code : {0} \cup Codes, tries : 0..JobAttempts]
  /\ job.state \in {"waiting", "active", "mailed"} => job.tries < JobAttempts
  /\ IF job.state = "none" THEN job = NoJob ELSE job.code \in Codes

CallTypes ==
  /\ pc \in [Clients -> Labels] /\ call \in [Clients -> Call]
  /\ \A c \in Clients : pc[c] \in Holding => call[c].held \in Codes

HistoryTypes ==
  /\ mailbox \subseteq Codes /\ promised \subseteq Codes /\ crowded \subseteq Codes
  /\ accepted \in Seq(Nat) /\ Len(accepted) = Len(otps)
  /\ guesses \in Nat /\ raced \in BOOLEAN
  /\ sessions \in Nat /\ faults \in 0..MaxFaults

Types == CodeTypes /\ RedisTypes /\ QueueTypes /\ CallTypes /\ HistoryTypes

LEMMA Limits ==
  /\ MaxAttempts \in Nat /\ 0 < MaxAttempts /\ JobAttempts \in Nat /\ 0 < JobAttempts
  /\ MaxFaults \in Nat
BY EmailOtpAssumption DEF EmailOtpAssumption

LEMMA TypesAreTypeOK == Types => TypeOK
BY DEF Types, CodeTypes, RedisTypes, QueueTypes, CallTypes, HistoryTypes, TypeOK, Otp, Call, Labels

LEMMA InitTypes == Init => Types
<1> SUFFICES ASSUME Init PROVE Types
  OBVIOUS
<1>1. <<mode, purpose>> \in Settings
  <2>1. PICK s \in Settings : mode = s[1] /\ purpose = s[2]
    BY DEF Init
  <2>2. s = <<s[1], s[2]>>
    BY <2>1, EmailOtpAssumption DEF EmailOtpAssumption
  <2>. QED
    BY <2>1, <2>2
<1>2. otps \in Seq(Otp) /\ Len(otps) = 0 /\ accepted \in Seq(Nat) /\ Len(accepted) = 0
  BY DEF Init
<1>3. CodeTypes
  BY <1>1, <1>2 DEF Init, CodeTypes, Codes
<1>4. RedisTypes
  <2>1. ~cooling /\ ~locked /\ attempts = 0 /\ cooling \in BOOLEAN /\ locked \in BOOLEAN
    BY DEF Init
  <2>. QED
    BY <2>1, Limits DEF RedisTypes
<1>5. QueueTypes
  BY Limits DEF Init, QueueTypes, NoJob
<1>6. CallTypes
  BY DEF Init, CallTypes, Call, NoCall, Labels, Holding
<1>7. HistoryTypes
  <2>1. /\ mailbox = {} /\ promised = {} /\ crowded = {} /\ raced \in BOOLEAN
        /\ guesses = 0 /\ sessions = 0 /\ faults = 0
    BY DEF Init
  <2>. QED
    BY <1>2, <2>1, Limits DEF HistoryTypes
<1>. QED
  BY <1>3, <1>4, <1>5, <1>6, <1>7 DEF Types

(* What a step leaves alone keeps its types.                               *)
LEMMA QueueStays == QueueTypes /\ UNCHANGED <<job, dedup>> /\ Codes \subseteq Codes' => QueueTypes'
BY DEF QueueTypes, NoJob

LEMMA CodesStay == CodeTypes /\ UNCHANGED <<config, codes, account>> => CodeTypes' /\ Codes' = Codes
BY DEF CodeTypes, config, codes, Codes

LEMMA RedisStays == RedisTypes /\ UNCHANGED redis => RedisTypes'
BY DEF RedisTypes, redis

LEMMA HistoryStays ==
  HistoryTypes /\ UNCHANGED <<mailbox, history>> /\ Len(otps') = Len(otps) /\ Codes \subseteq Codes' => HistoryTypes'
BY DEF HistoryTypes, history

LEMMA CallsStay == CallTypes /\ UNCHANGED <<pc, call>> /\ Codes \subseteq Codes' => CallTypes'
BY DEF CallTypes, Call

(* A request goes on with r, at a label.                                   *)
LEMMA CallGoes ==
  ASSUME CallTypes, Codes \subseteq Codes', NEW c \in Clients, NEW label \in Labels, NEW r \in Call',
         label \in Holding => r.held \in Codes',
         Goto(c, label), call' = [call EXCEPT ![c] = r]
  PROVE  CallTypes'
BY DEF CallTypes, Call, Goto

LEMMA CallEnds ==
  ASSUME CallTypes, Codes \subseteq Codes', NEW c \in Clients, Done(c)
  PROVE  CallTypes'
<1>1. NoCall \in Call' /\ "idle" \in Labels \ Holding
  BY DEF NoCall, Call, Labels, Holding
<1>. QED
  BY <1>1, CallGoes DEF Done

LEMMA CallMoves ==
  ASSUME CallTypes, Codes' = Codes, NEW c \in Clients, NEW label \in Labels, 
         label \in Holding => pc[c] \in Holding,
         Goto(c, label), UNCHANGED call
  PROVE  CallTypes'
BY DEF CallTypes, Call, Goto

(* The codes a step leaves alone, and those it works on.                   *)
LEMMA CodesChange ==
  ASSUME CodeTypes, UNCHANGED <<config, recent, expired, account>>,
         otps' \in Seq(Otp), Len(otps') = Len(otps),
         \A k \in Codes : otps'[k].flow = otps[k].flow
  PROVE  CodeTypes' /\ Codes' = Codes
BY DEF CodeTypes, config, Codes

(* The rest of the state, when codes and histories are left alone.         *)
Rest == <<config, codes, account, redis, queue, mailbox, history>>

LEMMA RestStays ==
  ASSUME Types, UNCHANGED Rest
  PROVE  /\ CodeTypes' /\ Codes' = Codes
         /\ RedisTypes' /\ QueueTypes' /\ HistoryTypes'
<1>1. CodeTypes' /\ Codes' = Codes
  BY CodesStay DEF Types, Rest
<1>2. Len(otps') = Len(otps)
  BY DEF Rest, codes
<1>. QED
  BY <1>1, <1>2, RedisStays, QueueStays, HistoryStays DEF Types, Rest, queue

LEMMA OtpTyped ==
  ASSUME CodeTypes, NEW k \in Codes
  PROVE  /\ otps[k] \in Otp /\ otps[k].flow \in 0..Len(otps)
         /\ otps[k].attempts \in Nat /\ otps[k].isUsed \in BOOLEAN
<1>1. otps[k] \in Otp
  BY DEF CodeTypes, Codes
<1>. QED
  BY <1>1 DEF CodeTypes, Otp

LEMMA TypesSending ==
  ASSUME Types, NEW c \in Clients,
         \/ Send(c) \/ Register(c) \/ Login(c) \/ \E f \in Given : Resend(c, f)
  PROVE  Types'
<1>1. ASSUME NEW r \in Call, NEW label \in {"cooldown", "register"},
             Start(c, label, r), UNCHANGED Rest
      PROVE  Types'
  <2>1. /\ CodeTypes' /\ Codes' = Codes
        /\ RedisTypes' /\ QueueTypes' /\ HistoryTypes'
    BY <1>1, RestStays
  <2>2. r \in Call'
    BY <2>1 DEF Call
  <2>3. label \in Labels \ Holding
    BY DEF Labels, Holding
  <2>4. CallTypes'
    BY <1>1, <2>1, <2>2, <2>3, CallGoes DEF Types, Start
  <2>. QED
    BY <2>1, <2>4 DEF Types
<1>2. \A f \in Given : f \in Codes
  BY OtpTyped DEF Given, Types, HistoryTypes, CodeTypes, Codes
<1>3. /\ [NoCall EXCEPT !.kind = "send"] \in Call /\ [NoCall EXCEPT !.kind = "begin"] \in Call
      /\ \A f \in Codes : [NoCall EXCEPT !.kind = "send", !.flow = f] \in Call
  BY DEF NoCall, Call
<1>5. CASE Send(c)
  BY <1>1, <1>3, <1>5 DEF Send, Rest
<1>6. CASE Register(c)
  BY <1>1, <1>3, <1>6 DEF Register, Rest
<1>7. CASE Login(c)
  BY <1>1, <1>3, <1>7 DEF Login, Rest
<1>8. ASSUME NEW f \in Given, Resend(c, f) PROVE Types'
  BY <1>1, <1>2, <1>3, <1>8 DEF Resend, Rest
<1>. QED
  BY <1>5, <1>6, <1>7, <1>8

LEMMA TypesCodes ==
  ASSUME Types, NEW c \in Clients,
         CreateAccount(c) \/ CoolDown(c) \/ Invalidate(c) \/ Create(c)
  PROVE  Types'
<1>. "cooldown" \in Labels \ Holding /\ "invalidate" \in Labels \ Holding /\ "create" \in Labels \ Holding
  BY DEF Labels, Holding
<1>1. CASE CreateAccount(c)
  <2>1. CodeTypes' /\ Codes' = Codes /\ Len(otps') = Len(otps)
    BY <1>1 DEF CreateAccount, Types, CodeTypes, config, codes, Codes
  <2>2. RedisTypes' /\ QueueTypes' /\ HistoryTypes'
    BY <1>1, <2>1, RedisStays, QueueStays, HistoryStays DEF CreateAccount, Types, queue
  <2>3. CallTypes'
    BY <1>1, <2>1, CallEnds, CallMoves DEF CreateAccount, Types
  <2>. QED
    BY <2>1, <2>2, <2>3 DEF Types
<1>2. CASE CoolDown(c)
  <2>1. CodeTypes' /\ Codes' = Codes /\ Len(otps') = Len(otps)
    BY <1>2, CodesStay DEF CoolDown, Types, codes
  <2>2. RedisTypes' /\ QueueTypes' /\ HistoryTypes'
    BY <1>2, <2>1, QueueStays DEF CoolDown, Types, RedisTypes, HistoryTypes, queue
  <2>3. CallTypes'
    BY <1>2, <2>1, CallEnds, CallMoves DEF CoolDown, Types
  <2>. QED
    BY <2>1, <2>2, <2>3 DEF Types
<1>3. CASE Invalidate(c)
  <2>1. /\ otps' \in Seq(Otp) /\ Len(otps') = Len(otps)
        /\ \A k \in Codes : otps'[k].flow = otps[k].flow
    <3>1. \A k \in Codes : [otps[k] EXCEPT !.isUsed = TRUE] \in Otp
      BY OtpTyped DEF Types, Otp
    <3>2. otps' = [k \in Codes |-> [otps[k] EXCEPT !.isUsed = TRUE]]
      BY <1>3 DEF Invalidate
    <3>3. Codes = 1..Len(otps) /\ Len(otps) \in Nat
      BY DEF Codes, Types, CodeTypes
    <3>4. otps' \in Seq(Otp) /\ Len(otps') = Len(otps)
      BY <3>1, <3>2, <3>3
    <3>5. \A k \in Codes : otps'[k].flow = otps[k].flow
      BY <3>2, OtpTyped DEF Types, Otp
    <3>. QED
      BY <3>4, <3>5
  <2>2. CodeTypes' /\ Codes' = Codes
    BY <1>3, <2>1, CodesChange DEF Invalidate, Types
  <2>3. RedisTypes' /\ QueueTypes' /\ HistoryTypes'
    BY <1>3, <2>1, <2>2, RedisStays, QueueStays, HistoryStays DEF Invalidate, Types, queue
  <2>4. CallTypes'
    BY <1>3, <2>2, CallMoves DEF Invalidate, Types
  <2>. QED
    BY <2>2, <2>3, <2>4 DEF Types
<1>4. CASE Create(c)
  <2> DEFINE k == Len(otps) + 1
             f == IF call[c].kind = "begin" THEN k ELSE call[c].flow
             o == [flow |-> f, attempts |-> 0, isUsed |-> FALSE]
  <2>1. f \in 0..k /\ k \in Nat
    BY DEF Types, CodeTypes, CallTypes, Call, Codes
  <2>2. o \in Otp
    BY <2>1 DEF Otp
  <2>3. otps' = Append(otps, o)
    BY <1>4 DEF Create
  <2>4. /\ otps' \in Seq(Otp) /\ Len(otps') = k /\ Codes' = 1..k /\ Codes \subseteq Codes'
        /\ otps'[k] = o /\ \A i \in Codes : otps'[i] = otps[i]
    BY <2>1, <2>2, <2>3 DEF Codes, Types, CodeTypes
  <2>5. CodeTypes'
    <3>1. \A i \in Codes' : otps'[i].flow <= k
      <4>1. \A i \in Codes : otps'[i].flow <= k
        BY <2>1, <2>4, OtpTyped DEF Types, CodeTypes
      <4>2. otps'[k].flow <= k
        BY <2>1, <2>4
      <4>. QED
        BY <2>1, <2>4, <4>1, <4>2 DEF Codes
    <3>. QED
      BY <1>4, <2>1, <2>4, <3>1 DEF Create, Types, CodeTypes, config
  <2>6. RedisTypes' /\ QueueTypes'
    BY <1>4, <2>4, RedisStays, QueueStays DEF Create, Types, queue
  <2>7. HistoryTypes'
    BY <1>4, <2>4 DEF Create, Types, HistoryTypes
  <2>8. CallTypes'
    <3> DEFINE r == [call[c] EXCEPT !.flow = f, !.held = k]
               label == IF mode = "queue" THEN "reserve" ELSE "deliver"
    <3>1. r \in Call' /\ r.held \in Codes'
      <4>1. PICK q \in Call : q = call[c]
        BY DEF Types, CallTypes
      <4>2. f \in {0} \cup Codes' /\ k \in Codes'
        BY <2>1, <2>4
      <4>. HIDE DEF f, k
      <4>3. [q EXCEPT !.flow = f, !.held = k] \in Call'
        BY <2>4, <4>2 DEF Call
      <4>4. [q EXCEPT !.flow = f, !.held = k].held = k
        BY DEF Call
      <4>. QED
        BY <4>1, <4>2, <4>3, <4>4
    <3>2. label \in Labels
      BY DEF Labels
    <3>3. call' = [call EXCEPT ![c] = r]
      BY <1>4 DEF Create, Types, CallTypes, Call
    <3>. QED
      BY <1>4, <2>4, <3>1, <3>2, <3>3, CallGoes DEF Create, Types
  <2>. QED
    BY <2>5, <2>6, <2>7, <2>8 DEF Types
<1>. QED
  BY <1>1, <1>2, <1>3, <1>4

LEMMA TypesMails ==
  ASSUME Types, NEW c \in Clients, Deliver(c) \/ Reserve(c) \/ AddJob(c)
  PROVE  Types'
<1>1. CodeTypes' /\ Codes' = Codes /\ Len(otps') = Len(otps)
  BY CodesStay DEF Deliver, Reserve, AddJob, Types, codes
<1>2. RedisTypes'
  BY RedisStays DEF Deliver, Reserve, AddJob, Types
<1>3. call[c].held \in Codes /\ pc[c] \in {"deliver", "reserve", "add"}
  BY DEF Deliver, Reserve, AddJob, Types, CallTypes, Holding
<1>4. QueueTypes'
  <2>1. CASE Deliver(c)
    BY <1>1, <2>1, QueueStays DEF Deliver, Types, queue
  <2>2. CASE Reserve(c)
    BY <1>1, <2>2 DEF Reserve, Types, QueueTypes, NoJob
  <2>3. CASE AddJob(c)
    BY <1>1, <1>3, <2>3, Limits DEF AddJob, Types, QueueTypes, NoJob
  <2>. QED
    BY <2>1, <2>2, <2>3
<1>5. CallTypes'
  <2>1. CASE Done(c)
    BY <1>1, <2>1, CallEnds DEF Types
  <2>2. CASE Goto(c, "add") /\ UNCHANGED call
    <3>1. "add" \in Labels /\ pc[c] \in Holding
      BY <1>3 DEF Labels, Holding
    <3>. QED
      BY <1>1, <2>2, <3>1, CallMoves DEF Types
  <2>. QED
    BY <2>1, <2>2 DEF Deliver, Reserve, AddJob, AnswerSent
<1>6. HistoryTypes'
  <2>1. /\ UNCHANGED <<accepted, guesses, crowded, raced, sessions>>
        /\ promised' \subseteq promised \cup {call[c].held}
        /\ mailbox' \subseteq mailbox \cup {call[c].held}
        /\ faults' = faults \/ Fault
    BY DEF Deliver, Reserve, AddJob, AnswerSent
  <2>. QED
    BY <1>1, <1>3, <2>1, Limits DEF Types, HistoryTypes, Fault
<1>. QED
  BY <1>1, <1>2, <1>4, <1>5, <1>6 DEF Types

LEMMA TypesWork == Types /\ Work => Types'
<1> SUFFICES ASSUME Types, Work PROVE Types'
  OBVIOUS
<1>1. CodeTypes' /\ Codes' = Codes /\ Len(otps') = Len(otps)
  BY CodesStay DEF Work, TakeJob, MailJob, MarkSent, FailJob, Types, codes
<1>2. RedisTypes' /\ CallTypes'
  BY <1>1, RedisStays, CallsStay DEF Work, TakeJob, MailJob, MarkSent, FailJob, Types
<1>3. QueueTypes' /\ HistoryTypes'
  <2>1. CASE TakeJob
    BY <1>1, <2>1, HistoryStays DEF TakeJob, Types, QueueTypes, NoJob
  <2>2. CASE MailJob
    BY <1>1, <2>2 DEF MailJob, Types, QueueTypes, HistoryTypes, NoJob, history
  <2>3. CASE MarkSent
    BY <1>1, <2>3, HistoryStays DEF MarkSent, Types, QueueTypes, NoJob
  <2>4. CASE FailJob
    <3>1. QueueTypes'
      <4>1. PICK state \in {"waiting", "failed"} :
              /\ job' = [job EXCEPT !.tries = job.tries + 1, !.state = state]
              /\ state = "waiting" => job.tries + 1 < JobAttempts
        BY <2>4 DEF FailJob
      <4>2. job.state \in {"active", "mailed"} /\ dedup' \in {"failed", dedup}
        BY <2>4 DEF FailJob
      <4>3. job.code \in Codes /\ job.tries + 1 \in 0..JobAttempts
        BY <4>2, Limits DEF Types, QueueTypes
      <4>4. job' \in [state : {"none", "waiting", "active", "mailed", "completed", "failed"},
                      code : {0} \cup Codes, tries : 0..JobAttempts]
        BY <4>1, <4>3 DEF Types, QueueTypes
      <4>5. job'.state = state /\ job'.code = job.code /\ job'.tries = job.tries + 1
        BY <4>1 DEF Types, QueueTypes
      <4>6. dedup' \in {"free", "queued", "processing", "sent", "failed"}
        BY <4>2 DEF Types, QueueTypes
      <4>7. job'.state # "none" /\ job'.code \in Codes'
        BY <1>1, <4>1, <4>3, <4>5
      <4>. QED
        BY <1>1, <4>1, <4>4, <4>5, <4>6, <4>7 DEF QueueTypes
    <3>2. HistoryTypes'
      BY <1>1, <2>4, Limits DEF FailJob, Fault, Types, HistoryTypes
    <3>. QED
      BY <3>1, <3>2
  <2>. QED
    BY <2>1, <2>2, <2>3, <2>4 DEF Work
<1>. QED
  BY <1>1, <1>2, <1>3 DEF Types

LEMMA TypesChecks ==
  ASSUME Types, NEW c \in Clients,
         \/ \E k \in mailbox \cup {0} : Verify(c, k)
         \/ \E f \in Given, k \in mailbox \cup {0} : Confirm(c, f, k)
         \/ FindCode(c)
  PROVE  Types'
<1>1. ASSUME NEW r \in Call, PassLock(c, r)
      PROVE  Types'
  <2>1. CodeTypes' /\ Codes' = Codes /\ Len(otps') = Len(otps)
    BY <1>1, CodesStay DEF PassLock, Types, codes
  <2>2. RedisTypes' /\ QueueTypes'
    BY <1>1, <2>1, RedisStays, QueueStays DEF PassLock, Types, queue
  <2>3. CallTypes'
    <3>1. r \in Call' /\ "find" \in Labels \ Holding
      BY <2>1 DEF Call, Labels, Holding
    <3>. QED
      BY <1>1, <2>1, <3>1, CallGoes DEF PassLock, Start, Types
  <2>4. HistoryTypes'
    <3>1. \A d \in Clients : call[d].held \in {0} \cup Codes
      BY DEF Types, CallTypes, Call
    <3>2. {call[d].held : d \in Others(c)} \ {0} \subseteq Codes
      BY <3>1 DEF Others
    <3>. QED
      BY <1>1, <2>1, <3>2 DEF PassLock, Types, HistoryTypes
  <2>. QED
    BY <2>1, <2>2, <2>3, <2>4 DEF Types
<1>2. \A k \in mailbox \cup {0} :
        /\ [NoCall EXCEPT !.kind = "verify", !.code = k] \in Call
        /\ [NoCall EXCEPT !.kind = "confirm", !.code = k] \in Call
  BY DEF NoCall, Call, Types, HistoryTypes
<1>3. CASE FindCode(c)
  <2>1. CodeTypes' /\ Codes' = Codes /\ Len(otps') = Len(otps)
    BY <1>3, CodesStay DEF FindCode, Types, codes
  <2>2. RedisTypes' /\ QueueTypes'
    BY <1>3, <2>1, RedisStays, QueueStays DEF FindCode, Types, queue
  <2>3. CallTypes'
    <3>1. CASE Done(c)
      BY <2>1, <3>1, CallEnds DEF Types
    <3>2. ASSUME NEW k \in Usable,
                 call' = [call EXCEPT ![c].code = 0, ![c].held = k, ![c].seen = otps[k].attempts],
                 Goto(c, IF call[c].code = k THEN "accept" ELSE "reject")
          PROVE  CallTypes'
      <4>1. PICK q \in Call : q = call[c]
        BY DEF Types, CallTypes
      <4>2. k \in Codes /\ k \in Codes'
        BY <2>1 DEF Usable
      <4>3. PICK a \in Nat : a = otps[k].attempts
        BY <4>2, OtpTyped DEF Types
      <4> DEFINE r == [q EXCEPT !.code = 0, !.held = k, !.seen = a]
      <4>4. r \in Call' /\ r.held = k
        BY <2>1, <4>2, <4>3 DEF Call
      <4>5. call' = [call EXCEPT ![c] = r]
        BY <3>2, <4>1, <4>3 DEF Types, CallTypes
      <4>6. "accept" \in Labels /\ "reject" \in Labels
        BY DEF Labels
      <4>. HIDE DEF r
      <4>. QED
        BY <2>1, <3>2, <4>2, <4>4, <4>5, <4>6, CallGoes DEF Types
    <3>. QED
      BY <1>3, <3>1, <3>2 DEF FindCode
  <2>4. HistoryTypes'
    <3>1. UNCHANGED <<mailbox, promised, accepted, raced, sessions, faults>>
      BY <1>3 DEF FindCode
    <3>2. CASE UNCHANGED <<guesses, crowded>>
      BY <2>1, <3>1, <3>2 DEF Types, HistoryTypes
    <3>3. CASE \E k \in Usable :
                 /\ guesses' = IF call[c].code = k THEN guesses ELSE Counted(guesses)
                 /\ crowded' = IF Others(c) = {} THEN crowded ELSE crowded \cup {k}
      BY <2>1, <3>1, <3>3 DEF Types, HistoryTypes, Usable, Counted
    <3>. QED
      BY <1>3, <3>2, <3>3 DEF FindCode
  <2>. QED
    BY <2>1, <2>2, <2>3, <2>4 DEF Types
<1>. QED
  BY <1>1, <1>2, <1>3 DEF Verify, Confirm

LEMMA TypesVerdicts ==
  ASSUME Types, NEW c \in Clients,
         Reject(c) \/ Accept(c) \/ Clear(c) \/ Activate(c) \/ IssueTokens(c) \/ Crash(c)
  PROVE  Types'
<1>1. CASE Reject(c)
  <2>1. CodeTypes' /\ Codes' = Codes /\ Len(otps') = Len(otps)
    <3>1. CASE mode = "mongo"
      <4>1. PICK k \in Codes, n \in Nat : k = call[c].held /\ n = call[c].seen + 1
        BY <1>1 DEF Reject, Types, CallTypes, Call, Holding
      <4>2. otps' = [otps EXCEPT ![k] = [otps[k] EXCEPT !.attempts = n]]
        BY <1>1, <3>1, <4>1 DEF Reject
      <4>3. [otps[k] EXCEPT !.attempts = n] \in Otp /\ [otps[k] EXCEPT !.attempts = n].flow = otps[k].flow
        BY OtpTyped DEF Types, Otp
      <4>4. /\ otps' \in Seq(Otp) /\ Len(otps') = Len(otps)
            /\ \A i \in Codes : otps'[i].flow = otps[i].flow
        BY <4>2, <4>3 DEF Types, CodeTypes, Codes
      <4>. QED
        BY <1>1, <4>4, CodesChange DEF Reject, Types
    <3>2. CASE mode # "mongo"
      BY <1>1, <3>2, CodesStay DEF Reject, Types, codes
    <3>. QED
      BY <3>1, <3>2
  <2>2. RedisTypes'
    <3>1. CASE mode = "mongo"
      BY <1>1, <3>1, RedisStays DEF Reject, Types, redis
    <3>2. CASE mode # "mongo"
      <4>1. cooling' \in BOOLEAN /\ locked' \in BOOLEAN
        BY <1>1, <3>2 DEF Reject, Types, RedisTypes
      <4>2. CASE locked
        BY <1>1, <3>2, <4>1, <4>2 DEF Reject, Types, RedisTypes
      <4>3. CASE ~locked
        <5>1. attempts' = attempts + 1 /\ (~locked' => ~Full(attempts'))
          BY <1>1, <3>2, <4>3 DEF Reject
        <5>2. attempts \in Nat /\ attempts < MaxAttempts
          BY <4>3, Limits DEF Types, RedisTypes
        <5>. QED
          BY <4>1, <5>1, <5>2, Limits DEF RedisTypes, Full
      <4>. QED
        BY <4>2, <4>3
    <3>. QED
      BY <3>1, <3>2
  <2>3. QueueTypes' /\ HistoryTypes'
    BY <1>1, <2>1, QueueStays, HistoryStays DEF Reject, Types, queue
  <2>4. CallTypes'
    BY <1>1, <2>1, CallEnds DEF Reject, Types
  <2>. QED
    BY <2>1, <2>2, <2>3, <2>4 DEF Types
<1>2. CASE Accept(c)
  <2>1. PICK k \in Codes : k = call[c].held
    BY <1>2 DEF Accept, Types, CallTypes, Holding
  <2>2. CodeTypes' /\ Codes' = Codes /\ Len(otps') = Len(otps)
    <3>1. otps' = [otps EXCEPT ![k] = [otps[k] EXCEPT !.isUsed = TRUE]]
      BY <1>2, <2>1 DEF Accept, Consumed
    <3>2. [otps[k] EXCEPT !.isUsed = TRUE] \in Otp /\ [otps[k] EXCEPT !.isUsed = TRUE].flow = otps[k].flow
      BY OtpTyped DEF Types, Otp
    <3>3. /\ otps' \in Seq(Otp) /\ Len(otps') = Len(otps)
          /\ \A i \in Codes : otps'[i].flow = otps[i].flow
      BY <3>1, <3>2 DEF Types, CodeTypes, Codes
    <3>. QED
      BY <1>2, <3>3, CodesChange DEF Accept, Types
  <2>3. RedisTypes' /\ QueueTypes'
    BY <1>2, <2>2, RedisStays, QueueStays DEF Accept, Types, queue
  <2>4. CallTypes'
    <3>1. [NoCall EXCEPT !.kind = call[c].kind] \in Call'
      BY DEF Types, CallTypes, Call, NoCall
    <3>2. "clear" \in Labels \ Holding
      BY DEF Labels, Holding
    <3>. QED
      BY <1>2, <2>2, <3>1, <3>2, CallGoes DEF Accept, Types
  <2>5. HistoryTypes'
    <3>1. accepted' = [accepted EXCEPT ![k] = accepted[k] + 1] /\ k \in DOMAIN accepted
      BY <1>2, <2>1 DEF Accept, Types, HistoryTypes, Codes
    <3>2. accepted' \in Seq(Nat) /\ Len(accepted') = Len(accepted)
      BY <3>1 DEF Types, HistoryTypes
    <3>. QED
      BY <1>2, <2>2, <3>2 DEF Accept, Types, HistoryTypes
  <2>. QED
    BY <2>2, <2>3, <2>4, <2>5 DEF Types
<1>3. CASE Clear(c) \/ Activate(c) \/ IssueTokens(c) \/ Crash(c)
  <2>1. CodeTypes' /\ Codes' = Codes /\ Len(otps') = Len(otps)
    BY <1>3 DEF Clear, Activate, IssueTokens, Crash, Types, CodeTypes, config, codes, Codes
  <2>2. RedisTypes'
    <3>1. CASE UNCHANGED redis
      BY <3>1, RedisStays DEF Types
    <3>2. CASE attempts' = 0 /\ locked' = FALSE /\ UNCHANGED cooling
      <4>1. cooling' \in BOOLEAN /\ locked' \in BOOLEAN
        BY <3>2 DEF Types, RedisTypes
      <4>. QED
        BY <3>2, <4>1, Limits DEF RedisTypes
    <3>. QED
      BY <1>3, <3>1, <3>2 DEF Clear, Activate, IssueTokens, Crash, redis
  <2>3. QueueTypes'
    BY <1>3, <2>1, QueueStays DEF Clear, Activate, IssueTokens, Crash, Types, queue
  <2>4. CallTypes'
    <3>1. CASE Done(c)
      BY <2>1, <3>1, CallEnds DEF Types
    <3>2. CASE UNCHANGED call /\ (Goto(c, "activate") \/ Goto(c, "tokens"))
      <4>1. "activate" \in Labels \ Holding /\ "tokens" \in Labels \ Holding
        BY DEF Labels, Holding
      <4>. QED
        BY <2>1, <3>2, <4>1, CallMoves DEF Types
    <3>. QED
      BY <1>3, <3>1, <3>2 DEF Clear, Activate, IssueTokens, Crash
  <2>5. HistoryTypes'
    <3>1. /\ UNCHANGED <<mailbox, promised, accepted, crowded, raced>>
          /\ guesses' \in {guesses, 0} /\ sessions' \in {sessions, sessions + 1}
          /\ faults' = faults \/ Fault
      BY <1>3 DEF Clear, Activate, IssueTokens, Crash, history
    <3>. QED
      BY <2>1, <3>1, Limits DEF Fault, Types, HistoryTypes
  <2>. QED
    BY <2>1, <2>2, <2>3, <2>4, <2>5 DEF Types
<1>. QED
  BY <1>1, <1>2, <1>3

LEMMA TypesTime == Types /\ (Time \/ UNCHANGED vars) => Types'
<1> SUFFICES ASSUME Types, Time \/ UNCHANGED vars PROVE Types'
  OBVIOUS
<1>1. UNCHANGED <<pc, call, mailbox, otps, config, account>>
  BY DEF Time, KeyCools, AttemptsEnd, LockEnds, DedupEnds, JobRemoved, CodeCools,
         CodeExpires, vars, codes
<1>2. Codes' = Codes /\ Len(otps') = Len(otps) /\ CallTypes'
  BY <1>1, CallsStay DEF Types, Codes
<1>3. CodeTypes'
  <2>1. recent' \subseteq recent /\ expired' \subseteq expired \cup Codes
    BY DEF Time, KeyCools, AttemptsEnd, LockEnds, DedupEnds, JobRemoved, CodeCools,
           CodeExpires, vars, codes
  <2>. QED
    BY <1>1, <1>2, <2>1 DEF Types, CodeTypes, config
<1>4. RedisTypes'
  <2>1. \/ UNCHANGED <<attempts, locked>> /\ cooling' \in {cooling, FALSE}
        \/ attempts' = 0 /\ UNCHANGED <<cooling, locked>>
        \/ attempts = 0 /\ UNCHANGED <<cooling, attempts>> /\ locked' = FALSE
    BY DEF Time, KeyCools, AttemptsEnd, LockEnds, DedupEnds, JobRemoved, CodeCools,
           CodeExpires, vars, redis
  <2>2. cooling' \in BOOLEAN /\ locked' \in BOOLEAN
    BY <2>1 DEF Types, RedisTypes
  <2>3. attempts' \in 0..MaxAttempts /\ (~locked' => attempts' < MaxAttempts)
    <3>1. CASE UNCHANGED <<attempts, locked>>
      BY <3>1 DEF Types, RedisTypes
    <3>2. CASE attempts' = 0
      BY <3>2, Limits
    <3>. QED
      BY <2>1, <3>1, <3>2
  <2>. QED
    BY <2>2, <2>3 DEF RedisTypes
<1>5. QueueTypes'
  <2>1. job' \in {job, NoJob} /\ dedup' \in {dedup, "free"}
    BY DEF Time, KeyCools, AttemptsEnd, LockEnds, DedupEnds, JobRemoved, CodeCools,
           CodeExpires, vars, queue
  <2>. QED
    BY <1>2, <2>1, Limits DEF Types, QueueTypes, NoJob
<1>6. HistoryTypes'
  <2>1. /\ UNCHANGED <<promised, accepted, crowded, sessions, faults>>
        /\ guesses' \in {guesses, 0}
        /\ raced' = raced \/ raced' \in BOOLEAN
    <3>1. CASE Time
      BY <3>1
      DEF Time, KeyCools, AttemptsEnd, LockEnds, DedupEnds, JobRemoved, CodeCools, CodeExpires,
          history
    <3>. QED
      BY <3>1 DEF vars, history
  <2>. QED
    BY <1>1, <1>2, <2>1 DEF Types, HistoryTypes
<1>. QED
  BY <1>2, <1>3, <1>4, <1>5, <1>6 DEF Types

LEMMA TypesHold == Spec => []Types
<1>1. Types /\ [Next]_vars => Types'
  BY TypesSending, TypesCodes, TypesMails, TypesWork, TypesChecks, TypesVerdicts, TypesTime
     DEF Next, Request, Handle
<1>. QED
  BY <1>1, InitTypes, PTL DEF Spec

(* What it says under its own name.                                        *)
THEOREM CodesTyped == Spec => []TypeOK
BY TypesHold, TypesAreTypeOK, PTL

-----------------------------------------------------------------------------
(* How steps move: a request moves alone, and what is past stays.          *)

Keeps(c) == \A d \in Clients \ {c} : pc'[d] = pc[d] /\ call'[d] = call[d]

LEMMA DoneMoves ==
  ASSUME Types, NEW c \in Clients, Done(c)
  PROVE  Keeps(c) /\ pc'[c] = "idle" /\ call'[c] = NoCall
BY DEF Done, Goto, Keeps, Types, CallTypes

LEMMA StartMoves ==
  ASSUME Types, NEW c \in Clients, NEW label, NEW r, Start(c, label, r)
  PROVE  Keeps(c) /\ pc[c] = "idle" /\ pc'[c] = label /\ call'[c] = r
BY DEF Start, Goto, Keeps, Types, CallTypes

LEMMA GotoMoves ==
  ASSUME Types, NEW c \in Clients, NEW label, Goto(c, label), UNCHANGED call
  PROVE  Keeps(c) /\ pc'[c] = label /\ call'[c] = call[c]
BY DEF Goto, Keeps, Types, CallTypes

Sends(c) == Send(c) \/ Register(c) \/ Login(c) \/ \E f \in Given : Resend(c, f)

Checks(c) == \/ \E k \in mailbox \cup {0} : Verify(c, k)
             \/ \E f \in Given, k \in mailbox \cup {0} : Confirm(c, f, k)

LEMMA SendingMoves ==
  ASSUME Types, NEW c \in Clients, Sends(c)
  PROVE  /\ Keeps(c) /\ pc[c] = "idle" /\ pc'[c] \in {"register", "cooldown"}
         /\ UNCHANGED Rest
<1>1. PICK label \in {"register", "cooldown"} :
        \E r : Start(c, label, r) /\ UNCHANGED Rest
  BY DEF Sends, Send, Register, Login, Resend, Rest
<1>. QED
  BY <1>1, StartMoves

LEMMA CheckMoves ==
  ASSUME Types, NEW c \in Clients, Checks(c)
  PROVE  /\ Keeps(c) /\ pc[c] = "idle" /\ pc'[c] = "find" /\ call'[c].held = 0
         /\ ~locked /\ crowded' = crowded \cup ({call[d].held : d \in Others(c)} \ {0})
         /\ UNCHANGED <<config, codes, account, redis, queue, mailbox,
                        promised, accepted, guesses, raced, sessions, faults>>
<1>1. PICK r : PassLock(c, r) /\ r.held = 0
  <2>1. \A k : /\ [NoCall EXCEPT !.kind = "verify", !.code = k].held = 0
              /\ [NoCall EXCEPT !.kind = "confirm", !.code = k].held = 0
    BY DEF NoCall
  <2>2. \E k : \/ PassLock(c, [NoCall EXCEPT !.kind = "verify", !.code = k])
               \/ PassLock(c, [NoCall EXCEPT !.kind = "confirm", !.code = k])
    BY DEF Checks, Verify, Confirm
  <2>. QED
    BY <2>1, <2>2
<1>2. Start(c, "find", r)
  BY <1>1 DEF PassLock
<1>. QED
  BY <1>1, <1>2, StartMoves DEF PassLock

(* A code is found, or the request ends.                                   *)
LEMMA FindMoves ==
  ASSUME Types, NEW c \in Clients, FindCode(c)
  PROVE  /\ Keeps(c) /\ pc[c] = "find"
         /\ UNCHANGED <<config, codes, account, redis, queue, mailbox,
                        promised, accepted, raced, sessions, faults>>
         /\ \/ pc'[c] = "idle" /\ UNCHANGED <<guesses, crowded>>
            \/ \E k \in Usable :
                 /\ ~TooMany(k)
                 /\ call'[c].held = k /\ call'[c].seen = otps[k].attempts
                 /\ crowded' = IF Others(c) = {} THEN crowded ELSE crowded \cup {k}
                 /\ \/ pc'[c] = "accept" /\ guesses' = guesses
                    \/ pc'[c] = "reject" /\ guesses' = Counted(guesses)
<1>1. CASE Done(c) /\ UNCHANGED <<guesses, crowded>>
  BY <1>1, DoneMoves DEF FindCode
<1>2. ASSUME NEW k \in Usable, ~TooMany(k),
             call' = [call EXCEPT ![c].code = 0, ![c].held = k, ![c].seen = otps[k].attempts],
             Goto(c, IF call[c].code = k THEN "accept" ELSE "reject"),
             guesses' = IF call[c].code = k THEN guesses ELSE Counted(guesses),
             crowded' = IF Others(c) = {} THEN crowded ELSE crowded \cup {k}
      PROVE  /\ Keeps(c)
             /\ call'[c].held = k /\ call'[c].seen = otps[k].attempts
             /\ \/ pc'[c] = "accept" /\ guesses' = guesses
                \/ pc'[c] = "reject" /\ guesses' = Counted(guesses)
  BY <1>2 DEF Keeps, Goto, Types, CallTypes, Call
<1>. QED
  BY <1>1, <1>2 DEF FindCode

(* A judged code.                                                          *)
LEMMA RejectMoves ==
  ASSUME Types, NEW c \in Clients, Reject(c)
  PROVE  /\ Keeps(c) /\ pc[c] = "reject" /\ pc'[c] = "idle" /\ call[c].held \in Codes
         /\ Len(otps') = Len(otps)
         /\ \A k \in Codes :
              /\ otps'[k].isUsed = otps[k].isUsed /\ otps'[k].flow = otps[k].flow
              /\ otps'[k].attempts = IF mode = "mongo" /\ k = call[c].held
                                     THEN call[c].seen + 1 ELSE otps[k].attempts
<1>1. Keeps(c) /\ pc[c] = "reject" /\ pc'[c] = "idle" /\ call[c].held \in Codes
  BY DoneMoves DEF Reject, Types, CallTypes, Holding
<1>2. CASE mode = "mongo"
  <2>0. PICK n : n = call[c].seen + 1
    OBVIOUS
  <2>1. PICK k \in Codes : k = call[c].held
    BY <1>1
  <2>2. otps' = [otps EXCEPT ![k].attempts = n]
    BY <1>2, <2>0, <2>1 DEF Reject
  <2>3. \A i \in Codes : otps[i] \in Otp
    BY OtpTyped DEF Types
  <2>4. /\ Len(otps') = Len(otps)
        /\ \A i \in Codes : otps'[i] = IF i = k THEN [otps[k] EXCEPT !.attempts = n] ELSE otps[i]
    BY <2>2 DEF Types, CodeTypes, Codes
  <2>. QED
    BY <1>1, <1>2, <2>0, <2>1, <2>3, <2>4 DEF Otp
<1>3. CASE mode # "mongo"
  BY <1>1, <1>3 DEF Reject
<1>. QED
  BY <1>2, <1>3

LEMMA AcceptMoves ==
  ASSUME Types, NEW c \in Clients, Accept(c)
  PROVE  /\ Keeps(c) /\ pc[c] = "accept" /\ pc'[c] = "clear" /\ call[c].held \in Codes
         /\ Len(otps') = Len(otps)
         /\ \A k \in Codes :
              /\ otps'[k].isUsed = (otps[k].isUsed \/ k = call[c].held)
              /\ otps'[k].flow = otps[k].flow /\ otps'[k].attempts = otps[k].attempts
              /\ accepted'[k] = IF k = call[c].held THEN accepted[k] + 1 ELSE accepted[k]
<1>1. PICK k \in Codes : k = call[c].held
  BY DEF Accept, Types, CallTypes, Holding
<1>2. otps' = [otps EXCEPT ![k].isUsed = TRUE] /\ accepted' = [accepted EXCEPT ![k] = accepted[k] + 1]
  BY <1>1 DEF Accept, Consumed
<1>3. \A i \in Codes : otps[i] \in Otp
  BY OtpTyped DEF Types
<1>4. /\ Len(otps') = Len(otps)
      /\ \A i \in Codes :
           /\ otps'[i] = IF i = k THEN [otps[k] EXCEPT !.isUsed = TRUE] ELSE otps[i]
           /\ accepted'[i] = IF i = k THEN accepted[k] + 1 ELSE accepted[i]
  BY <1>2 DEF Types, CodeTypes, HistoryTypes, Codes
<1>5. \A i \in Codes : /\ otps'[i].isUsed = (otps[i].isUsed \/ i = k)
                       /\ otps'[i].flow = otps[i].flow /\ otps'[i].attempts = otps[i].attempts
  BY <1>3, <1>4 DEF Otp
<1>6. Keeps(c) /\ pc[c] = "accept" /\ pc'[c] = "clear"
  BY DEF Accept, Goto, Keeps, Types, CallTypes
<1>. QED
  BY <1>1, <1>4, <1>5, <1>6

(* The other steps of a request, and what they can end in.                 *)
Step(c) == CreateAccount(c) \/ CoolDown(c) \/ Invalidate(c) \/ Deliver(c) \/ Reserve(c)
             \/ AddJob(c) \/ Clear(c) \/ Activate(c) \/ IssueTokens(c) \/ Crash(c)

LEMMA StepMoves ==
  ASSUME Types, NEW c \in Clients, Step(c)
  PROVE  /\ Keeps(c) /\ pc[c] # "idle"
         /\ \/ pc'[c] = "idle"
            \/ /\ call'[c] = call[c]
               /\ <<pc[c], pc'[c]>> \in
                     {<<"register", "cooldown">>, <<"cooldown", "invalidate">>,
                      <<"invalidate", "create">>, <<"reserve", "add">>,
                      <<"clear", "activate">>, <<"activate", "tokens">>}
<1>1. CASE Done(c)
  BY <1>1, DoneMoves DEF Step, CreateAccount, CoolDown, Invalidate, Deliver, Reserve, AddJob,
       AnswerSent, Clear, Activate, IssueTokens, Crash
<1>2. CASE ~Done(c)
  <2>1. PICK label : /\ Goto(c, label) /\ UNCHANGED call
                     /\ <<pc[c], label>> \in
                           {<<"register", "cooldown">>, <<"cooldown", "invalidate">>,
                            <<"invalidate", "create">>, <<"reserve", "add">>,
                            <<"clear", "activate">>, <<"activate", "tokens">>}
    BY <1>2 DEF Step, CreateAccount, CoolDown, Invalidate, Deliver, Reserve, AddJob,
       AnswerSent, Clear, Activate, IssueTokens, Crash
  <2>. QED
    BY <2>1, GotoMoves
<1>. QED
  BY <1>1, <1>2

LEMMA CreateMoves ==
  ASSUME Types, NEW c \in Clients, Create(c)
  PROVE  /\ Keeps(c) /\ pc[c] = "create" /\ pc'[c] \in {"reserve", "deliver"}
         /\ Len(otps') = Len(otps) + 1 /\ call'[c].held = Len(otps')
         /\ \A k \in Codes : otps'[k] = otps[k] /\ accepted'[k] = accepted[k]
         /\ ~otps'[Len(otps')].isUsed /\ otps'[Len(otps')].attempts = 0
         /\ accepted'[Len(otps')] = 0
<1> DEFINE k == Len(otps) + 1
           f == IF call[c].kind = "begin" THEN k ELSE call[c].flow
           o == [flow |-> f, attempts |-> 0, isUsed |-> FALSE]
<1>1. /\ otps' = Append(otps, o) /\ accepted' = Append(accepted, 0)
      /\ call' = [call EXCEPT ![c] = [call[c] EXCEPT !.flow = f, !.held = k]]
      /\ pc[c] = "create" /\ \E label \in {"reserve", "deliver"} : Goto(c, label)
  BY DEF Create, Types, CallTypes
<1>2. o.isUsed = FALSE /\ o.attempts = 0
  OBVIOUS
<1>3. [call[c] EXCEPT !.flow = f, !.held = k].held = k
  BY DEF Types, CallTypes, Call
<1>. HIDE DEF o, f
<1>4. /\ Len(otps') = k /\ otps'[k] = o /\ accepted'[k] = 0
      /\ \A i \in Codes : otps'[i] = otps[i] /\ accepted'[i] = accepted[i]
  <2>1. /\ Len(otps') = k /\ otps'[k] = o /\ \A i \in Codes : otps'[i] = otps[i]
    <3>1. otps \in Seq(Otp \cup {o}) /\ o \in Otp \cup {o}
      BY DEF Types, CodeTypes
    <3>. QED
      BY <1>1, <3>1 DEF Codes
  <2>2. accepted'[k] = 0 /\ \A i \in Codes : accepted'[i] = accepted[i]
    BY <1>1 DEF Types, HistoryTypes, Codes
  <2>. QED
    BY <2>1, <2>2
<1>5. Keeps(c) /\ pc'[c] \in {"reserve", "deliver"} /\ call'[c].held = k
  BY <1>1, <1>3 DEF Goto, Keeps, Types, CallTypes
<1>. QED
  BY <1>1, <1>2, <1>4, <1>5

(* The steps of the worker and of time leave every request alone.          *)
Outside == Work \/ Time \/ UNCHANGED vars

LEMMA OutsideMoves ==
  Outside => /\ UNCHANGED <<pc, call, otps, mode, account, crowded, accepted, sessions, promised>>
             /\ expired \subseteq expired' /\ (raced => raced')
<1> SUFFICES ASSUME Outside
             PROVE  /\ UNCHANGED <<pc, call, otps, mode, account, crowded, accepted, sessions, promised>>
                    /\ expired \subseteq expired' /\ (raced => raced')
  OBVIOUS
<1>1. CASE Work
  BY <1>1 DEF Work, TakeJob, MailJob, MarkSent, FailJob, config, codes, history
<1>2. CASE Time
  <2>1. CASE KeyCools \/ DedupEnds
    BY <2>1 DEF KeyCools, DedupEnds, config, codes
  <2>3. CASE AttemptsEnd \/ LockEnds \/ JobRemoved
    BY <2>3 DEF AttemptsEnd, LockEnds, JobRemoved, config, codes, history
  <2>2. CASE \E k \in Codes : CodeCools(k) \/ CodeExpires(k)
    BY <2>2 DEF CodeCools, CodeExpires, config, history
  <2>. QED
    BY <1>2, <2>1, <2>2, <2>3 DEF Time
<1>3. CASE UNCHANGED vars
  BY <1>3 DEF vars, config, codes, history
<1>. QED
  BY <1>1, <1>2, <1>3 DEF Outside

(* The steps, by what is said of them above.                               *)
LEMMA Steps ==
  [Next]_vars =>
    \/ \E c \in Clients : \/ Sends(c) \/ Checks(c) \/ FindCode(c) \/ Reject(c)
                          \/ Accept(c) \/ Create(c) \/ Step(c)
    \/ Outside
BY DEF Next, Request, Handle, Sends, Checks, Step, Outside

-----------------------------------------------------------------------------
(* One code that can be used.  Unless a request outlived its cooldown, at  *)
(* most one is past the cooldown; it has marked every code as used before  *)
(* it creates one; and the code that can be used is the last.              *)

OneSender ==
  /\ \A c, d \in Replacing : c = d
  /\ mode # "mongo" /\ Replacing # {} => cooling
  /\ Usable \subseteq {Len(otps)}
  /\ \A c \in Clients : pc[c] = "create" => Usable = {}
  /\ \A c \in Replacing : pc[c] \notin {"invalidate", "create"} => call[c].held = Len(otps)

LEMMA InitSender == Init => OneSender
BY DEF Init, OneSender, Replacing, Usable, Codes

(* A step that brings no request past the cooldown and no code.            *)
Calm ==
  /\ mode' = mode /\ Len(otps') = Len(otps) /\ Usable' \subseteq Usable
  /\ Replacing' # {} => cooling' = cooling
  /\ \A c \in Replacing' :
       /\ c \in Replacing /\ call'[c].held = call[c].held
       /\ pc[c] \in {"invalidate", "create"} <=> pc'[c] \in {"invalidate", "create"}
       /\ pc'[c] = "create" => pc[c] = "create"

LEMMA CalmKeeps == OneSender /\ Calm => OneSender'
BY DEF OneSender, Calm, Replacing

LEMMA UsableShrinks ==
  ASSUME Len(otps') = Len(otps), expired \subseteq expired',
         \A k \in Codes : otps[k].isUsed => otps'[k].isUsed
  PROVE  Usable' \subseteq Usable
BY DEF Usable, Codes

LEMMA SenderKept ==
  ASSUME Types, OneSender, NEW c \in Clients,
         Sends(c) \/ Checks(c) \/ FindCode(c) \/ Reject(c) \/ Accept(c)
  PROVE  OneSender'
<1>1. /\ Keeps(c) /\ c \notin Replacing' /\ mode' = mode /\ cooling' = cooling
      /\ Len(otps') = Len(otps) /\ expired' = expired
      /\ \A k \in Codes : otps[k].isUsed => otps'[k].isUsed
  <2>1. CASE Sends(c)
    BY <2>1, SendingMoves DEF Sends, Rest, Replacing, config, codes, redis
  <2>2. CASE Checks(c)
    BY <2>2, CheckMoves DEF Checks, Replacing, config, codes, redis
  <2>3. CASE FindCode(c)
    BY <2>3, FindMoves DEF Replacing, config, codes, redis
  <2>4. CASE Reject(c)
    BY <2>4, RejectMoves DEF Reject, Replacing, config
  <2>5. CASE Accept(c)
    BY <2>5, AcceptMoves DEF Accept, Replacing, config, redis
  <2>. QED
    BY <2>1, <2>2, <2>3, <2>4, <2>5
<1>2. Usable' \subseteq Usable
  BY <1>1, UsableShrinks
<1>3. Calm
  BY <1>1, <1>2 DEF Calm, Keeps, Replacing
<1>. QED
  BY <1>3, CalmKeeps

LEMMA SenderCreates ==
  ASSUME Types, OneSender, NEW c \in Clients, Create(c)
  PROVE  OneSender'
<1>1. c \in Replacing /\ Replacing' = {c} /\ pc'[c] \in {"reserve", "deliver"}
      /\ \A d \in Clients : pc'[d] # "create"
  BY CreateMoves DEF OneSender, Keeps, Replacing
<1>2. Usable' \subseteq {Len(otps')}
  <2>1. Usable = {}
    BY CreateMoves DEF OneSender
  <2>2. Codes' = Codes \cup {Len(otps')} /\ expired' = expired
    BY CreateMoves DEF Create, Codes, Types, CodeTypes
  <2>. QED
    BY <2>1, <2>2, CreateMoves DEF Usable
<1>3. mode' = mode /\ cooling' = cooling
  BY DEF Create, config, redis
<1>4. call'[c].held = Len(otps')
  BY CreateMoves
<1>. QED
  BY <1>1, <1>2, <1>3, <1>4 DEF OneSender

LEMMA SenderSteps ==
  ASSUME Types, OneSender, ~raced', NEW c \in Clients, Step(c)
  PROVE  OneSender'
<1>1. mode' = mode /\ expired' = expired
  BY DEF Step, CreateAccount, CoolDown, Invalidate, Deliver, Reserve, AddJob, Clear, Activate,
         IssueTokens, Crash, config, codes
<1>2. CASE CoolDown(c) /\ pc'[c] # "idle"
  <2>1. Passes /\ pc'[c] = "invalidate" /\ call' = call /\ UNCHANGED codes
    <3>1. ~Done(c)
      BY <1>2, DoneMoves
    <3>2. Passes /\ Goto(c, "invalidate") /\ UNCHANGED <<call, codes>>
      BY <1>2, <3>1 DEF CoolDown
    <3>. QED
      BY <3>2, GotoMoves
  <2>2. Replacing = {}
    BY <1>2, <2>1 DEF CoolDown, Passes, OneSender
  <2>3. Replacing' = {c} /\ \A d \in Clients : pc'[d] # "create"
    BY <1>2, <2>1, <2>2, StepMoves DEF Step, Keeps, Replacing
  <2>4. mode # "mongo" => cooling'
    BY <1>2, <2>1 DEF CoolDown
  <2>5. Usable' = Usable /\ Len(otps') = Len(otps)
    BY <2>1 DEF codes, Usable, Codes
  <2>. QED
    BY <1>1, <2>1, <2>3, <2>4, <2>5 DEF OneSender
<1>3. CASE Invalidate(c)
  <2>1. Usable' = {} /\ Len(otps') = Len(otps)
    <3>1. Len(otps') = Len(otps)
      BY <1>3 DEF Invalidate, Codes, Types, CodeTypes
    <3>2. \A k \in Codes : otps'[k].isUsed
      BY <1>3, OtpTyped DEF Invalidate, Types, Otp
    <3>. QED
      BY <3>1, <3>2 DEF Usable, Codes
  <2>2. c \in Replacing /\ Replacing' = {c} /\ pc'[c] = "create" /\ cooling' = cooling
    BY <1>3, StepMoves
    DEF Step, Invalidate, redis, OneSender, Keeps, Replacing, Goto, Types, CallTypes
  <2>. QED
    BY <1>1, <2>1, <2>2 DEF OneSender
<1>4. CASE ~Invalidate(c) /\ ~(CoolDown(c) /\ pc'[c] # "idle")
  <2>1. /\ UNCHANGED otps
        /\ CoolDown(c) => pc'[c] = "idle"
        /\ ~CoolDown(c) => cooling' = cooling
    BY <1>4 DEF Step, CreateAccount, CoolDown, Deliver, Reserve, AddJob, Clear, Activate,
         IssueTokens, Crash, codes, redis
  <2>2. Usable' = Usable
    BY <1>1, <2>1 DEF Usable, Codes
  <2>3. pc'[c] = "idle" \/ pc[c] \notin {"cooldown", "invalidate"}
    <3>1. CASE CoolDown(c)
      BY <2>1, <3>1
    <3>2. CASE Crash(c)
      BY <3>2, DoneMoves DEF Crash
    <3>. QED
      BY <1>4, <3>1, <3>2
      DEF Step, CreateAccount, Deliver, Reserve, AddJob, Clear, Activate, IssueTokens
  <2>4. CASE ~CoolDown(c)
    <3>1. Calm
      BY <1>1, <2>1, <2>2, <2>3, <2>4, StepMoves DEF Calm, Keeps, Replacing
    <3>. QED
      BY <3>1, CalmKeeps
  <2>5. CASE CoolDown(c)
    <3>1. Replacing' = Replacing /\ c \notin Replacing
      BY <2>1, <2>5, StepMoves DEF Keeps, Replacing, CoolDown
    <3>2. cooling => cooling'
      BY <2>5 DEF CoolDown
    <3>. QED
      BY <1>1, <2>1, <2>2, <3>1, <3>2, StepMoves DEF OneSender, Keeps, Replacing
  <2>. QED
    BY <2>4, <2>5
<1>. QED
  BY <1>2, <1>3, <1>4

LEMMA SenderOutside ==
  ASSUME Types, OneSender, ~raced', Outside
  PROVE  OneSender'
<1>1. UNCHANGED <<pc, call, otps, mode>> /\ expired \subseteq expired'
  BY OutsideMoves
<1>2. Usable' \subseteq Usable /\ Replacing' = Replacing
  BY <1>1 DEF Usable, Codes, Replacing
<1>3. Replacing # {} => cooling' = cooling
  BY <1>2
  DEF Outside, Work, TakeJob, MailJob, MarkSent, FailJob, Time, KeyCools, AttemptsEnd, LockEnds,
     DedupEnds, JobRemoved, CodeCools, CodeExpires, vars, redis
<1>4. Calm
  BY <1>1, <1>2, <1>3 DEF Calm, Replacing
<1>. QED
  BY <1>4, CalmKeeps

LEMMA RacedStays == [Next]_vars /\ raced => raced'
<1> SUFFICES ASSUME [Next]_vars, raced PROVE raced'
  OBVIOUS
<1>1. CASE \E c \in Clients : Request(c)
  BY <1>1 DEF Request, Send, Register, Login, Resend, Verify, Confirm, PassLock, history
<1>2. CASE \E c \in Clients : Handle(c) \/ Crash(c)
  BY <1>2
  DEF Handle, CreateAccount, CoolDown, Invalidate, Create, Deliver, Reserve, AddJob, FindCode,
       Reject, Accept, Clear, Activate, IssueTokens, Crash, history
<1>3. CASE Outside
  BY <1>3, OutsideMoves
<1>. QED
  BY <1>1, <1>2, <1>3 DEF Next, Outside

LEMMA SenderHolds == Spec => [](raced \/ OneSender)
<1>1. Types /\ (raced \/ OneSender) /\ [Next]_vars => (raced \/ OneSender)'
  BY Steps, RacedStays, SenderKept, SenderCreates, SenderSteps, SenderOutside
<1>. QED
  BY <1>1, InitSender, TypesHold, PTL DEF Spec

(* A new code replaces the ones before it (sendOTP).                       *)
THEOREM CodeReplaces == Spec => []OneUsableCode
<1>1. Types /\ (raced \/ OneSender) => OneUsableCode
  <2> SUFFICES ASSUME OneSender PROVE Cardinality(Usable) <= 1
    BY DEF OneUsableCode
  <2>1. CASE Usable = {}
    BY <2>1, FS_EmptySet
  <2>2. CASE Usable # {}
    <3>1. Usable = {Len(otps)}
      BY <2>2 DEF OneSender
    <3>2. Cardinality({Len(otps)}) = 1
      BY FS_Singleton
    <3>. QED
      BY <3>1, <3>2
  <2>. QED
    BY <2>1, <2>2
<1>. QED
  BY <1>1, TypesHold, SenderHolds, PTL

-----------------------------------------------------------------------------
(* One verification for a code.  A code that is not marked was not         *)
(* accepted; and a request that has judged a code nobody else looked at is *)
(* alone behind the lock until it has marked it.                           *)

UsedOnce ==
  /\ \A k \in Codes : ~otps[k].isUsed => accepted[k] = 0
  /\ \A c \in Clients :
       pc[c] \in {"reject", "accept"} /\ call[c].held \notin crowded
         => Others(c) = {} /\ accepted[call[c].held] = 0
  /\ CodeUsedOnce

LEMMA InitUsed == Init => UsedOnce
BY DEF Init, UsedOnce, CodeUsedOnce, Codes

(* A step that lets nobody behind the lock, and accepts nothing.           *)
LEMMA UsedStays ==
  ASSUME Types, UsedOnce, Len(otps') = Len(otps),
         \A k \in Codes : otps[k].isUsed => otps'[k].isUsed,
         accepted' = accepted, crowded' = crowded,
         \A d \in Clients : pc'[d] \in {"find", "reject", "accept"} => pc'[d] = pc[d] /\ call'[d] = call[d]
  PROVE  UsedOnce'
<1>1. Codes' = Codes
  BY DEF Codes
<1>2. \A d \in Clients : Others(d)' \subseteq Others(d)
  BY DEF Others
<1>3. \A d \in Clients : pc[d] \in {"reject", "accept"} => call[d].held \in Codes
  BY DEF Types, CallTypes, Holding
<1>. QED
  BY <1>1, <1>2, <1>3 DEF UsedOnce, CodeUsedOnce

LEMMA UsedQuiet ==
  ASSUME Types, UsedOnce,
         \/ \E c \in Clients : Sends(c) \/ Reject(c) \/ Step(c)
         \/ Outside
  PROVE  UsedOnce'
<1>1. ASSUME NEW c \in Clients, Sends(c) PROVE UsedOnce'
  BY <1>1, SendingMoves, UsedStays DEF Keeps, Rest, codes, history
<1>2. ASSUME NEW c \in Clients, Reject(c) PROVE UsedOnce'
  BY <1>2, RejectMoves, UsedStays DEF Keeps, Reject, history
<1>3. ASSUME NEW c \in Clients, Step(c) PROVE UsedOnce'
  <2>1. accepted' = accepted /\ crowded' = crowded
    BY <1>3
    DEF Step, CreateAccount, CoolDown, Invalidate, Deliver, Reserve, AddJob, Clear, Activate,
       IssueTokens, Crash, history
  <2>2. Len(otps') = Len(otps) /\ \A k \in Codes : otps[k].isUsed => otps'[k].isUsed
    <3>1. CASE Invalidate(c)
      BY <3>1, OtpTyped DEF Invalidate, Codes, Types, CodeTypes, Otp
    <3>2. CASE ~Invalidate(c)
      BY <1>3, <3>2 DEF Step, CreateAccount, CoolDown, Deliver, Reserve, AddJob, Clear, Activate,
         IssueTokens, Crash, codes
    <3>. QED
      BY <3>1, <3>2
  <2>. QED
    BY <1>3, <2>1, <2>2, StepMoves, UsedStays DEF Keeps
<1>4. CASE Outside
  BY <1>4, OutsideMoves, UsedStays
<1>. QED
  BY <1>1, <1>2, <1>3, <1>4

LEMMA UsedChecks ==
  ASSUME Types, UsedOnce, NEW c \in Clients, Checks(c)
  PROVE  UsedOnce'
<1>1. \A d \in Clients : pc'[d] \in {"reject", "accept"} => d # c /\ pc'[d] = pc[d] /\ call'[d] = call[d]
  BY CheckMoves DEF Keeps
<1>2. \A d \in Clients : pc'[d] \in {"reject", "accept"} => call'[d].held \in crowded'
  <2>1. SUFFICES ASSUME NEW d \in Clients, pc'[d] \in {"reject", "accept"}
                 PROVE  call'[d].held \in crowded'
    OBVIOUS
  <2>2. d \in Others(c) /\ call[d].held \in Codes
    BY <1>1, <2>1 DEF Others, Types, CallTypes, Holding
  <2>3. call[d].held # 0
    BY <2>2 DEF Codes
  <2>. QED
    BY <1>1, <2>1, <2>2, <2>3, CheckMoves
<1>3. Codes' = Codes /\ crowded \subseteq crowded' /\ accepted' = accepted /\ otps' = otps
  BY CheckMoves DEF Codes, codes
<1>. QED
  BY <1>2, <1>3 DEF UsedOnce, CodeUsedOnce

LEMMA UsedFind ==
  ASSUME Types, UsedOnce, NEW c \in Clients, FindCode(c)
  PROVE  UsedOnce'
<1>1. /\ Codes' = Codes /\ accepted' = accepted /\ otps' = otps
      /\ \A d \in Clients \ {c} : pc'[d] = pc[d] /\ call'[d] = call[d]
  BY FindMoves DEF Codes, codes, Keeps
<1>2. CASE pc'[c] = "idle" /\ crowded' = crowded
  BY <1>1, <1>2, UsedStays
<1>3. CASE \E k \in Usable :
             /\ call'[c].held = k
             /\ crowded' = IF Others(c) = {} THEN crowded ELSE crowded \cup {k}
  <2>1. PICK k \in Usable :
          /\ call'[c].held = k
          /\ crowded' = IF Others(c) = {} THEN crowded ELSE crowded \cup {k}
    BY <1>3
  <2>2. accepted[k] = 0 /\ k \in Codes
    BY DEF Usable, UsedOnce
  <2>3. \A d \in Clients \ {c} : pc[d] \in {"reject", "accept"} => call[d].held \in crowded
    BY FindMoves DEF UsedOnce, Others
  <2>4. Others(c)' = Others(c)
    BY <1>1 DEF Others
  <2>. QED
    BY <1>1, <2>1, <2>2, <2>3, <2>4 DEF UsedOnce, CodeUsedOnce
<1>. QED
  BY <1>2, <1>3, FindMoves

LEMMA UsedAccept ==
  ASSUME Types, UsedOnce, NEW c \in Clients, Accept(c)
  PROVE  UsedOnce'
<1> DEFINE k == call[c].held
<1>1. /\ Codes' = Codes /\ k \in Codes /\ crowded' = crowded
      /\ \A d \in Clients \ {c} : pc'[d] = pc[d] /\ call'[d] = call[d]
      /\ pc[c] = "accept" /\ pc'[c] = "clear"
      /\ \A i \in Codes : /\ otps'[i].isUsed = (otps[i].isUsed \/ i = k)
                          /\ accepted'[i] = IF i = k THEN accepted[k] + 1 ELSE accepted[i]
  <2>1. Codes' = Codes
    BY AcceptMoves DEF Codes
  <2>2. crowded' = crowded
    BY DEF Accept
  <2>. QED
    BY <2>1, <2>2, AcceptMoves DEF Keeps
<1>. HIDE DEF k
<1>2. k \notin crowded => accepted[k] = 0
  BY <1>1 DEF UsedOnce, k
<1>3. \A d \in Clients : pc'[d] \in {"reject", "accept"} => call'[d].held \in crowded'
  BY <1>1 DEF UsedOnce, Others
<1>4. \A i \in Codes : ~otps'[i].isUsed => accepted'[i] = 0
  BY <1>1 DEF UsedOnce
<1>5. \A i \in Codes \ crowded : accepted'[i] <= 1
  BY <1>1, <1>2 DEF UsedOnce, CodeUsedOnce
<1>. QED
  BY <1>1, <1>3, <1>4, <1>5 DEF UsedOnce, CodeUsedOnce

LEMMA UsedCreate ==
  ASSUME Types, UsedOnce, NEW c \in Clients, Create(c)
  PROVE  UsedOnce'
<1>1. /\ Codes' = Codes \cup {Len(otps')} /\ crowded' = crowded
      /\ \A d \in Clients \ {c} : pc'[d] = pc[d] /\ call'[d] = call[d]
      /\ pc[c] = "create" /\ pc'[c] \in {"reserve", "deliver"}
      /\ \A i \in Codes : otps'[i] = otps[i] /\ accepted'[i] = accepted[i]
      /\ accepted'[Len(otps')] = 0
  <2>1. Codes' = Codes \cup {Len(otps')}
    BY CreateMoves DEF Codes, Types, CodeTypes
  <2>2. crowded' = crowded
    BY DEF Create
  <2>. QED
    BY <2>1, <2>2, CreateMoves DEF Keeps
<1>2. \A d \in Clients : Others(d)' \subseteq Others(d)
  BY <1>1 DEF Others
<1>3. \A d \in Clients : pc[d] \in {"reject", "accept"} => call[d].held \in Codes
  BY DEF Types, CallTypes, Holding
<1>. QED
  BY <1>1, <1>2, <1>3 DEF UsedOnce, CodeUsedOnce

LEMMA UsedHolds == Spec => []UsedOnce
<1>1. Types /\ UsedOnce /\ [Next]_vars => UsedOnce'
  BY Steps, UsedQuiet, UsedChecks, UsedFind, UsedAccept, UsedCreate
<1>. QED
  BY <1>1, InitUsed, TypesHold, PTL DEF Spec

(* A code is good for one proof or one account (verifyOTP), unless two     *)
(* requests look at it before either has marked it.                        *)
THEOREM CodeOnce == Spec => []CodeUsedOnce
<1>1. UsedOnce => CodeUsedOnce
  BY DEF UsedOnce
<1>. QED
  BY <1>1, UsedHolds, PTL

-----------------------------------------------------------------------------
(* One session for a registration.  A request that is to issue tokens is   *)
(* the one that verified the account, and nothing opens a session before.  *)

OneSession ==
  /\ \A c, d \in Clients : pc[c] = "tokens" /\ pc[d] = "tokens" => c = d
  /\ \A c \in Clients : pc[c] = "tokens" => account = "verified" /\ sessions = 0
  /\ OneRegistrationSession

LEMMA InitSession == Init => OneSession
BY DEF Init, OneSession, OneRegistrationSession

LEMMA SessionStays ==
  ASSUME OneSession, sessions' = sessions, account = "verified" => account' = "verified",
         \A c \in Clients : pc'[c] = "tokens" => pc[c] = "tokens"
  PROVE  OneSession'
BY DEF OneSession, OneRegistrationSession

LEMMA SessionSteps ==
  ASSUME Types, OneSession, NEW c \in Clients, Step(c)
  PROVE  OneSession'
<1>1. CASE Activate(c) /\ pc'[c] = "tokens"
  <2>1. account = "pending" /\ account' = "verified" /\ sessions' = sessions
    <3>1. ~Done(c)
      BY <1>1, DoneMoves
    <3>. QED
      BY <1>1, <3>1 DEF Activate, MayActivate, history
  <2>2. \A d \in Clients : pc[d] # "tokens"
    BY <2>1 DEF OneSession
  <2>3. sessions = 0
    BY <2>1 DEF OneSession, OneRegistrationSession, Types, HistoryTypes
  <2>. QED
    BY <1>1, <2>1, <2>2, <2>3, StepMoves DEF OneSession, OneRegistrationSession, Keeps
<1>2. CASE IssueTokens(c)
  <2>1. /\ pc[c] = "tokens" /\ sessions' = sessions + 1 /\ account' = account
        /\ pc'[c] = "idle" /\ Keeps(c)
    BY <1>2, DoneMoves DEF IssueTokens
  <2>. QED
    BY <2>1 DEF OneSession, OneRegistrationSession, Keeps
<1>3. CASE ~IssueTokens(c) /\ ~(Activate(c) /\ pc'[c] = "tokens")
  <2>1. sessions' = sessions /\ (account = "verified" => account' = "verified")
    BY <1>3
    DEF Step, CreateAccount, CoolDown, Invalidate, Deliver, Reserve, AddJob, Clear, Activate,
       Crash, history
  <2>2. pc'[c] # "tokens"
    <3>1. CASE Activate(c)
      BY <1>3, <3>1
    <3>2. CASE Crash(c)
      BY <3>2, DoneMoves DEF Crash
    <3>3. CASE ~Activate(c) /\ ~Crash(c)
      <4>1. pc[c] # "activate"
        BY <1>3, <3>3 DEF Step, CreateAccount, CoolDown, Invalidate, Deliver, Reserve, AddJob, Clear
      <4>. QED
        BY <1>3, <4>1, StepMoves
    <3>. QED
      BY <3>1, <3>2, <3>3
  <2>. QED
    BY <1>3, <2>1, <2>2, StepMoves, SessionStays DEF Keeps
<1>. QED
  BY <1>1, <1>2, <1>3

LEMMA SessionKept ==
  ASSUME Types, OneSession,
         \/ \E c \in Clients : Sends(c) \/ Checks(c) \/ FindCode(c) \/ Reject(c) \/ Accept(c) \/ Create(c)
         \/ Outside
  PROVE  OneSession'
<1>1. ASSUME NEW c \in Clients,
             Sends(c) \/ Checks(c) \/ FindCode(c) \/ Reject(c) \/ Accept(c) \/ Create(c)
      PROVE  OneSession'
  <2>1. Keeps(c) /\ pc'[c] # "tokens"
    BY <1>1, SendingMoves, CheckMoves, FindMoves, RejectMoves, AcceptMoves, CreateMoves
  <2>2. sessions' = sessions /\ account' = account
    BY <1>1, SendingMoves, CheckMoves, FindMoves DEF Reject, Accept, Create, Rest, history
  <2>. QED
    BY <2>1, <2>2, SessionStays DEF Keeps
<1>2. CASE Outside
  BY <1>2, OutsideMoves, SessionStays
<1>. QED
  BY <1>1, <1>2

LEMMA SessionHolds == Spec => []OneSession
<1>1. Types /\ OneSession /\ [Next]_vars => OneSession'
  BY Steps, SessionSteps, SessionKept
<1>. QED
  BY <1>1, InitSession, TypesHold, PTL DEF Spec

(* An account is verified, and signed in by it, once (verifyRegistration). *)
THEOREM RegistersOnce == Spec => []OneRegistrationSession
<1>1. OneSession => OneRegistrationSession
  BY DEF OneSession
<1>. QED
  BY <1>1, SessionHolds, PTL

-----------------------------------------------------------------------------
(* The first code is on its way.  Until a second code is created, nobody   *)
(* but the request that holds the first has reserved the key of the mail   *)
(* or added its job; so its reservation is no duplicate and its job is     *)
(* added, and a job that holds it goes only when the code has expired.     *)

FirstMail ==
  /\ Len(otps) = 0 => dedup = "free" /\ job = NoJob
  /\ \A c \in Clients : Len(otps) <= 1 /\ pc[c] = "reserve" => dedup = "free"
  /\ \A c \in Clients : Len(otps) <= 1 /\ pc[c] \in {"reserve", "add"} => job = NoJob
  /\ 1 \in promised => 1 \in mailbox \cup expired \/ job.code = 1

LEMMA InitMail == Init => FirstMail
BY DEF Init, FirstMail

LEMMA MailStays ==
  ASSUME FirstMail, Len(otps') = Len(otps), UNCHANGED queue, promised' = promised,
         mailbox \subseteq mailbox', expired \subseteq expired',
         \A c \in Clients : pc'[c] \in {"reserve", "add"} => pc'[c] = pc[c]
  PROVE  FirstMail'
BY DEF FirstMail, queue, NoJob

LEMMA MailQuiet ==
  ASSUME Types, FirstMail, NEW c \in Clients,
         \/ Sends(c) \/ Checks(c) \/ FindCode(c) \/ Reject(c) \/ Accept(c)
         \/ Step(c) /\ ~Deliver(c) /\ ~Reserve(c) /\ ~AddJob(c)
  PROVE  FirstMail'
<1>1. CASE Sends(c)
  BY <1>1, SendingMoves, MailStays DEF Keeps, Rest, codes, history
<1>2. CASE Checks(c)
  BY <1>2, CheckMoves, MailStays DEF Keeps, codes
<1>3. CASE FindCode(c)
  BY <1>3, FindMoves, MailStays DEF Keeps, codes
<1>4. CASE Reject(c)
  BY <1>4, RejectMoves, MailStays DEF Keeps, Reject, history
<1>5. CASE Accept(c)
  BY <1>5, AcceptMoves, MailStays DEF Keeps, Accept
<1>6. CASE Step(c) /\ ~Deliver(c) /\ ~Reserve(c) /\ ~AddJob(c)
  <2>1. UNCHANGED <<queue, promised, mailbox, expired>>
    BY <1>6
    DEF Step, CreateAccount, CoolDown, Invalidate, Clear, Activate, IssueTokens, Crash, codes,
        history
  <2>2. Len(otps') = Len(otps)
    <3>1. CASE Invalidate(c)
      BY <3>1 DEF Invalidate, Codes, Types, CodeTypes
    <3>2. CASE ~Invalidate(c)
      BY <1>6, <3>2 DEF Step, CreateAccount, CoolDown, Clear, Activate, IssueTokens, Crash, codes
    <3>. QED
      BY <3>1, <3>2
  <2>3. pc'[c] \notin {"reserve", "add"}
    <3>1. CASE Crash(c)
      BY <3>1, DoneMoves DEF Crash
    <3>2. CASE ~Crash(c)
      <4>1. pc[c] # "reserve"
        BY <1>6, <3>2 DEF Step, CreateAccount, CoolDown, Invalidate, Clear, Activate, IssueTokens
      <4>. QED
        BY <1>6, <4>1, StepMoves
    <3>. QED
      BY <3>1, <3>2
  <2>. QED
    BY <1>6, <2>1, <2>2, <2>3, StepMoves, MailStays DEF Keeps
<1>. QED
  BY <1>1, <1>2, <1>3, <1>4, <1>5, <1>6

LEMMA MailCreates ==
  ASSUME Types, FirstMail, NEW c \in Clients, Create(c)
  PROVE  FirstMail'
<1>1. Len(otps') = Len(otps) + 1 /\ Len(otps) \in Nat
  BY CreateMoves DEF Types, CodeTypes
<1>2. UNCHANGED <<queue, promised, mailbox, expired>>
  BY DEF Create
<1>. QED
  BY <1>1, <1>2 DEF FirstMail, queue, NoJob

(* The request that holds the last code promises it, or goes on.           *)
LEMMA MailSends ==
  ASSUME Types, OneSender, FirstMail, NEW c \in Clients, Deliver(c) \/ Reserve(c) \/ AddJob(c)
  PROVE  FirstMail'
<1>1. /\ call[c].held \in Codes /\ call[c].held = Len(otps) /\ Len(otps) \in Nat /\ Len(otps) >= 1
      /\ \A d \in Clients : pc[d] \in {"reserve", "add"} => d = c
  BY DEF Deliver, Reserve, AddJob, OneSender, Replacing, Types, CodeTypes, CallTypes, Holding, Codes
<1>2. Keeps(c) /\ UNCHANGED codes
  BY StepMoves DEF Step, Deliver, Reserve, AddJob
<1>3. CASE Deliver(c)
  <2>1. /\ pc'[c] = "idle" /\ UNCHANGED queue
        /\ \/ mailbox' = mailbox \cup {call[c].held} /\ promised' = promised \cup {call[c].held}
           \/ UNCHANGED <<mailbox, promised>>
    BY <1>3, DoneMoves DEF Deliver, AnswerSent
  <2>. QED
    BY <1>1, <1>2, <2>1 DEF FirstMail, queue, codes, Keeps
<1>4. CASE Reserve(c) /\ dedup = "free"
  <2>1. pc'[c] = "add" /\ UNCHANGED <<job, promised, mailbox>> /\ pc[c] = "reserve"
    BY <1>4, GotoMoves DEF Reserve
  <2>2. \A d \in Clients : pc'[d] \in {"reserve", "add"} => d = c /\ pc'[d] = "add"
    BY <1>1, <1>2, <2>1 DEF Keeps
  <2>3. Len(otps) <= 1 => job' = NoJob
    BY <2>1 DEF FirstMail, NoJob
  <2>4. 1 \in promised' => 1 \in mailbox' \cup expired' \/ job'.code = 1
    BY <1>2, <2>1 DEF FirstMail, codes
  <2>5. Len(otps') = Len(otps) /\ Len(otps) # 0
    BY <1>1, <1>2 DEF codes
  <2>6. \A d \in Clients : pc'[d] # "reserve"
    BY <2>2
  <2>. QED
    BY <2>2, <2>3, <2>4, <2>5, <2>6 DEF FirstMail
<1>5. CASE Reserve(c) /\ dedup # "free"
  <2>1. /\ pc'[c] = "idle" /\ UNCHANGED <<job, mailbox>> /\ promised' = promised \cup {call[c].held}
        /\ pc[c] = "reserve"
    BY <1>5, DoneMoves DEF Reserve, AnswerSent
  <2>2. ~(Len(otps) <= 1)
    BY <1>1, <1>5, <2>1 DEF FirstMail
  <2>3. Len(otps') = Len(otps) /\ ~(Len(otps') <= 1) /\ Len(otps') # 0 /\ UNCHANGED expired
    BY <1>1, <1>2, <2>2 DEF codes
  <2>4. 1 \in promised' => 1 \in promised
    <3>1. Len(otps) # 1
      BY <1>1, <2>2
    <3>2. call[c].held # 1
      BY <1>1, <3>1
    <3>. QED
      BY <2>1, <3>2
  <2>. QED
    BY <2>1, <2>3, <2>4 DEF FirstMail
<1>6. CASE AddJob(c)
  <2>1. /\ pc'[c] = "idle" /\ UNCHANGED mailbox /\ promised' = promised \cup {call[c].held}
        /\ pc[c] = "add"
        /\ job.state = "none" => job'.code = call[c].held
        /\ job.state # "none" => job' = job
    BY <1>6, DoneMoves DEF AddJob, AnswerSent
  <2>2. job.code = 1 => job' = job
    BY <2>1 DEF Types, QueueTypes, NoJob
  <2>3. Len(otps) = 1 => job'.code = 1
    BY <1>1, <2>1 DEF FirstMail, NoJob
  <2>4. \A d \in Clients : pc'[d] \notin {"reserve", "add"}
    BY <1>1, <1>2, <2>1 DEF Keeps
  <2>5. 1 \in promised' => 1 \in mailbox' \cup expired' \/ job'.code = 1
    BY <1>1, <1>2, <2>1, <2>2, <2>3 DEF FirstMail, codes
  <2>. QED
    BY <1>1, <1>2, <2>4, <2>5 DEF FirstMail, codes
<1>. QED
  BY <1>3, <1>4, <1>5, <1>6

LEMMA MailOutside ==
  ASSUME Types, FirstMail, Outside
  PROVE  FirstMail'
<1>1. UNCHANGED <<pc, otps, promised>> /\ expired \subseteq expired'
  BY OutsideMoves
<1>2. CASE Work
  <2>1. job.state # "none" /\ job'.code = job.code /\ mailbox \subseteq mailbox'
    BY <1>2 DEF Work, TakeJob, MailJob, MarkSent, FailJob, Types, QueueTypes
  <2>2. job # NoJob
    BY <2>1 DEF NoJob
  <2>. QED
    BY <1>1, <2>1, <2>2 DEF FirstMail
<1>3. CASE JobRemoved
  BY <1>1, <1>3 DEF JobRemoved, FirstMail, NoJob, codes
<1>4. CASE DedupEnds
  BY <1>1, <1>4 DEF DedupEnds, FirstMail, codes
<1>5. CASE UNCHANGED <<queue, mailbox>>
  BY <1>1, <1>5, MailStays
<1>6. Work \/ JobRemoved \/ DedupEnds \/ UNCHANGED <<queue, mailbox>>
  BY DEF Outside, Time, KeyCools, AttemptsEnd, LockEnds, CodeCools, CodeExpires, vars
<1>. QED
  BY <1>2, <1>3, <1>4, <1>5, <1>6

LEMMA MailHolds == Spec => [](raced \/ FirstMail)
<1>1. ASSUME Types, raced \/ OneSender, raced \/ FirstMail, [Next]_vars
      PROVE  (raced \/ FirstMail)'
  <2>1. CASE raced
    BY <1>1, <2>1, RacedStays
  <2>2. CASE OneSender /\ FirstMail
    <3>1. ASSUME NEW c \in Clients, Step(c) PROVE FirstMail'
      BY <1>1, <2>2, <3>1, MailQuiet, MailSends
    <3>. QED
      BY <1>1, <2>2, <3>1, Steps, MailQuiet, MailCreates, MailOutside
  <2>. QED
    BY <1>1, <2>1, <2>2
<1>2. Types /\ (raced \/ OneSender) /\ (raced \/ FirstMail) /\ [Next]_vars => (raced \/ FirstMail)'
  BY <1>1
<1>. QED
  BY <1>2, InitMail, TypesHold, SenderHolds, PTL DEF Spec

(* "OTP sent successfully" is true of the first code, also when its mail   *)
(* was handed to the queue (enqueue): no duplicate swallows it.            *)
THEOREM FirstCodeArrives == Spec => []FirstCodeOnItsWay
<1>1. raced \/ FirstMail => FirstCodeOnItsWay
  BY DEF FirstMail, FirstCodeOnItsWay
<1>. QED
  BY <1>1, MailHolds, PTL

-----------------------------------------------------------------------------
(* Guesses.  While no two verifications met, a wrong guess is counted      *)
(* where the next one is compared, but for the guess that is being         *)
(* rejected and for those whose requests died.                             *)

Tried ==
  IF mode # "mongo" THEN attempts
  ELSE IF Len(otps) = 0 THEN 0 ELSE otps[Len(otps)].attempts

Pending == {c \in Clients : pc[c] = "reject" /\ (mode = "mongo" => call[c].held = Len(otps))}

Bounded ==
  /\ Tried <= MaxAttempts
  /\ guesses <= Tried + faults + 1
  /\ Pending = {} => guesses <= Tried + faults
  /\ Pending # {} => Tried < MaxAttempts
  /\ \A c \in Pending : mode = "mongo" => call[c].seen = Tried
  /\ mode # "mongo" => \A c \in Clients : pc[c] \in {"find", "reject"} => ~locked

LEMMA InitBounded == Init => Bounded
<1> SUFFICES ASSUME Init PROVE Bounded
  OBVIOUS
<1>1. /\ otps = <<>> /\ attempts = 0 /\ guesses = 0 /\ faults = 0 /\ locked = FALSE
      /\ \A c \in Clients : pc[c] = "idle"
  BY DEF Init
<1>2. Tried = 0 /\ Pending = {}
  BY <1>1 DEF Tried, Pending
<1>. QED
  BY <1>1, <1>2, Limits DEF Bounded

LEMMA Slack ==
  ASSUME NEW a \in Nat, NEW b \in Nat, NEW n \in Nat
  PROVE  /\ a <= b + n => a <= b + n + 1
         /\ a = 0 => a <= b + n /\ a <= b + n + 1
OBVIOUS

LEMMA TriedIsNumber == Types => Tried \in Nat /\ guesses \in Nat /\ faults \in Nat
<1> SUFFICES ASSUME Types PROVE Tried \in Nat /\ guesses \in Nat /\ faults \in Nat
  OBVIOUS
<1>1. attempts \in Nat /\ guesses \in Nat /\ faults \in Nat
  BY Limits DEF Types, RedisTypes, HistoryTypes
<1>2. Len(otps) # 0 => otps[Len(otps)].attempts \in Nat
  BY OtpTyped DEF Types, CodeTypes, Codes
<1>. QED
  BY <1>1, <1>2 DEF Tried

LEMMA BoundedStays ==
  ASSUME Types, Types', Bounded, mode' = mode, Tried' = Tried, guesses' <= guesses, faults <= faults',
         Pending' = Pending, \A c \in Pending : call'[c] = call[c],
         mode # "mongo" => \A c \in Clients : pc'[c] \in {"find", "reject"} => ~locked'
  PROVE  Bounded'
<1>1. /\ Tried \in Nat /\ guesses \in Nat /\ faults \in Nat
      /\ guesses' \in Nat /\ faults' \in Nat
  BY TriedIsNumber, Limits DEF Types, HistoryTypes
<1>2. /\ guesses' <= Tried + faults' + 1 /\ (Pending = {} => guesses' <= Tried + faults')
  BY <1>1 DEF Bounded
<1>3. \A c \in Pending : mode = "mongo" => call'[c].seen = Tried
  BY DEF Bounded
<1>. QED
  BY <1>2, <1>3 DEF Bounded

(* What is counted, where the codes and the counter are left alone.        *)
LEMMA SameTried ==
  ASSUME Types, mode' = mode, attempts' = attempts, Len(otps') = Len(otps),
         \A k \in Codes : otps'[k].attempts = otps[k].attempts
  PROVE  Tried' = Tried
BY DEF Tried, Codes, Types, CodeTypes

LEMMA SamePending ==
  ASSUME mode' = mode, Len(otps') = Len(otps),
         \A c \in Clients : pc[c] = "reject" \/ pc'[c] = "reject" => pc'[c] = pc[c] /\ call'[c] = call[c]
  PROVE  Pending' = Pending /\ \A c \in Pending : call'[c] = call[c]
BY DEF Pending

LEMMA BoundedKept ==
  ASSUME Types, Types', Bounded, NEW c \in Clients, Sends(c) \/ Checks(c) \/ Accept(c)
  PROVE  Bounded'
<1>1. /\ Keeps(c) /\ pc[c] # "reject" /\ pc'[c] # "reject" /\ (pc'[c] = "find" => ~locked)
      /\ mode' = mode /\ attempts' = attempts /\ locked' = locked
      /\ guesses' = guesses /\ faults' = faults
      /\ Len(otps') = Len(otps) /\ \A k \in Codes : otps'[k].attempts = otps[k].attempts
  <2>1. CASE Sends(c)
    BY <2>1, SendingMoves DEF Rest, config, codes, redis, history
  <2>2. CASE Checks(c)
    BY <2>2, CheckMoves DEF config, codes, redis
  <2>3. CASE Accept(c)
    BY <2>3, AcceptMoves DEF Accept, config, redis
  <2>. QED
    BY <2>1, <2>2, <2>3
<1>2. Tried' = Tried
  BY <1>1, SameTried
<1>3. Pending' = Pending /\ \A d \in Pending : call'[d] = call[d]
  BY <1>1, SamePending DEF Keeps
<1>4. guesses' <= guesses /\ faults <= faults'
  BY <1>1, TriedIsNumber
<1>5. mode # "mongo" => \A d \in Clients : pc'[d] \in {"find", "reject"} => ~locked'
  BY <1>1 DEF Bounded, Keeps
<1>. QED
  BY <1>1, <1>2, <1>3, <1>4, <1>5, BoundedStays

LEMMA BoundedFind ==
  ASSUME Types, Types', OneSender, Bounded, crowded' = {}, NEW c \in Clients, FindCode(c)
  PROVE  Bounded'
<1>1. /\ Keeps(c) /\ pc[c] = "find" /\ mode' = mode /\ attempts' = attempts /\ locked' = locked
      /\ faults' = faults /\ otps' = otps
  BY FindMoves DEF config, codes, redis
<1>2. Tried' = Tried
  BY <1>1, SameTried
<1>3. CASE pc'[c] # "reject" /\ guesses' = guesses
  <2>1. Pending' = Pending /\ \A d \in Pending : call'[d] = call[d]
    BY <1>1, <1>3, SamePending DEF Keeps
  <2>2. guesses' <= guesses /\ faults <= faults'
    BY <1>1, <1>3, TriedIsNumber
  <2>3. mode # "mongo" => \A d \in Clients : pc'[d] \in {"find", "reject"} => ~locked'
    BY <1>1, <1>3 DEF Bounded, Keeps
  <2>. QED
    BY <1>1, <1>2, <2>1, <2>2, <2>3, BoundedStays
<1>4. CASE pc'[c] = "reject"
  <2>1. PICK k \in Usable :
          /\ ~TooMany(k) /\ call'[c].held = k /\ call'[c].seen = otps[k].attempts
          /\ crowded' = IF Others(c) = {} THEN crowded ELSE crowded \cup {k}
          /\ guesses' = Counted(guesses)
    BY <1>4, FindMoves
  <2>2. Others(c) = {}
    BY <2>1
  <2>3. \A d \in Clients \ {c} : pc[d] \notin {"find", "reject"} /\ pc'[d] \notin {"find", "reject"}
    BY <1>1, <2>2 DEF Others, Keeps
  <2>4. Pending = {} /\ Pending' \subseteq {c}
    BY <1>1, <2>3 DEF Pending
  <2>5. guesses' <= guesses + 1
    BY <2>1, TriedIsNumber DEF Counted
  <2>6. guesses' <= Tried + faults + 1
    BY <2>4, <2>5, TriedIsNumber DEF Bounded, Types, HistoryTypes
  <2>7. CASE mode = "mongo"
    <3>1. k = Len(otps) /\ k \in Codes /\ k # 0
      BY DEF OneSender, Usable, Codes
    <3>2. Tried = otps[k].attempts
      BY <2>7, <3>1 DEF Tried
    <3>3. Tried < MaxAttempts
      BY <2>1, <3>2, TriedIsNumber, Limits DEF TooMany
    <3>4. c \in Pending'
      BY <1>1, <1>4, <2>1, <3>1 DEF Pending
    <3>5. \A d \in Pending' : call'[d].seen = Tried
      BY <2>1, <2>4, <3>2
    <3>. QED
      BY <1>1, <1>2, <2>6, <2>7, <3>3, <3>4, <3>5, TriedIsNumber, Limits DEF Bounded
  <2>8. CASE mode # "mongo"
    <3>1. ~locked
      BY <1>1, <2>8 DEF Bounded
    <3>2. Tried < MaxAttempts
      BY <2>8, <3>1 DEF Tried, Types, RedisTypes
    <3>3. c \in Pending'
      BY <1>1, <1>4, <2>8 DEF Pending
    <3>. QED
      BY <1>1, <1>2, <2>3, <2>6, <2>8, <3>1, <3>2, <3>3, TriedIsNumber, Limits DEF Bounded
  <2>. QED
    BY <2>7, <2>8
<1>. QED
  BY <1>3, <1>4, FindMoves

LEMMA BoundedReject ==
  ASSUME Types, Types', UsedOnce, Bounded, crowded = {}, NEW c \in Clients, Reject(c)
  PROVE  Bounded'
<1> DEFINE k == call[c].held
<1>1. /\ Keeps(c) /\ pc[c] = "reject" /\ pc'[c] = "idle" /\ k \in Codes /\ Len(otps') = Len(otps)
      /\ \A i \in Codes : otps'[i].attempts = IF mode = "mongo" /\ i = k
                                             THEN call[c].seen + 1 ELSE otps[i].attempts
  BY RejectMoves
<1>2. mode' = mode /\ guesses' = guesses /\ faults' = faults
  BY DEF Reject, config, history
<1>3. \A d \in Clients \ {c} : pc[d] \notin {"find", "reject"} /\ pc'[d] \notin {"find", "reject"}
  BY <1>1 DEF UsedOnce, Others, Keeps
<1>4. Pending' = {} /\ Pending \subseteq {c}
  BY <1>1, <1>3 DEF Pending
<1>5. \A d \in Clients : pc'[d] \notin {"find", "reject"}
  BY <1>1, <1>3
<1>6. Tried' \in Nat /\ Tried' <= MaxAttempts /\ guesses <= Tried' + faults
  <2>1. CASE mode = "mongo" /\ k = Len(otps)
    <3>1. c \in Pending
      BY <1>1, <2>1 DEF Pending
    <3>2. Tried' = Tried + 1
      BY <1>1, <1>2, <2>1, <3>1 DEF Tried, Bounded, Codes
    <3>. QED
      BY <3>1, <3>2, TriedIsNumber, Limits DEF Bounded
  <2>2. CASE mode = "mongo" /\ k # Len(otps)
    <3>1. Pending = {}
      BY <1>4, <2>2 DEF Pending
    <3>2. Tried' = Tried
      BY <1>1, <1>2, <2>2 DEF Tried, Codes, Types, CodeTypes
    <3>. QED
      BY <3>1, <3>2, TriedIsNumber DEF Bounded
  <2>3. CASE mode # "mongo"
    <3>1. ~locked
      BY <1>1, <2>3 DEF Bounded
    <3>2. attempts' = attempts + 1 /\ attempts < MaxAttempts /\ attempts \in Nat
      BY <2>3, <3>1, Limits DEF Reject, Types, RedisTypes
    <3>3. Tried' = attempts + 1 /\ Tried = attempts
      BY <1>2, <2>3, <3>2 DEF Tried
    <3>. QED
      BY <3>2, <3>3, TriedIsNumber, Limits DEF Bounded
  <2>. QED
    BY <2>1, <2>2, <2>3
<1>7. guesses \in Nat /\ faults \in Nat
  BY TriedIsNumber
<1>8. guesses <= Tried' + faults + 1
  BY <1>6, <1>7, Slack
<1>. HIDE DEF k
<1>. QED
  BY <1>2, <1>4, <1>5, <1>6, <1>8 DEF Bounded

LEMMA BoundedCreate ==
  ASSUME Types, Types', Bounded, NEW c \in Clients, Create(c)
  PROVE  Bounded'
<1>1. /\ Keeps(c) /\ pc[c] = "create" /\ pc'[c] \in {"reserve", "deliver"}
      /\ Len(otps') = Len(otps) + 1 /\ otps'[Len(otps')].attempts = 0 /\ Len(otps) \in Nat
  BY CreateMoves DEF Types, CodeTypes
<1>2. /\ mode' = mode /\ attempts' = attempts /\ locked' = locked /\ faults' = faults
      /\ guesses' = IF mode = "mongo" THEN 0 ELSE guesses
  BY DEF Create, config, redis
<1>3. CASE mode = "mongo"
  <2>1. Tried' = 0 /\ guesses' = 0
    BY <1>1, <1>2, <1>3 DEF Tried
  <2>2. \A d \in Clients : pc'[d] = "reject" => pc[d] = "reject" /\ call'[d].held \in Codes
    BY <1>1 DEF Keeps, Types, CallTypes, Holding
  <2>3. Pending' = {}
    BY <1>1, <1>2, <1>3, <2>2 DEF Pending, Codes
  <2>. QED
    BY <1>2, <1>3, <2>1, <2>3, TriedIsNumber, Limits DEF Bounded
<1>4. CASE mode # "mongo"
  <2>1. Tried' = Tried /\ guesses' = guesses
    BY <1>2, <1>4 DEF Tried
  <2>2. Pending' = Pending /\ \A d \in Pending : call'[d] = call[d]
    BY <1>1, <1>2, <1>4 DEF Pending, Keeps
  <2>3. \A d \in Clients : pc'[d] \in {"find", "reject"} => ~locked'
    BY <1>1, <1>2, <1>4 DEF Bounded, Keeps
  <2>4. guesses' <= guesses /\ faults <= faults'
    BY <1>2, <2>1, TriedIsNumber
  <2>. QED
    BY <1>2, <2>1, <2>2, <2>3, <2>4, BoundedStays
<1>. QED
  BY <1>3, <1>4

LEMMA BoundedSteps ==
  ASSUME Types, Types', Bounded, NEW c \in Clients, Step(c)
  PROVE  Bounded'
<1>1. mode' = mode /\ Keeps(c) /\ pc'[c] \notin {"find", "reject"}
  BY StepMoves
  DEF Step, CreateAccount, CoolDown, Invalidate, Deliver, Reserve, AddJob, Clear, Activate,
     IssueTokens, Crash, config
<1>2. Len(otps') = Len(otps) /\ \A k \in Codes : otps'[k].attempts = otps[k].attempts
  <2>1. CASE Invalidate(c)
    BY <2>1, OtpTyped DEF Invalidate, Codes, Types, CodeTypes, Otp
  <2>2. CASE ~Invalidate(c)
    BY <2>2 DEF Step, CreateAccount, CoolDown, Deliver, Reserve, AddJob, Clear, Activate,
       IssueTokens, Crash, codes
  <2>. QED
    BY <2>1, <2>2
<1>3. \A d \in Clients : pc'[d] \in {"find", "reject"} => pc'[d] = pc[d] /\ call'[d] = call[d]
  BY <1>1 DEF Keeps
<1>4. CASE Crash(c)
  <2>1. attempts' = attempts /\ locked' = locked /\ guesses' = guesses /\ faults' = faults + 1
    BY <1>4 DEF Crash, Fault, redis
  <2>2. Tried' = Tried
    BY <1>1, <1>2, <2>1, SameTried
  <2>3. Pending' \subseteq Pending /\ \A d \in Pending' : call'[d] = call[d]
    BY <1>1, <1>2, <1>3 DEF Pending
  <2>4. guesses <= Tried + faults' /\ guesses <= Tried + faults' + 1
    BY <2>1, TriedIsNumber DEF Bounded
  <2>5. \A d \in Pending' : mode = "mongo" => call'[d].seen = Tried
    BY <2>3 DEF Bounded
  <2>6. mode # "mongo" => \A d \in Clients : pc'[d] \in {"find", "reject"} => ~locked'
    BY <1>3, <2>1 DEF Bounded
  <2>. QED
    BY <1>1, <2>1, <2>2, <2>3, <2>4, <2>5, <2>6 DEF Bounded
<1>5. CASE ~Crash(c)
  <2>1. pc[c] # "reject"
    BY <1>5
    DEF Step, CreateAccount, CoolDown, Invalidate, Deliver, Reserve, AddJob, Clear, Activate,
       IssueTokens
  <2>2. Pending' = Pending /\ \A d \in Pending : call'[d] = call[d]
    BY <1>1, <1>2, <2>1, SamePending DEF Keeps
  <2>3. faults <= faults'
    BY <1>5, TriedIsNumber
    DEF Step, CreateAccount, CoolDown, Invalidate, Deliver, Reserve, AddJob, Clear,
       Activate, IssueTokens, Fault, history
  <2>4. CASE Clear(c) /\ mode # "mongo"
    <3>1. attempts' = 0 /\ locked' = FALSE /\ guesses' = 0
      BY <2>4 DEF Clear
    <3>2. Tried' = 0
      BY <1>1, <2>4, <3>1 DEF Tried
    <3>3. faults' \in Nat
      BY Limits DEF Types, HistoryTypes
    <3>4. guesses' <= Tried' + faults' /\ guesses' <= Tried' + faults' + 1
      BY <3>1, <3>2, <3>3, Slack
    <3>. QED
      BY <1>1, <2>4, <3>1, <3>2, <3>4, Limits DEF Bounded
  <2>5. CASE ~(Clear(c) /\ mode # "mongo")
    <3>1. attempts' = attempts /\ locked' = locked /\ guesses' = guesses
      BY <1>5, <2>5 DEF Step, CreateAccount, CoolDown, Invalidate, Deliver, Reserve, AddJob, Clear,
         Activate, IssueTokens, redis, history
    <3>2. Tried' = Tried
      BY <1>1, <1>2, <3>1, SameTried
    <3>3. mode # "mongo" => \A d \in Clients : pc'[d] \in {"find", "reject"} => ~locked'
      BY <1>3, <3>1 DEF Bounded
    <3>4. guesses' <= guesses
      BY <3>1, TriedIsNumber
    <3>. QED
      BY <1>1, <2>2, <2>3, <3>2, <3>3, <3>4, BoundedStays
  <2>. QED
    BY <2>4, <2>5
<1>. QED
  BY <1>4, <1>5

LEMMA BoundedOutside ==
  ASSUME Types, Types', Bounded, Outside
  PROVE  Bounded'
<1>1. UNCHANGED <<pc, call, otps, mode>>
  BY OutsideMoves
<1>2. Pending' = Pending /\ \A d \in Pending : call'[d] = call[d]
  BY <1>1 DEF Pending
<1>3. faults <= faults'
  BY TriedIsNumber
  DEF Outside, Work, TakeJob, MailJob, MarkSent, FailJob, Fault, Time, KeyCools, AttemptsEnd,
     LockEnds, DedupEnds, JobRemoved, CodeCools, CodeExpires, vars, history
<1>4. CASE AttemptsEnd
  <2>1. attempts' = 0 /\ guesses' = 0 /\ locked' = locked
    BY <1>4 DEF AttemptsEnd
  <2>2. Tried' = IF mode = "mongo" THEN Tried ELSE 0
    BY <1>1, <2>1 DEF Tried
  <2>3. faults' \in Nat /\ Tried \in Nat
    BY TriedIsNumber, Limits DEF Types, HistoryTypes
  <2>4. Tried' \in Nat /\ Tried' <= MaxAttempts /\ (Pending # {} => Tried' < MaxAttempts)
    <3>1. CASE mode = "mongo"
      BY <2>2, <2>3, <3>1 DEF Bounded
    <3>2. CASE mode # "mongo"
      BY <2>2, <3>2, Limits
    <3>. QED
      BY <3>1, <3>2
  <2>5. guesses' <= Tried' + faults' /\ guesses' <= Tried' + faults' + 1
    BY <2>1, <2>3, <2>4, Slack
  <2>6. \A d \in Pending : mode = "mongo" => call'[d].seen = Tried'
    BY <1>2, <2>2 DEF Bounded
  <2>. QED
    BY <1>1, <1>2, <2>1, <2>4, <2>5, <2>6 DEF Bounded
<1>5. CASE ~AttemptsEnd
  <2>1. attempts' = attempts /\ guesses' = guesses /\ (locked' => locked)
    BY <1>5 DEF Outside, Work, TakeJob, MailJob, MarkSent, FailJob, Time, KeyCools, LockEnds,
       DedupEnds, JobRemoved, CodeCools, CodeExpires, vars, redis, history
  <2>2. Tried' = Tried
    BY <1>1, <2>1 DEF Tried
  <2>3. mode # "mongo" => \A d \in Clients : pc'[d] \in {"find", "reject"} => ~locked'
    BY <1>1, <2>1 DEF Bounded
  <2>4. guesses' <= guesses
    BY <2>1, TriedIsNumber
  <2>. QED
    BY <1>1, <1>2, <1>3, <2>2, <2>3, <2>4, BoundedStays
<1>. QED
  BY <1>4, <1>5

LEMMA CrowdedStays == [Next]_vars => crowded \subseteq crowded'
<1> SUFFICES ASSUME [Next]_vars PROVE crowded \subseteq crowded'
  OBVIOUS
<1>1. CASE \E c \in Clients : Request(c)
  BY <1>1 DEF Request, Send, Register, Login, Resend, Verify, Confirm, PassLock, history
<1>2. ASSUME NEW c \in Clients, Handle(c) \/ Crash(c) PROVE crowded \subseteq crowded'
  <2>1. CASE FindCode(c) \/ Reject(c) \/ Accept(c) \/ Clear(c)
    BY <2>1 DEF FindCode, Reject, Accept, Clear, history
  <2>2. CASE CreateAccount(c) \/ CoolDown(c) \/ Invalidate(c) \/ Create(c) \/ Deliver(c)
    BY <2>2 DEF CreateAccount, CoolDown, Invalidate, Create, Deliver, history
  <2>3. CASE Reserve(c) \/ AddJob(c) \/ Activate(c) \/ IssueTokens(c) \/ Crash(c)
    BY <2>3 DEF Reserve, AddJob, Activate, IssueTokens, Crash, history
  <2>. QED
    BY <1>2, <2>1, <2>2, <2>3 DEF Handle
<1>3. CASE Outside
  BY <1>3, OutsideMoves
<1>. QED
  BY <1>1, <1>2, <1>3 DEF Next, Outside

LEMMA BoundedHolds == Spec => [](raced \/ crowded # {} \/ Bounded)
<1>1. ASSUME Types, Types', raced \/ OneSender, UsedOnce, raced \/ crowded # {} \/ Bounded, [Next]_vars
      PROVE  (raced \/ crowded # {} \/ Bounded)'
  <2>1. CASE raced \/ crowded # {}
    BY <1>1, <2>1, RacedStays, CrowdedStays
  <2>2. CASE crowded' # {}
    BY <2>2
  <2>3. CASE OneSender /\ Bounded /\ crowded = {} /\ crowded' = {}
    <3>1. Bounded'
      BY <1>1, <2>3, Steps, BoundedKept, BoundedFind, BoundedReject, BoundedCreate, BoundedSteps,
         BoundedOutside
    <3>. QED
      BY <3>1
  <2>. QED
    BY <1>1, <2>1, <2>2, <2>3
<1>2. Types /\ Types' /\ (raced \/ OneSender) /\ UsedOnce /\ (raced \/ crowded # {} \/ Bounded) /\ [Next]_vars
        => (raced \/ crowded # {} \/ Bounded)'
  BY <1>1
<1>. QED
  BY <1>2, InitBounded, TypesHold, SenderHolds, UsedHolds, PTL DEF Spec

(* However often codes are sent anew and locks end, no more guesses are    *)
(* looked at than the counter allows, and one for each request that died   *)
(* before it was counted (verifyOTP).                                      *)
THEOREM GuessesCounted == Spec => []GuessesBounded
<1>1. Types /\ (raced \/ crowded # {} \/ Bounded) => GuessesBounded
  <2> SUFFICES ASSUME Types, Bounded PROVE guesses <= MaxAttempts + faults
    BY DEF GuessesBounded
  <2>. QED
    BY TriedIsNumber, Limits DEF Bounded
<1>. QED
  BY <1>1, TypesHold, BoundedHolds, PTL
=============================================================================
