--------------------------- MODULE SessionProofs ---------------------------
(***************************************************************************)
(* Proofs about Session, for any number of tabs, requests, logouts and     *)
(* tokens that expire: one refresh at a time in a tab, the end of the      *)
(* sessions by a password reset, the rotation of the tokens, and the life  *)
(* of the session.                                                         *)
(***************************************************************************)
EXTENDS Session, FiniteSetTheorems, TLAPS

-----------------------------------------------------------------------------
(* One refresh at a time.                                                  *)

Steps == {"idle", "sent", "served", "queued", "refreshing"} \cup Settled

Elsewhere == Steps \ {"queued", "refreshing"}

FlightTypes ==
  /\ pc \in [Requests -> Steps]
  /\ isRefreshing \in [Tabs -> BOOLEAN]
  /\ failedQueue \in [Tabs -> Seq(Requests)]

\* A tab that refreshes does so for one request, and the others wait.
FlightInv ==
  /\ FlightTypes
  /\ \A t \in Tabs :
       /\ isRefreshing[t] <=> \E r \in Requests : Home[r] = t /\ pc[r] = "refreshing"
       /\ failedQueue[t] # <<>> => isRefreshing[t]
       /\ ToSet(failedQueue[t]) = {r \in Requests : Home[r] = t /\ pc[r] = "queued"}
       /\ IsInjective(failedQueue[t])
  /\ \A r, q \in Requests :
       pc[r] = "refreshing" /\ pc[q] = "refreshing" /\ Home[r] = Home[q] => r = q

LEMMA FlightInit == Init => FlightInv
<1> SUFFICES ASSUME Init PROVE FlightInv
  OBVIOUS
<1>1. <<>> \in Seq(Requests) /\ ToSet(<<>>) = {} /\ IsInjective(<<>>)
  BY DEF ToSet, IsInjective
<1>. QED
  BY <1>1 DEF Init, FlightInv, FlightTypes, Steps

\* A request that neither waits nor refreshes moves, or none.
LEMMA FlightMoves ==
  ASSUME FlightInv, NEW r \in Requests, NEW label \in Elsewhere, pc[r] \in Elsewhere,
         UNCHANGED <<isRefreshing, failedQueue>>, Goto(r, label)
  PROVE  FlightInv'
<1>1. /\ pc' \in [Requests -> Steps]
      /\ \A q \in Requests : pc'[q] = IF q = r THEN label ELSE pc[q]
  BY DEF FlightInv, FlightTypes, Goto, Elsewhere
<1>2. \A q \in Requests : /\ pc'[q] = "queued" <=> pc[q] = "queued"
                          /\ pc'[q] = "refreshing" <=> pc[q] = "refreshing"
  BY <1>1 DEF Elsewhere
<1>3. FlightTypes'
  BY <1>1 DEF FlightInv, FlightTypes
<1>4. \A t \in Tabs : {q \in Requests : Home[q] = t /\ pc'[q] = "queued"}
                        = {q \in Requests : Home[q] = t /\ pc[q] = "queued"}
  BY <1>2
<1>. QED
  BY <1>2, <1>3, <1>4 DEF FlightInv

LEMMA FlightStays ==
  ASSUME FlightInv, UNCHANGED <<pc, isRefreshing, failedQueue>>
  PROVE  FlightInv'
  BY DEF FlightInv, FlightTypes

LEMMA FlightEnqueue ==
  ASSUME FlightInv, NEW r \in Requests, Enqueue(r)
  PROVE  FlightInv'
<1> DEFINE t == Home[r]
<1>1. /\ t \in Tabs /\ pc[r] = "sent" /\ isRefreshing[t] /\ isRefreshing' = isRefreshing
      /\ failedQueue' = [failedQueue EXCEPT ![t] = Append(failedQueue[t], r)]
      /\ pc' = [pc EXCEPT ![r] = "queued"]
  BY SessionAssumption DEF Enqueue, Unauthorized, Goto
<1>2. /\ pc' \in [Requests -> Steps]
      /\ \A q \in Requests : pc'[q] = IF q = r THEN "queued" ELSE pc[q]
  BY <1>1 DEF FlightInv, FlightTypes, Steps
<1>3. failedQueue[t] \in Seq(Requests)
  BY <1>1 DEF FlightInv, FlightTypes
<1>. HIDE DEF t
<1>4. /\ failedQueue' \in [Tabs -> Seq(Requests)]
      /\ failedQueue'[t] = Append(failedQueue[t], r)
      /\ \A u \in Tabs \ {t} : failedQueue'[u] = failedQueue[u]
  BY <1>1, <1>3 DEF FlightInv, FlightTypes
<1>5. r \notin ToSet(failedQueue[t])
  BY <1>1 DEF FlightInv
<1>6. /\ ToSet(Append(failedQueue[t], r)) = ToSet(failedQueue[t]) \cup {r}
      /\ IsInjective(Append(failedQueue[t], r))
  <2> DEFINE s == failedQueue[t]
  <2>1. s \in Seq(Requests) /\ IsInjective(s) /\ r \notin ToSet(s)
    BY <1>1, <1>3, <1>5 DEF FlightInv
  <2>. HIDE DEF s
  <2>2. /\ Len(s) \in Nat /\ DOMAIN s = 1..Len(s)
        /\ DOMAIN Append(s, r) = 1..(Len(s) + 1)
        /\ Append(s, r)[Len(s) + 1] = r
        /\ \A i \in 1..Len(s) : Append(s, r)[i] = s[i]
    BY <2>1
  <2>3. ToSet(Append(s, r)) = ToSet(s) \cup {r}
    BY <2>2 DEF ToSet
  <2>4. \A i \in 1..Len(s) : s[i] # r
    BY <2>1, <2>2 DEF ToSet
  <2>5. IsInjective(Append(s, r))
    BY <2>1, <2>2, <2>4 DEF IsInjective
  <2>. QED
    BY <2>3, <2>5 DEF s
<1>7. ASSUME NEW u \in Tabs
      PROVE  /\ isRefreshing'[u] <=> \E q \in Requests : Home[q] = u /\ pc'[q] = "refreshing"
             /\ failedQueue'[u] # <<>> => isRefreshing'[u]
             /\ ToSet(failedQueue'[u]) = {q \in Requests : Home[q] = u /\ pc'[q] = "queued"}
             /\ IsInjective(failedQueue'[u])
  <2>1. \A q \in Requests : pc'[q] = "refreshing" <=> pc[q] = "refreshing"
    BY <1>1, <1>2
  <2>2. CASE u = t
    <3>1. {q \in Requests : Home[q] = u /\ pc'[q] = "queued"}
            = {q \in Requests : Home[q] = u /\ pc[q] = "queued"} \cup {r}
      BY <1>2, <2>2 DEF t
    <3>. QED
      BY <1>1, <1>4, <1>6, <2>1, <2>2, <3>1 DEF FlightInv
  <2>3. CASE u # t
    <3>1. {q \in Requests : Home[q] = u /\ pc'[q] = "queued"}
            = {q \in Requests : Home[q] = u /\ pc[q] = "queued"}
      BY <1>2, <2>3 DEF t
    <3>. QED
      BY <1>1, <1>4, <2>1, <2>3, <3>1 DEF FlightInv
  <2>. QED
    BY <2>2, <2>3
<1>8. \A q, s \in Requests :
        pc'[q] = "refreshing" /\ pc'[s] = "refreshing" /\ Home[q] = Home[s] => q = s
  BY <1>2 DEF FlightInv
<1>9. FlightTypes'
  BY <1>1, <1>2, <1>4 DEF FlightInv, FlightTypes
<1>. QED
  BY <1>7, <1>8, <1>9 DEF FlightInv

LEMMA FlightStart ==
  ASSUME FlightInv, NEW r \in Requests, StartRefresh(r)
  PROVE  FlightInv'
<1> DEFINE t == Home[r]
<1>1. /\ t \in Tabs /\ pc[r] = "sent" /\ ~isRefreshing[t] /\ failedQueue' = failedQueue
      /\ isRefreshing' = [isRefreshing EXCEPT ![t] = TRUE]
      /\ pc' = [pc EXCEPT ![r] = "refreshing"]
  BY SessionAssumption DEF StartRefresh, Unauthorized, Goto
<1>2. /\ pc' \in [Requests -> Steps]
      /\ \A q \in Requests : pc'[q] = IF q = r THEN "refreshing" ELSE pc[q]
  BY <1>1 DEF FlightInv, FlightTypes, Steps
<1>3. /\ isRefreshing' \in [Tabs -> BOOLEAN]
      /\ isRefreshing'[t] /\ \A u \in Tabs \ {t} : isRefreshing'[u] = isRefreshing[u]
  BY <1>1 DEF FlightInv, FlightTypes
<1>4. \A u \in Tabs : {q \in Requests : Home[q] = u /\ pc'[q] = "queued"}
                        = {q \in Requests : Home[q] = u /\ pc[q] = "queued"}
  BY <1>1, <1>2
<1>5. \A q \in Requests : Home[q] = t => pc[q] # "refreshing"
  BY <1>1 DEF FlightInv
<1>6. FlightTypes'
  BY <1>1, <1>2, <1>3 DEF FlightInv, FlightTypes
<1>7. \A u \in Tabs :
        isRefreshing'[u] <=> \E q \in Requests : Home[q] = u /\ pc'[q] = "refreshing"
  <2> TAKE u \in Tabs
  <2>1. CASE u = t
    BY <1>2, <1>3, <2>1
  <2>2. CASE u # t
    <3>1. \A q \in Requests : Home[q] = u => pc'[q] = pc[q]
      BY <1>2, <2>2
    <3>. QED
      BY <1>3, <2>2, <3>1 DEF FlightInv
  <2>. QED
    BY <2>1, <2>2
<1>8. \A q, s \in Requests :
        pc'[q] = "refreshing" /\ pc'[s] = "refreshing" /\ Home[q] = Home[s] => q = s
  BY <1>2, <1>5 DEF FlightInv
<1>9. \A u \in Tabs : failedQueue'[u] # <<>> => isRefreshing'[u]
  BY <1>1, <1>3 DEF FlightInv
<1>. QED
  BY <1>1, <1>4, <1>6, <1>7, <1>8, <1>9 DEF FlightInv

\* A refresh that ends settles all its tab's requests.
LEMMA FlightSettle ==
  ASSUME FlightInv, NEW r \in Requests, pc[r] = "refreshing",
         NEW label \in {"sent", "failed"}, Settle(r, label)
  PROVE  FlightInv'
<1> DEFINE t == Home[r]
<1>1. /\ t \in Tabs
      /\ pc' = [q \in Requests |-> IF q \in Waiting(r) THEN label ELSE pc[q]]
      /\ failedQueue' = [failedQueue EXCEPT ![t] = <<>>]
      /\ isRefreshing' = [isRefreshing EXCEPT ![t] = FALSE]
  BY SessionAssumption DEF Settle
<1>2. \A q \in Requests :
        q \in Waiting(r) <=> Home[q] = t /\ (pc[q] = "queued" \/ pc[q] = "refreshing")
  <2>1. ToSet(failedQueue[t]) = {q \in Requests : Home[q] = t /\ pc[q] = "queued"}
    BY <1>1 DEF FlightInv
  <2>. QED
    BY <2>1 DEF Waiting, FlightInv
<1>3. /\ pc' \in [Requests -> Steps]
      /\ \A q \in Requests : Home[q] = t => pc'[q] \notin {"queued", "refreshing"}
      /\ \A q \in Requests : Home[q] # t => pc'[q] = pc[q]
  BY <1>1, <1>2 DEF FlightInv, FlightTypes, Steps, Settled
<1>4. <<>> \in Seq(Requests) /\ ToSet(<<>>) = {} /\ IsInjective(<<>>)
  BY DEF ToSet, IsInjective
<1>5. /\ failedQueue' \in [Tabs -> Seq(Requests)] /\ failedQueue'[t] = <<>>
      /\ isRefreshing' \in [Tabs -> BOOLEAN] /\ ~isRefreshing'[t]
      /\ \A u \in Tabs \ {t} : /\ failedQueue'[u] = failedQueue[u]
                               /\ isRefreshing'[u] = isRefreshing[u]
  BY <1>1, <1>4 DEF FlightInv, FlightTypes
<1>. HIDE DEF t
<1>6. ASSUME NEW u \in Tabs
      PROVE  /\ isRefreshing'[u] <=> \E q \in Requests : Home[q] = u /\ pc'[q] = "refreshing"
             /\ failedQueue'[u] # <<>> => isRefreshing'[u]
             /\ ToSet(failedQueue'[u]) = {q \in Requests : Home[q] = u /\ pc'[q] = "queued"}
             /\ IsInjective(failedQueue'[u])
  <2>1. CASE u = t
    <3>1. {q \in Requests : Home[q] = u /\ pc'[q] = "queued"} = {}
      BY <1>3, <2>1
    <3>. QED
      BY <1>3, <1>4, <1>5, <2>1, <3>1
  <2>2. CASE u # t
    <3>1. {q \in Requests : Home[q] = u /\ pc'[q] = "queued"}
            = {q \in Requests : Home[q] = u /\ pc[q] = "queued"}
      BY <1>3, <2>2
    <3>2. \A q \in Requests : Home[q] = u => pc'[q] = pc[q]
      BY <1>3, <2>2
    <3>3. failedQueue'[u] = failedQueue[u] /\ isRefreshing'[u] = isRefreshing[u]
      BY <1>5, <2>2
    <3>4. isRefreshing[u] <=> \E q \in Requests : Home[q] = u /\ pc'[q] = "refreshing"
      BY <3>2 DEF FlightInv
    <3>. QED
      BY <3>1, <3>3, <3>4 DEF FlightInv
  <2>. QED
    BY <2>1, <2>2
<1>7. \A q, s \in Requests :
        pc'[q] = "refreshing" /\ pc'[s] = "refreshing" /\ Home[q] = Home[s] => q = s
  BY <1>3 DEF FlightInv
<1>8. FlightTypes'
  BY <1>3, <1>5 DEF FlightTypes
<1>. QED
  BY <1>6, <1>7, <1>8 DEF FlightInv

LEMMA FlightStep ==
  ASSUME FlightInv, [Next]_vars
  PROVE  FlightInv'
<1>1. ASSUME NEW r \in Requests, Send(r) PROVE FlightInv'
  <2>1. Goto(r, "done") \/ Goto(r, "sent")
    <3>1. CASE r \in Logouts /\ tokens[Home[r]] = 0
      BY <1>1, <3>1 DEF Send
    <3>2. CASE ~(r \in Logouts /\ tokens[Home[r]] = 0)
      BY <1>1, <3>2 DEF Send
    <3>. QED
      BY <3>1, <3>2
  <2>. QED
    BY <1>1, <2>1, FlightMoves DEF Send, Elsewhere, Steps, Settled
<1>2. ASSUME NEW r \in Requests, Serve(r) \/ Answered(r) \/ Lost(r) \/ NoRefreshToken(r)
      PROVE  FlightInv'
  <2>1. PICK label \in {"served", "done", "failed"} : Goto(r, label)
    BY <1>2 DEF Serve, Answered, Lost, NoRefreshToken
  <2>. QED
    BY <1>2, <2>1, FlightMoves
    DEF Serve, Answered, Lost, NoRefreshToken, Unauthorized, Elsewhere, Steps, Settled
<1>3. ASSUME NEW r \in Requests, Enqueue(r) PROVE FlightInv'
  BY <1>3, FlightEnqueue
<1>4. ASSUME NEW r \in Requests, StartRefresh(r) PROVE FlightInv'
  BY <1>4, FlightStart
<1>5. ASSUME NEW r \in Requests, Refreshed(r) \/ RefreshFailed(r) PROVE FlightInv'
  BY <1>5, FlightSettle DEF Refreshed, RefreshFailed
<1>6. ASSUME \/ \E r \in Requests : FindToken(r) \/ RevokeToken(r) \/ GenerateTokens(r)
                                    \/ LinkTokens(r) \/ ServerDies(r)
             \/ \E g \in 1..issued : Expire(g)
             \/ RevokeAll \/ AllSettled \/ UNCHANGED vars
      PROVE  FlightInv'
  <2>1. UNCHANGED <<pc, isRefreshing, failedQueue>>
    BY <1>6 DEF FindToken, RevokeToken, GenerateTokens, LinkTokens, ServerDies, Expire,
                RevokeAll, AllSettled, vars, client
  <2>. QED
    BY <2>1, FlightStays
<1>. QED
  BY <1>1, <1>2, <1>3, <1>4, <1>5, <1>6 DEF Next, Progress

LEMMA FlightHolds == Spec => []FlightInv
<1>1. FlightInv /\ [Next]_vars => FlightInv'
  BY FlightStep
<1>. QED
  BY <1>1, FlightInit, PTL DEF Spec

(* Nobody waits for a refresh that is not under way, and a tab has one     *)
(* refresh at a time (the response interceptor, processQueue).             *)
THEOREM OneRefreshAtATime == Spec => []SingleFlight
<1>1. FlightInv => SingleFlight
  <2> SUFFICES ASSUME FlightInv, NEW t \in Tabs
               PROVE  LET mine == {r \in Requests : Home[r] = t}
                          refreshing == {r \in mine : pc[r] = "refreshing"}
                      IN /\ Cardinality(refreshing) = IF isRefreshing[t] THEN 1 ELSE 0
                         /\ ToSet(failedQueue[t]) = {r \in mine : pc[r] = "queued"}
                         /\ IsInjective(failedQueue[t])
                         /\ failedQueue[t] # <<>> => isRefreshing[t]
    BY DEF SingleFlight
  <2> DEFINE mine == {r \in Requests : Home[r] = t}
             refreshing == {r \in mine : pc[r] = "refreshing"}
  <2>1. Cardinality(refreshing) = IF isRefreshing[t] THEN 1 ELSE 0
    <3>1. CASE isRefreshing[t]
      <4>1. PICK r \in Requests : Home[r] = t /\ pc[r] = "refreshing"
        BY <3>1 DEF FlightInv
      <4>2. refreshing = {r}
        BY <4>1 DEF FlightInv
      <4>. QED
        BY <3>1, <4>2, FS_Singleton
    <3>2. CASE ~isRefreshing[t]
      <4>1. refreshing = {}
        BY <3>2 DEF FlightInv
      <4>. QED
        BY <3>2, <4>1, FS_EmptySet
    <3>. QED
      BY <3>1, <3>2
  <2>2. ToSet(failedQueue[t]) = {r \in mine : pc[r] = "queued"}
    <3>1. {r \in mine : pc[r] = "queued"} = {r \in Requests : Home[r] = t /\ pc[r] = "queued"}
      OBVIOUS
    <3>. QED
      BY <3>1 DEF FlightInv
  <2>. QED
    BY <2>1, <2>2 DEF FlightInv
<1>. QED
  BY <1>1, FlightHolds, PTL

-----------------------------------------------------------------------------
(* A password reset.                                                       *)

Labels == {"none", "find", "revoke", "generate", "link", "answered", "refused", "dead"}

\* No refresh is about to issue a pair that the reset does not see.
ResetInv ==
  /\ serving \in [Requests -> Labels]
  /\ reset /\ ~midway =>
       /\ live = {} /\ ~elsewhere
       /\ \A r \in Requests : serving[r] \notin {"revoke", "generate"}

LEMMA ResetStep ==
  ASSUME ResetInv, [Next]_vars
  PROVE  ResetInv'
<1>1. ASSUME NEW r \in Requests, Serve(r) PROVE ResetInv'
  <2>1. live' \subseteq live /\ UNCHANGED <<account, serving>>
    BY <1>1 DEF Serve
  <2>. QED
    BY <2>1 DEF ResetInv, account
<1>2. ASSUME NEW r \in Requests, StartRefresh(r) PROVE ResetInv'
  BY <1>2 DEF StartRefresh, ResetInv, account, Labels
<1>3. ASSUME NEW r \in Requests, Refreshed(r) PROVE ResetInv'
  BY <1>3 DEF Refreshed, ResetInv, account, Labels
<1>4. ASSUME NEW r \in Requests, FindToken(r) PROVE ResetInv'
  <2>1. /\ serving' = [serving EXCEPT ![r] = IF presented[r] \in live THEN "revoke" ELSE "refused"]
        /\ UNCHANGED <<account, live>>
    BY <1>4 DEF FindToken, Serving
  <2>. QED
    BY <2>1 DEF ResetInv, account, Labels
<1>5. ASSUME NEW r \in Requests, RevokeToken(r) PROVE ResetInv'
  BY <1>5 DEF RevokeToken, Serving, ResetInv, account, Labels
<1>6. ASSUME NEW r \in Requests, GenerateTokens(r) PROVE ResetInv'
  BY <1>6 DEF GenerateTokens, Serving, ResetInv, account, Labels
<1>7. ASSUME NEW r \in Requests, LinkTokens(r) \/ ServerDies(r) PROVE ResetInv'
  BY <1>7 DEF LinkTokens, ServerDies, Serving, ResetInv, account, Labels
<1>8. CASE RevokeAll
  BY <1>8 DEF RevokeAll, ResetInv
<1>9. ASSUME \/ \E r \in Requests : \/ Send(r) \/ Answered(r) \/ Lost(r)
                                    \/ Enqueue(r) \/ NoRefreshToken(r) \/ RefreshFailed(r)
             \/ \E g \in 1..issued : Expire(g)
             \/ AllSettled \/ UNCHANGED vars
      PROVE  ResetInv'
  <2>1. UNCHANGED <<account, live, serving>>
    BY <1>9 DEF Send, Answered, Lost, Enqueue, NoRefreshToken, RefreshFailed, Expire,
                AllSettled, vars, server, account
  <2>. QED
    BY <2>1 DEF ResetInv, account
<1>. QED
  BY <1>1, <1>2, <1>3, <1>4, <1>5, <1>6, <1>7, <1>8, <1>9 DEF Next, Progress

(* A password reset ends every session on every device, except for a       *)
(* refresh that had found its token (resetPassword against refreshTokens). *)
THEOREM ResetEndsThem == Spec => []ResetEndsSessions
<1>1. Init => ResetInv
  BY DEF Init, ResetInv, Labels
<1>2. ResetInv /\ [Next]_vars => ResetInv'
  BY ResetStep
<1>3. ResetInv => ResetEndsSessions
  BY DEF ResetInv, ResetEndsSessions
<1>. QED
  BY <1>1, <1>2, <1>3, PTL DEF Spec

-----------------------------------------------------------------------------
(* The tokens of the tabs.                                                 *)

TokenTypes ==
  /\ serving \in [Requests -> Labels]
  /\ presented \in [Requests -> Nat] /\ reply \in [Requests -> Nat]
  /\ tokens \in [Tabs -> Nat] /\ given \in [Tabs -> SUBSET Nat] /\ issued \in Nat \ {0}

\* The server has a refresh of tab t, which may have given it up.
Busy(t) == \E r \in Requests : Home[r] = t /\ serving[r] # "none"

\* The server has one refresh of a tab to do; a tab that gave it up has no
\* tokens, and so never sends another.
OneServing ==
  /\ \A r \in Requests : pc[r] = "refreshing" => serving[r] # "none"
  /\ \A r, q \in Requests :
       serving[r] # "none" /\ pc[r] # "refreshing" /\ Home[q] = Home[r] =>
         tokens[Home[r]] = 0 /\ pc[q] # "refreshing"
  /\ \A r, q \in Requests :
       serving[r] # "none" /\ serving[q] # "none" /\ Home[r] = Home[q] => r = q

\* What a tab has or asks for is the first token or one it was given, and a
\* pair is given to one tab.
Belongs ==
  /\ \A t \in Tabs : \A g \in given[t] : g > 1 /\ g <= issued
  /\ \A t, u \in Tabs : \A g \in given[t] : g \in given[u] => t = u
  /\ \A t \in Tabs : tokens[t] \in {0, 1} \cup given[t]
  /\ \A r \in Requests :
       /\ presented[r] \in {0, 1} \cup given[Home[r]]
       /\ serving[r] # "none" => presented[r] # 0
       /\ serving[r] \in {"link", "answered"} => reply[r] \in given[Home[r]]

\* Of the tokens a tab was given one can be used: the one it has, or the one
\* its refresh is about to replace or has brought.
Rotation ==
  /\ 1 \in live => issued = 1 /\ \A r \in Requests : serving[r] # "generate"
  /\ \A t \in Tabs : \A g, h \in live \cap given[t] : g = h
  /\ \A t \in Tabs : ~Busy(t) /\ tokens[t] # 0 => live \cap given[t] \subseteq {tokens[t]}
  /\ \A r \in Requests :
       /\ serving[r] \in {"find", "revoke"} => live \cap given[Home[r]] \subseteq {presented[r]}
       /\ serving[r] = "generate" => live \cap given[Home[r]] = {}
       /\ serving[r] \in {"link", "answered"} => live \cap given[Home[r]] \subseteq {reply[r]}

\* Tab u has had a token replaced, or is about to.
Won(u) ==
  \/ tokens[u] > 1
  \/ \E r \in Requests : Home[r] = u /\ serving[r] \in {"generate", "link", "answered"}

RequestGoes(r) ==
  /\ serving[r] # "dead"
  /\ pc[r] = "served" => r \notin Logouts
  /\ pc[r] = "failed" => tokens[Home[r]] = 0
  /\ serving[r] = "refused" =>
       presented[r] = 1 /\ tokens[Home[r]] \in {0, 1} /\ \E u \in Tabs \ {Home[r]} : Won(u)
  /\ serving[r] \notin {"none", "refused"} => presented[r] = tokens[Home[r]]
  /\ serving[r] \in {"find", "revoke"} /\ presented[r] # 1 => presented[r] \in live
  /\ serving[r] \in {"link", "answered"} => reply[r] \in live

TabGoes(t) ==
  /\ tokens[t] > 1 /\ ~Busy(t) => tokens[t] \in live
  /\ tokens[t] = 0 => \E r \in Requests : Home[r] = t /\ serving[r] = "refused"

\* While nothing goes wrong the token of a tab can be used or its refresh has
\* it, unless it is the first one and another tab has had it replaced.
Going ==
  /\ 1 \in live \/ \E u \in Tabs : Won(u)
  /\ \A r \in Requests : RequestGoes(r)
  /\ \A t \in Tabs : TabGoes(t)

TokenInv ==
  /\ FlightInv /\ TokenTypes /\ OneServing /\ Belongs /\ Rotation /\ (incident \/ Going)

LEMMA HomeTab == \A r \in Requests : Home[r] \in Tabs
  BY SessionAssumption

\* A request that does not refresh moves.
LEMMA TokenMoves ==
  ASSUME TokenInv, FlightInv', NEW r \in Requests, NEW label \in Steps \ {"refreshing"},
         pc[r] # "refreshing", Goto(r, label),
         UNCHANGED <<serving, presented, reply, issued, given>>,
         tokens' = tokens \/ tokens' = [tokens EXCEPT ![Home[r]] = 0], live' \subseteq live,
         incident' \/ /\ ~incident /\ tokens' = tokens /\ live' = live
                      /\ label = "failed" => tokens[Home[r]] = 0
                      /\ label = "served" => r \notin Logouts
  PROVE  TokenInv'
<1>1. \A q \in Requests : pc'[q] = IF q = r THEN label ELSE pc[q]
  BY DEF TokenInv, FlightInv, FlightTypes, Goto
<1>2. /\ TokenTypes'
      /\ \A t \in Tabs : tokens'[t] = tokens[t] \/ tokens'[t] = 0
  BY HomeTab DEF TokenInv, TokenTypes
<1>3. OneServing'
  BY <1>1, <1>2, HomeTab DEF TokenInv, OneServing
<1>4. Belongs'
  BY <1>2 DEF TokenInv, Belongs
<1>5. Rotation'
  BY <1>2 DEF TokenInv, Rotation, Busy
<1>6. incident' \/ Going'
  <2> SUFFICES ASSUME ~incident' PROVE Going'
    OBVIOUS
  <2>1. Going /\ UNCHANGED <<tokens, live, serving, presented, reply>>
    BY DEF TokenInv
  <2>2. \A q \in Requests : RequestGoes(q)'
    BY <1>1, <2>1 DEF Going, RequestGoes, Won
  <2>. QED
    BY <2>1, <2>2 DEF Going, TabGoes, Busy, Won
<1>. QED
  BY <1>2, <1>3, <1>4, <1>5, <1>6 DEF TokenInv

LEMMA TokenStart ==
  ASSUME TokenInv, FlightInv', NEW r \in Requests, StartRefresh(r)
  PROVE  TokenInv'
<1> DEFINE t == Home[r]
<1>1. /\ t \in Tabs /\ pc[r] = "sent" /\ ~isRefreshing[t] /\ tokens[t] # 0
      /\ pc' = [pc EXCEPT ![r] = "refreshing"]
      /\ serving' = [serving EXCEPT ![r] = "find"]
      /\ presented' = [presented EXCEPT ![r] = tokens[t]]
      /\ UNCHANGED <<tokens, issued, live, reply, given, incident>>
  BY HomeTab DEF StartRefresh, Unauthorized, Goto
<1>2. \A q \in Requests : Home[q] = t => pc[q] # "refreshing"
  BY <1>1 DEF TokenInv, FlightInv
<1>3. ~Busy(t) /\ \A q \in Requests : Home[q] = t => serving[q] = "none"
  BY <1>1, <1>2 DEF TokenInv, OneServing, Busy
<1>. HIDE DEF t
<1>4. /\ \A q \in Requests : pc'[q] = IF q = r THEN "refreshing" ELSE pc[q]
      /\ \A q \in Requests : serving'[q] = IF q = r THEN "find" ELSE serving[q]
      /\ \A q \in Requests : presented'[q] = IF q = r THEN tokens[t] ELSE presented[q]
  BY <1>1 DEF TokenInv, TokenTypes, FlightInv, FlightTypes
<1>5. TokenTypes'
  <2>1. tokens[t] \in Nat
    BY <1>1 DEF TokenInv, TokenTypes
  <2>. QED
    BY <1>1, <2>1 DEF TokenInv, TokenTypes, Labels
<1>6. OneServing'
  BY <1>1, <1>2, <1>3, <1>4 DEF t, TokenInv, OneServing
<1>7. Belongs'
  BY <1>1, <1>4 DEF t, TokenInv, Belongs
<1>8. Rotation'
  <2>1. live \cap given[t] \subseteq {tokens[t]}
    BY <1>1, <1>3 DEF TokenInv, Rotation
  <2>2. \A u \in Tabs : ~Busy(u)' => ~Busy(u)
    BY <1>4 DEF Busy
  <2>3. \A q \in Requests :
          /\ serving'[q] \in {"find", "revoke"} => live \cap given[Home[q]] \subseteq {presented'[q]}
          /\ serving'[q] = "generate" => live \cap given[Home[q]] = {}
          /\ serving'[q] \in {"link", "answered"} => live \cap given[Home[q]] \subseteq {reply[q]}
    BY <1>4, <2>1 DEF t, TokenInv, Rotation
  <2>4. 1 \in live => issued = 1 /\ \A q \in Requests : serving'[q] # "generate"
    BY <1>4 DEF TokenInv, Rotation
  <2>. QED
    BY <1>1, <2>2, <2>3, <2>4 DEF TokenInv, Rotation
<1>9. incident' \/ Going'
  <2> SUFFICES ASSUME ~incident' PROVE Going'
    OBVIOUS
  <2>1. Going
    BY <1>1 DEF TokenInv
  <2>2. \A u \in Tabs : Won(u) => Won(u)'
    BY <1>1, <1>3, <1>4 DEF t, Won
  <2>3. tokens[t] \in Nat /\ (tokens[t] > 1 => tokens[t] \in live)
    BY <1>1, <1>3, <2>1 DEF Going, TabGoes, TokenInv, TokenTypes
  <2>4. RequestGoes(r)'
    BY <1>1, <1>4, <2>3 DEF t, RequestGoes
  <2>5. ASSUME NEW q \in Requests, q # r PROVE RequestGoes(q)'
    BY <1>1, <1>4, <2>1, <2>2, <2>5 DEF Going, RequestGoes
  <2>6. ASSUME NEW u \in Tabs PROVE TabGoes(u)'
    <3>1. ~Busy(u)' => ~Busy(u)
      BY <1>4 DEF Busy
    <3>2. \A q \in Requests : serving[q] = "refused" => serving'[q] = "refused"
      BY <1>3, <1>4 DEF t
    <3>. QED
      BY <1>1, <2>1, <3>1, <3>2 DEF Going, TabGoes
  <2>. QED
    BY <1>1, <2>1, <2>2, <2>4, <2>5, <2>6 DEF Going
<1>. QED
  BY <1>5, <1>6, <1>7, <1>8, <1>9 DEF TokenInv

\* The refresh of a tab ends, and its requests get label.
LEMMA TokenSettle ==
  ASSUME TokenInv, NEW r \in Requests, pc[r] = "refreshing",
         NEW label \in {"sent", "failed"}, Settle(r, label)
  PROVE  /\ \A q \in Requests : Home[q] = Home[r] => pc'[q] # "refreshing"
         /\ \A q \in Requests : Home[q] # Home[r] => pc'[q] = pc[q]
         /\ \A q \in Requests : pc'[q] = pc[q] \/ pc'[q] = label
         /\ \A q \in Requests : Home[q] = Home[r] /\ serving[q] # "none" => q = r
<1>1. pc' = [q \in Requests |-> IF q \in Waiting(r) THEN label ELSE pc[q]]
  BY DEF Settle
<1>2. \A q \in Requests : q \in Waiting(r) => Home[q] = Home[r]
  <2>1. ToSet(failedQueue[Home[r]]) = {q \in Requests : Home[q] = Home[r] /\ pc[q] = "queued"}
    BY HomeTab DEF TokenInv, FlightInv
  <2>. QED
    BY <2>1 DEF Waiting
<1>3. \A q \in Requests : pc[q] = "refreshing" /\ Home[q] = Home[r] => q = r
  BY DEF TokenInv, FlightInv
<1>4. \A q \in Requests : Home[q] = Home[r] => pc'[q] # "refreshing"
  BY <1>1, <1>3 DEF Waiting
<1>5. \A q \in Requests : Home[q] = Home[r] /\ serving[q] # "none" => q = r
  BY DEF TokenInv, OneServing
<1>. QED
  BY <1>1, <1>2, <1>4, <1>5

LEMMA TokenRefreshed ==
  ASSUME TokenInv, FlightInv', NEW r \in Requests, Refreshed(r)
  PROVE  TokenInv'
<1> DEFINE t == Home[r]
<1>1. /\ t \in Tabs /\ pc[r] = "refreshing" /\ serving[r] = "answered" /\ Settle(r, "sent")
      /\ tokens' = [tokens EXCEPT ![t] = reply[r]]
      /\ serving' = [serving EXCEPT ![r] = "none"]
      /\ presented' = [presented EXCEPT ![r] = 0] /\ reply' = [reply EXCEPT ![r] = 0]
      /\ UNCHANGED <<issued, live, given, incident>>
  BY HomeTab DEF Refreshed
<1>2. /\ \A q \in Requests : Home[q] = t => pc'[q] # "refreshing"
      /\ \A q \in Requests : Home[q] # t => pc'[q] = pc[q]
      /\ \A q \in Requests : pc'[q] = pc[q] \/ pc'[q] = "sent"
      /\ \A q \in Requests : Home[q] = t /\ serving[q] # "none" => q = r
  BY <1>1, TokenSettle
<1>. HIDE DEF t
<1>3. /\ \A q \in Requests : serving'[q] = IF q = r THEN "none" ELSE serving[q]
      /\ \A q \in Requests : presented'[q] = IF q = r THEN 0 ELSE presented[q]
      /\ \A q \in Requests : q # r => reply'[q] = reply[q]
      /\ \A u \in Tabs : tokens'[u] = IF u = t THEN reply[r] ELSE tokens[u]
      /\ TokenTypes'
  BY <1>1 DEF TokenInv, TokenTypes, Labels
<1>4. \A q \in Requests : Home[q] = t => serving'[q] = "none"
  BY <1>2, <1>3 DEF t
<1>5. OneServing'
  BY <1>2, <1>3, <1>4, HomeTab DEF t, TokenInv, OneServing
<1>6. Belongs'
  BY <1>1, <1>3 DEF t, TokenInv, Belongs
<1>7. Rotation'
  <2>1. \A u \in Tabs : u # t /\ ~Busy(u)' => ~Busy(u)
    BY <1>3 DEF t, Busy
  <2>2. live \cap given[t] \subseteq {reply[r]}
    BY <1>1 DEF t, TokenInv, Rotation
  <2>. QED
    BY <1>1, <1>3, <2>1, <2>2 DEF TokenInv, Rotation
<1>8. incident' \/ Going'
  <2> SUFFICES ASSUME ~incident' PROVE Going'
    OBVIOUS
  <2>1. Going
    BY <1>1 DEF TokenInv
  <2>2. reply[r] > 1 /\ reply[r] \in live /\ tokens[t] # 0 /\ reply[r] \in Nat
    BY <1>1, <2>1 DEF t, Going, RequestGoes, TokenInv, Belongs, TokenTypes
  <2>3. \A u \in Tabs : Won(u) => Won(u)'
    <3>1. Won(t)'
      BY <1>1, <1>3, <2>2 DEF Won
    <3>2. ASSUME NEW u \in Tabs, u # t, Won(u) PROVE Won(u)'
      BY <1>3, <3>2 DEF t, Won
    <3>. QED
      BY <3>1, <3>2
  <2>4. ASSUME NEW q \in Requests PROVE RequestGoes(q)'
    <3>1. CASE Home[q] = t
      <4>1. serving'[q] = "none" /\ pc[q] # "failed" /\ (pc[q] = "served" => q \notin Logouts)
        BY <1>4, <2>1, <2>2, <3>1 DEF t, Going, RequestGoes
      <4>. QED
        BY <1>2, <4>1 DEF RequestGoes
    <3>2. CASE Home[q] # t
      <4>1. /\ q # r /\ pc'[q] = pc[q] /\ serving'[q] = serving[q] /\ reply'[q] = reply[q]
            /\ presented'[q] = presented[q] /\ tokens'[Home[q]] = tokens[Home[q]]
        BY <1>2, <1>3, <3>2, HomeTab DEF t
      <4>. QED
        BY <1>1, <2>1, <2>3, <4>1 DEF Going, RequestGoes
    <3>. QED
      BY <3>1, <3>2
  <2>5. ASSUME NEW u \in Tabs PROVE TabGoes(u)'
    <3>1. CASE u = t
      BY <1>1, <1>3, <2>2, <3>1 DEF TabGoes
    <3>2. CASE u # t
      <4>1. /\ tokens'[u] = tokens[u] /\ (~Busy(u)' => ~Busy(u))
            /\ \A q \in Requests : Home[q] = u => serving'[q] = serving[q]
        BY <1>3, <3>2 DEF t, Busy
      <4>. QED
        BY <1>1, <2>1, <4>1 DEF Going, TabGoes
    <3>. QED
      BY <3>1, <3>2
  <2>. QED
    BY <1>1, <2>1, <2>3, <2>4, <2>5 DEF Going
<1>. QED
  BY <1>3, <1>5, <1>6, <1>7, <1>8 DEF TokenInv

LEMMA TokenFailed ==
  ASSUME TokenInv, FlightInv', NEW r \in Requests, RefreshFailed(r)
  PROVE  TokenInv'
<1> DEFINE t == Home[r]
<1>1. /\ t \in Tabs /\ pc[r] = "refreshing" /\ Settle(r, "failed")
      /\ tokens' = [tokens EXCEPT ![t] = 0]
      /\ incident' = (incident \/ serving[r] # "refused")
      /\ UNCHANGED <<serving, presented, reply, issued, live, given>>
  BY HomeTab DEF RefreshFailed, server
<1>2. /\ \A q \in Requests : Home[q] = t => pc'[q] # "refreshing"
      /\ \A q \in Requests : Home[q] # t => pc'[q] = pc[q]
      /\ \A q \in Requests : pc'[q] = pc[q] \/ pc'[q] = "failed"
      /\ \A q \in Requests : Home[q] = t /\ serving[q] # "none" => q = r
  BY <1>1, TokenSettle
<1>. HIDE DEF t
<1>3. TokenTypes' /\ \A u \in Tabs : tokens'[u] = IF u = t THEN 0 ELSE tokens[u]
  BY <1>1 DEF TokenInv, TokenTypes
<1>4. OneServing'
  BY <1>1, <1>2, <1>3, HomeTab DEF t, TokenInv, OneServing
<1>5. Belongs'
  BY <1>1, <1>3 DEF TokenInv, Belongs
<1>6. Rotation'
  BY <1>1, <1>3 DEF TokenInv, Rotation, Busy
<1>7. incident' \/ Going'
  <2> SUFFICES ASSUME ~incident' PROVE Going'
    OBVIOUS
  <2>1. Going /\ serving[r] = "refused"
    BY <1>1 DEF TokenInv
  <2>2. ~Won(t)
    <3>1. tokens[t] \in {0, 1}
      BY <2>1 DEF t, Going, RequestGoes
    <3>. QED
      BY <1>2, <2>1, <3>1 DEF Won
  <2>3. \A u \in Tabs : Won(u) => Won(u)'
    BY <1>1, <1>3, <2>2 DEF Won
  <2>4. ASSUME NEW q \in Requests PROVE RequestGoes(q)'
    <3>1. CASE Home[q] = t
      <4>1. serving[q] \in {"none", "refused"} /\ tokens'[Home[q]] = 0
        BY <1>2, <1>3, <2>1, <3>1, HomeTab
      <4>2. pc'[q] = "served" => q \notin Logouts
        BY <1>2, <2>1 DEF Going, RequestGoes
      <4>3. serving[q] = "refused" => presented[q] = 1 /\ \E u \in Tabs \ {Home[q]} : Won(u)'
        BY <2>1, <2>3 DEF Going, RequestGoes
      <4>. QED
        BY <1>1, <4>1, <4>2, <4>3 DEF RequestGoes
    <3>2. CASE Home[q] # t
      <4>1. pc'[q] = pc[q] /\ tokens'[Home[q]] = tokens[Home[q]]
        BY <1>2, <1>3, <3>2, HomeTab
      <4>. QED
        BY <1>1, <2>1, <2>3, <4>1 DEF Going, RequestGoes
    <3>. QED
      BY <3>1, <3>2
  <2>5. ASSUME NEW u \in Tabs PROVE TabGoes(u)'
    <3>1. CASE u = t
      BY <1>1, <1>3, <2>1, <3>1 DEF t, TabGoes
    <3>2. CASE u # t
      BY <1>1, <1>3, <2>1, <3>2 DEF Going, TabGoes, Busy
    <3>. QED
      BY <3>1, <3>2
  <2>. QED
    BY <1>1, <2>1, <2>3, <2>4, <2>5 DEF Going
<1>. QED
  BY <1>3, <1>4, <1>5, <1>6, <1>7 DEF TokenInv

\* A step of the server with the refresh of r, which issues no pair.
LEMMA TokenServes ==
  ASSUME TokenInv, FlightInv', NEW r \in Requests, NEW label \in Labels \ {"none"},
         serving[r] # "none", Serving(r, label),
         UNCHANGED <<pc, tokens, presented, reply, issued, given>>, live' \subseteq live,
         label = "revoke" => serving[r] = "find",
         label = "generate" => /\ serving[r] \in {"find", "revoke"} /\ presented[r] \notin live'
                               /\ 1 \notin live',
         label \in {"link", "answered"} => serving[r] \in {"link", "answered"},
         label # "find",
         incident' \/ /\ ~incident /\ label # "dead" /\ live \ {presented[r]} \subseteq live'
                      /\ label # "generate" => live' = live
                      /\ label = "refused" => /\ presented[r] = 1 /\ serving[r] = "find"
                                              /\ 1 \notin live
  PROVE  TokenInv'
<1> DEFINE t == Home[r]
<1>0. t \in Tabs
  BY HomeTab
<1>1. /\ \A q \in Requests : serving'[q] = IF q = r THEN label ELSE serving[q]
      /\ \A q \in Requests : Home[q] = t /\ serving[q] # "none" => q = r
      /\ TokenTypes' /\ \A u \in Tabs : Busy(u)' <=> Busy(u)
  BY DEF TokenInv, TokenTypes, OneServing, Serving, Busy
<1>. HIDE DEF t
<1>2. OneServing'
  BY <1>1 DEF TokenInv, OneServing
<1>3. Belongs'
  BY <1>1 DEF TokenInv, Belongs
<1>4. Rotation'
  <2>1. 1 \in live' => issued = 1 /\ \A q \in Requests : serving'[q] # "generate"
    BY <1>1 DEF TokenInv, Rotation
  <2>2. /\ label = "revoke" => live' \cap given[t] \subseteq {presented[r]}
        /\ label = "generate" => live' \cap given[t] = {}
        /\ label \in {"link", "answered"} => live' \cap given[t] \subseteq {reply[r]}
    BY DEF t, TokenInv, Rotation
  <2>. QED
    BY <1>1, <2>1, <2>2 DEF t, TokenInv, Rotation
<1>5. incident' \/ Going'
  <2> SUFFICES ASSUME ~incident' PROVE Going'
    OBVIOUS
  <2>1. Going
    BY DEF TokenInv
  <2>2. \A u \in Tabs : Won(u) => Won(u)'
    <3>1. serving[r] \in {"generate", "link", "answered"} => label \in {"generate", "link", "answered"}
      BY <1>1 DEF Labels, TokenInv, TokenTypes
    <3>. QED
      BY <1>1, <3>1 DEF Won
  <2>3. 1 \in live' \/ \E u \in Tabs : Won(u)'
    <3>1. CASE label = "generate"
      <4>1. Won(t)'
        BY <1>1, <3>1 DEF t, Won
      <4>. QED
        BY <1>0, <4>1
    <3>2. CASE label # "generate"
      BY <2>1, <2>2, <3>2 DEF Going
    <3>. QED
      BY <3>1, <3>2
  <2>4. RequestGoes(r)'
    <3>1. /\ tokens[t] \in Nat /\ (serving[r] # "refused" => presented[r] = tokens[t])
          /\ serving[r] \in {"link", "answered"} => reply[r] \in live
      BY <1>0, <2>1 DEF t, Going, RequestGoes, TokenInv, TokenTypes
    <3>2. CASE label = "refused"
      <4>1. tokens[t] = 1 /\ ~Won(t)
        BY <1>1, <3>1, <3>2 DEF t, Won
      <4>2. PICK u \in Tabs : Won(u)
        BY <2>1, <3>2 DEF Going
      <4>3. u # t /\ Won(u)'
        BY <2>2, <4>1, <4>2
      <4>. QED
        BY <1>1, <2>1, <3>2, <4>1, <4>3 DEF t, Going, RequestGoes
    <3>3. CASE label # "refused"
      <4>1. serving[r] # "refused" /\ label # "dead"
        BY <3>3 DEF Labels
      <4>. QED
        BY <1>1, <2>1, <3>1, <3>3, <4>1 DEF t, Going, RequestGoes
    <3>. QED
      BY <3>2, <3>3
  <2>5. ASSUME NEW q \in Requests, q # r PROVE RequestGoes(q)'
    <3>1. serving'[q] = serving[q]
      BY <1>1, <2>5
    <3>2. serving[q] # "none" => Home[q] # t
      BY <1>1, <2>5
    <3>3. /\ serving[q] \in {"find", "revoke"} /\ presented[q] # 1 => presented[q] # presented[r]
          /\ serving[q] \in {"link", "answered"} => reply[q] # presented[r]
      BY <1>0, <3>2, HomeTab DEF t, TokenInv, Belongs
    <3>. QED
      BY <2>1, <2>2, <3>1, <3>3 DEF Going, RequestGoes
  <2>6. ASSUME NEW u \in Tabs PROVE TabGoes(u)'
    <3>1. ~Busy(u) => u # t
      BY <1>1 DEF t, Busy
    <3>2. tokens[u] > 1 /\ ~Busy(u) => tokens[u] # presented[r]
      BY <1>0, <3>1 DEF t, TokenInv, Belongs
    <3>3. \A q \in Requests : serving[q] = "refused" => serving'[q] = "refused"
      <4>1. serving[r] = "refused" => label = "refused"
        BY DEF Labels
      <4>. QED
        BY <1>1, <4>1
    <3>. QED
      BY <1>1, <2>1, <3>2, <3>3 DEF Going, TabGoes
  <2>. QED
    BY <2>3, <2>4, <2>5, <2>6 DEF Going
<1>. QED
  BY <1>1, <1>2, <1>3, <1>4, <1>5 DEF TokenInv

LEMMA TokenGenerates ==
  ASSUME TokenInv, FlightInv', NEW r \in Requests, GenerateTokens(r)
  PROVE  TokenInv'
<1> DEFINE t == Home[r]
           n == issued + 1
<1>1. /\ t \in Tabs /\ serving[r] = "generate" /\ issued' = n /\ live' = live \cup {n}
      /\ reply' = [reply EXCEPT ![r] = n] /\ serving' = [serving EXCEPT ![r] = "link"]
      /\ given' = [given EXCEPT ![t] = given[t] \cup {n}]
      /\ UNCHANGED <<pc, tokens, presented, incident>>
  BY HomeTab DEF GenerateTokens, Serving, client
<1>2. /\ issued \in Nat \ {0} /\ n \in Nat /\ n > 1 /\ n > issued
      /\ \A u \in Tabs : n \notin given[u] /\ tokens[u] # n
      /\ \A q \in Requests : presented[q] # n
  BY HomeTab DEF TokenInv, TokenTypes, Belongs
<1>. HIDE DEF n, t
<1>3. /\ \A q \in Requests : serving'[q] = IF q = r THEN "link" ELSE serving[q]
      /\ \A q \in Requests : reply'[q] = IF q = r THEN n ELSE reply[q]
      /\ \A u \in Tabs : given'[u] = IF u = t THEN given[t] \cup {n} ELSE given[u]
      /\ \A q \in Requests : Home[q] = t /\ serving[q] # "none" => q = r
      /\ TokenTypes' /\ \A u \in Tabs : Busy(u)' <=> Busy(u)
  BY <1>1, <1>2 DEF t, TokenInv, TokenTypes, OneServing, Labels, Busy
<1>4. OneServing'
  BY <1>1, <1>3 DEF TokenInv, OneServing
<1>5. Belongs'
  <2>1. \A u \in Tabs : \A g \in given'[u] : g > 1 /\ g <= issued'
    BY <1>1, <1>2, <1>3 DEF TokenInv, Belongs, TokenTypes
  <2>2. \A u, w \in Tabs : \A g \in given'[u] : g \in given'[w] => u = w
    BY <1>2, <1>3 DEF TokenInv, Belongs
  <2>3. \A u \in Tabs : given[u] \subseteq given'[u]
    BY <1>3
  <2>4. n \in given'[t]
    BY <1>1, <1>3
  <2>. QED
    BY <1>1, <1>3, <2>1, <2>2, <2>3, <2>4, HomeTab DEF t, TokenInv, Belongs
<1>6. Rotation'
  <2>1. live \cap given[t] = {} /\ 1 \notin live
    BY <1>1 DEF t, TokenInv, Rotation
  <2>2. /\ live' \cap given'[t] = {n}
        /\ \A u \in Tabs : u # t => live' \cap given'[u] = live \cap given[u]
    BY <1>1, <1>2, <1>3, <2>1
  <2>3. 1 \notin live'
    BY <1>1, <1>2, <2>1
  <2>4. Busy(t)'
    BY <1>1, <1>3 DEF t, Busy
  <2>5. \A q \in Requests : Home[q] = t /\ q # r => serving'[q] = "none"
    BY <1>3
  <2>6. \A u \in Tabs : \A g, h \in live' \cap given'[u] : g = h
    BY <2>2 DEF TokenInv, Rotation
  <2>7. \A u \in Tabs : ~Busy(u)' /\ tokens'[u] # 0 => live' \cap given'[u] \subseteq {tokens'[u]}
    BY <1>1, <1>3, <2>2, <2>4 DEF TokenInv, Rotation
  <2>8. ASSUME NEW q \in Requests
        PROVE  /\ serving'[q] \in {"find", "revoke"} =>
                    live' \cap given'[Home[q]] \subseteq {presented'[q]}
               /\ serving'[q] = "generate" => live' \cap given'[Home[q]] = {}
               /\ serving'[q] \in {"link", "answered"} =>
                    live' \cap given'[Home[q]] \subseteq {reply'[q]}
    <3>1. CASE q = r
      BY <1>3, <2>2, <3>1 DEF t
    <3>2. CASE q # r /\ Home[q] = t
      BY <2>5, <3>2
    <3>3. CASE q # r /\ Home[q] # t
      BY <1>1, <1>3, <2>2, <3>3, HomeTab DEF TokenInv, Rotation
    <3>. QED
      BY <3>1, <3>2, <3>3
  <2>. QED
    BY <2>3, <2>6, <2>7, <2>8 DEF Rotation
<1>7. incident' \/ Going'
  <2> SUFFICES ASSUME ~incident' PROVE Going'
    OBVIOUS
  <2>1. Going
    BY <1>1 DEF TokenInv
  <2>2. \A u \in Tabs : Won(u) => Won(u)'
    BY <1>1, <1>3 DEF Won
  <2>3. Won(t)'
    BY <1>3 DEF t, Won
  <2>4. \A q \in Requests : RequestGoes(q)'
    BY <1>1, <1>3, <2>1, <2>2 DEF Going, RequestGoes
  <2>5. \A u \in Tabs : TabGoes(u)'
    BY <1>1, <1>3, <2>1 DEF Going, TabGoes
  <2>. QED
    BY <1>1, <2>3, <2>4, <2>5 DEF Going
<1>. QED
  BY <1>3, <1>4, <1>5, <1>6, <1>7 DEF TokenInv

LEMMA TokenServer ==
  ASSUME TokenInv, FlightInv', NEW r \in Requests,
         FindToken(r) \/ RevokeToken(r) \/ LinkTokens(r) \/ ServerDies(r)
  PROVE  TokenInv'
<1>1. CASE FindToken(r)
  <2>1. /\ serving[r] = "find"
        /\ UNCHANGED <<pc, tokens, presented, issued, reply, live, given, incident>>
    BY <1>1 DEF FindToken, client
  <2>2. CASE presented[r] \in live
    <3>1. Serving(r, "revoke")
      BY <1>1, <2>2 DEF FindToken
    <3>. QED
      BY <2>1, <3>1, TokenServes DEF Labels
  <2>3. CASE presented[r] \notin live
    <3>1. Serving(r, "refused")
      BY <1>1, <2>3 DEF FindToken
    <3>2. incident \/ presented[r] = 1
      BY <2>1, <2>3 DEF TokenInv, Going, RequestGoes
    <3>. QED
      BY <2>1, <2>3, <3>1, <3>2, TokenServes DEF Labels
  <2>. QED
    BY <2>2, <2>3
<1>2. CASE RevokeToken(r)
  <2>1. /\ serving[r] = "revoke" /\ Serving(r, "generate") /\ live' = live \ {presented[r]}
        /\ UNCHANGED <<pc, tokens, presented, issued, reply, given, incident>>
    BY <1>2 DEF RevokeToken, Without, client
  <2>2. 1 \notin live'
    <3>1. CASE 1 \in live
      <4>1. issued = 1
        BY <3>1 DEF TokenInv, Rotation
      <4>2. given[Home[r]] = {}
        BY <4>1, HomeTab DEF TokenInv, Belongs, TokenTypes
      <4>3. presented[r] = 1
        BY <2>1, <4>2 DEF TokenInv, Belongs
      <4>. QED
        BY <2>1, <4>3
    <3>2. CASE 1 \notin live
      BY <2>1, <3>2
    <3>. QED
      BY <3>1, <3>2
  <2>. QED
    BY <2>1, <2>2, TokenServes DEF Labels
<1>3. CASE LinkTokens(r)
  <2>1. /\ serving[r] = "link" /\ Serving(r, "answered")
        /\ UNCHANGED <<pc, tokens, presented, issued, reply, live, given, incident>>
    BY <1>3 DEF LinkTokens, client
  <2>. QED
    BY <2>1, TokenServes DEF Labels
<1>4. CASE ServerDies(r)
  <2>1. /\ serving[r] # "none" /\ Serving(r, "dead") /\ incident'
        /\ UNCHANGED <<pc, tokens, presented, issued, reply, live, given>>
    BY <1>4 DEF ServerDies, client
  <2>. QED
    BY <2>1, TokenServes DEF Labels
<1>. QED
  BY <1>1, <1>2, <1>3, <1>4

LEMMA TokenRequest ==
  ASSUME TokenInv, FlightInv', NEW r \in Requests,
         \/ Send(r) \/ Serve(r) \/ Answered(r) \/ Lost(r) \/ Enqueue(r) \/ NoRefreshToken(r)
  PROVE  TokenInv'
<1>0. /\ AfterLogout(r) = tokens \/ AfterLogout(r) = [tokens EXCEPT ![Home[r]] = 0]
      /\ r \notin Logouts => AfterLogout(r) = tokens
      /\ pc[r] = "served" => incident \/ r \notin Logouts
  BY DEF TokenInv, AfterLogout, Going, RequestGoes
<1>1. CASE Send(r)
  <2>1. /\ pc[r] = "idle"
        /\ UNCHANGED <<tokens, serving, presented, reply, issued, given, live, incident>>
    BY <1>1 DEF Send, server
  <2>2. Goto(r, "done") \/ Goto(r, "sent")
    <3>1. CASE r \in Logouts /\ tokens[Home[r]] = 0
      BY <1>1, <3>1 DEF Send
    <3>2. CASE ~(r \in Logouts /\ tokens[Home[r]] = 0)
      BY <1>1, <3>2 DEF Send
    <3>. QED
      BY <3>1, <3>2
  <2>. QED
    BY <2>1, <2>2, TokenMoves DEF Steps, Settled
<1>2. CASE Serve(r)
  <2>1. /\ pc[r] = "sent" /\ Goto(r, "served")
        /\ UNCHANGED <<tokens, serving, presented, reply, issued, given>>
        /\ live' \subseteq live /\ (r \notin Logouts => live' = live)
        /\ incident' = (incident \/ r \in Logouts)
    BY <1>2 DEF Serve
  <2>. QED
    BY <2>1, TokenMoves DEF Steps
<1>3. CASE Answered(r)
  <2>1. /\ pc[r] = "served" /\ Goto(r, "done") /\ tokens' = AfterLogout(r)
        /\ UNCHANGED <<serving, presented, reply, issued, given, live, incident>>
    BY <1>3 DEF Answered, server
  <2>. QED
    BY <1>0, <2>1, TokenMoves DEF Steps, Settled
<1>4. CASE Lost(r)
  <2>1. /\ pc[r] # "refreshing" /\ Goto(r, "failed") /\ tokens' = AfterLogout(r) /\ incident'
        /\ UNCHANGED <<serving, presented, reply, issued, given, live>>
    BY <1>4 DEF Lost, server
  <2>. QED
    BY <1>0, <2>1, TokenMoves DEF Steps, Settled
<1>5. CASE Enqueue(r)
  <2>1. /\ pc[r] = "sent" /\ Goto(r, "queued")
        /\ UNCHANGED <<tokens, serving, presented, reply, issued, given, live, incident>>
    BY <1>5 DEF Enqueue, Unauthorized, server
  <2>. QED
    BY <2>1, TokenMoves DEF Steps
<1>6. CASE NoRefreshToken(r)
  <2>1. /\ pc[r] = "sent" /\ tokens[Home[r]] = 0 /\ Goto(r, "failed")
        /\ UNCHANGED <<tokens, serving, presented, reply, issued, given, live, incident>>
    BY <1>6 DEF NoRefreshToken, Unauthorized, server
  <2>. QED
    BY <2>1, TokenMoves DEF Steps, Settled
<1>. QED
  BY <1>1, <1>2, <1>3, <1>4, <1>5, <1>6

LEMMA TokenOther ==
  ASSUME TokenInv, FlightInv',
         \/ \E g \in 1..issued : Expire(g)
         \/ RevokeAll \/ AllSettled \/ UNCHANGED vars
  PROVE  TokenInv'
<1>1. CASE RevokeAll
  <2>1. /\ live' = {} /\ incident'
        /\ UNCHANGED <<pc, tokens, serving, presented, reply, issued, given>>
    BY <1>1 DEF RevokeAll, client
  <2>. QED
    BY <2>1 DEF TokenInv, TokenTypes, OneServing, Belongs, Rotation, Busy
<1>2. CASE ~RevokeAll
  <2>1. UNCHANGED <<pc, tokens, serving, presented, reply, issued, given, live, incident>>
    BY <1>2 DEF Expire, AllSettled, vars, client, server
  <2>. QED
    BY <2>1 DEF TokenInv, TokenTypes, OneServing, Belongs, Rotation, Busy, Going, RequestGoes,
                TabGoes, Won
<1>. QED
  BY <1>1, <1>2

LEMMA TokensHold == Spec => []TokenInv
<1>1. Init => TokenInv
  <2> SUFFICES ASSUME Init PROVE TokenInv
    OBVIOUS
  <2>1. FlightInv
    BY FlightInit
  <2>2. TokenTypes /\ OneServing /\ Belongs /\ Rotation
    BY DEF Init, TokenTypes, OneServing, Belongs, Rotation, Busy, Labels
  <2>3. Going
    BY HomeTab DEF Init, Going, RequestGoes, TabGoes
  <2>. QED
    BY <2>1, <2>2, <2>3 DEF TokenInv
<1>2. TokenInv /\ [Next]_vars => TokenInv'
  <2> SUFFICES ASSUME TokenInv, [Next]_vars PROVE TokenInv'
    OBVIOUS
  <2>1. FlightInv'
    BY FlightStep DEF TokenInv
  <2>2. ASSUME NEW r \in Requests,
               \/ Send(r) \/ Serve(r) \/ Answered(r) \/ Lost(r) \/ Enqueue(r) \/ NoRefreshToken(r)
        PROVE  TokenInv'
    BY <2>1, <2>2, TokenRequest
  <2>3. ASSUME NEW r \in Requests, StartRefresh(r) PROVE TokenInv'
    BY <2>1, <2>3, TokenStart
  <2>4. ASSUME NEW r \in Requests, Refreshed(r) PROVE TokenInv'
    BY <2>1, <2>4, TokenRefreshed
  <2>5. ASSUME NEW r \in Requests, RefreshFailed(r) PROVE TokenInv'
    BY <2>1, <2>5, TokenFailed
  <2>6. ASSUME NEW r \in Requests, FindToken(r) \/ RevokeToken(r) \/ LinkTokens(r) \/ ServerDies(r)
        PROVE  TokenInv'
    BY <2>1, <2>6, TokenServer
  <2>7. ASSUME NEW r \in Requests, GenerateTokens(r) PROVE TokenInv'
    BY <2>1, <2>7, TokenGenerates
  <2>8. ASSUME \/ \E g \in 1..issued : Expire(g)
               \/ RevokeAll \/ AllSettled \/ UNCHANGED vars
        PROVE  TokenInv'
    BY <2>1, <2>8, TokenOther
  <2>. QED
    BY <2>2, <2>3, <2>4, <2>5, <2>6, <2>7, <2>8 DEF Next, Progress
<1>. QED
  BY <1>1, <1>2, PTL DEF Spec

(* "Rotated on use" (README.md): the first token of a session cannot be    *)
(* used once it is replaced, and of those a tab was given at most one can, *)
(* for any number of tabs, whenever the server dies, a call is lost or the *)
(* user logs out (refreshTokens, generateTokens).                          *)
THEOREM RotatedPerTab == Spec => []RotatedOnUse
<1>1. TokenInv => RotatedOnUse
  <2> SUFFICES ASSUME TokenInv, NEW t \in Tabs
               PROVE  Cardinality(live \cap given[t]) <= 1
    BY DEF RotatedOnUse, TokenInv, Rotation
  <2>1. CASE live \cap given[t] = {}
    BY <2>1, FS_EmptySet
  <2>2. CASE live \cap given[t] # {}
    <3>1. PICK g : g \in live \cap given[t]
      BY <2>2
    <3>2. live \cap given[t] = {g}
      BY <3>1 DEF TokenInv, Rotation
    <3>3. Cardinality({g}) = 1
      BY FS_Singleton
    <3>. QED
      BY <3>2, <3>3
  <2>. QED
    BY <2>1, <2>2
<1>. QED
  BY <1>1, TokensHold, PTL

(* A session is not ended by its own traffic: as long as nothing is lost   *)
(* and nobody is logged out, a tab keeps its tokens and none of its        *)
(* requests fails, unless another tab was first with the token they share, *)
(* which then goes on itself (the response interceptor, refreshTokens).    *)
THEOREM SessionKeptInTabs == Spec => []SessionKept
<1>1. TokenInv => SessionKept
  <2> SUFFICES ASSUME TokenInv, ~incident, NEW t \in Tabs
               PROVE  \/ tokens[t] # 0 /\ \A r \in Requests : Home[r] = t => pc[r] # "failed"
                      \/ Outrun(t)
    BY DEF SessionKept
  <2>1. Going
    BY DEF TokenInv
  <2>2. CASE tokens[t] # 0
    BY <2>1, <2>2 DEF Going, RequestGoes
  <2>3. CASE tokens[t] = 0
    <3>1. PICK r \in Requests : Home[r] = t /\ serving[r] = "refused"
      BY <2>1, <2>3 DEF Going, TabGoes
    <3>2. presented[r] = 1 /\ \E u \in Tabs \ {t} : Won(u)
      BY <2>1, <3>1 DEF Going, RequestGoes
    <3>. QED
      BY <3>1, <3>2 DEF Outrun, Won
  <2>. QED
    BY <2>2, <2>3
<1>. QED
  BY <1>1, TokensHold, PTL

-----------------------------------------------------------------------------
(* The types.                                                              *)

ServerTypes ==
  /\ issued \in Nat \ {0}
  /\ tokens \in [Tabs -> 0..issued]
  /\ carried \in [Requests -> 0..issued] /\ body \in [Requests -> 0..issued]
  /\ presented \in [Requests -> 0..issued] /\ reply \in [Requests -> 0..issued]
  /\ expired \subseteq 1..issued /\ live \subseteq 1..issued
  /\ replacedBy \in Seq(0..issued) /\ Len(replacedBy) = issued
  /\ given \in [Tabs -> SUBSET (1..issued)]

MarkTypes ==
  /\ serving \in [Requests -> Labels]
  /\ elsewhere \in BOOLEAN /\ reset \in BOOLEAN
  /\ incident \in BOOLEAN /\ midway \in BOOLEAN

\* A table of tokens in which a row is written, or none.
LEMMA RowWritten ==
  ASSUME NEW D, NEW S, NEW f \in [D -> S], NEW x \in D, NEW g \in S
  PROVE  [f EXCEPT ![x] = g] \in [D -> S]
  OBVIOUS

\* One place of a sequence is written, or none where there is no such place.
LEMMA PlaceWritten ==
  ASSUME NEW S, NEW s \in Seq(S), NEW k, NEW g \in S
  PROVE  [s EXCEPT ![k] = g] \in Seq(S) /\ Len([s EXCEPT ![k] = g]) = Len(s)
<1> DEFINE n == Len(s)  e == [s EXCEPT ![k] = g]
<1>1. n \in Nat /\ s \in [1..n -> S]
  OBVIOUS
<1>2. e \in [1..n -> S]
  BY <1>1
<1>. HIDE DEF n, e
<1>3. e \in Seq(S) /\ Len(e) = n
  BY <1>1, <1>2
<1>. QED
  BY <1>3 DEF e, n

LEMMA GenerateTyped ==
  ASSUME ServerTypes, NEW r \in Requests, GenerateTokens(r)
  PROVE  ServerTypes'
<1>1. /\ issued' = issued + 1 /\ live' = live \cup {issued + 1}
      /\ replacedBy' = Append(replacedBy, 0) /\ reply' = [reply EXCEPT ![r] = issued + 1]
      /\ UNCHANGED <<tokens, carried, body, presented, expired>>
  BY DEF GenerateTokens, client
<1>2. /\ issued \in Nat \ {0} /\ issued' \in Nat \ {0} /\ issued' \in 0..issued' /\ 0 \in 0..issued'
      /\ 0..issued \subseteq 0..issued' /\ 1..issued \subseteq 1..issued' /\ issued' \in 1..issued'
  BY <1>1 DEF ServerTypes
<1>3. /\ tokens' \in [Tabs -> 0..issued'] /\ carried' \in [Requests -> 0..issued']
      /\ body' \in [Requests -> 0..issued'] /\ presented' \in [Requests -> 0..issued']
  BY <1>1, <1>2 DEF ServerTypes
<1>4. reply' \in [Requests -> 0..issued']
  BY <1>1, <1>2 DEF ServerTypes
<1>5. expired' \subseteq 1..issued' /\ live' \subseteq 1..issued'
  BY <1>1, <1>2 DEF ServerTypes
<1>6. replacedBy' \in Seq(0..issued') /\ Len(replacedBy') = issued'
  <2>1. replacedBy \in Seq(0..issued')
    <3>1. PICK S, T : S = 0..issued /\ T = 0..issued'
      OBVIOUS
    <3>2. replacedBy \in Seq(S) /\ S \subseteq T
      BY <1>2, <3>1 DEF ServerTypes
    <3>3. replacedBy \in Seq(T)
      BY <3>2
    <3>. QED
      BY <3>1, <3>3
  <2>. QED
    BY <1>1, <1>2, <2>1 DEF ServerTypes
<1>7. given' \in [Tabs -> SUBSET (1..issued')]
  <2>1. given' = [given EXCEPT ![Home[r]] = given[Home[r]] \cup {issued + 1}] /\ Home[r] \in Tabs
    BY SessionAssumption DEF GenerateTokens
  <2>2. given \in [Tabs -> SUBSET (1..issued')]
    BY <1>2 DEF ServerTypes
  <2>3. given[Home[r]] \cup {issued + 1} \in SUBSET (1..issued')
    BY <1>1, <1>2, <2>1, <2>2
  <2>. QED
    BY <2>1, <2>2, <2>3, RowWritten
<1>. QED
  BY <1>2, <1>3, <1>4, <1>5, <1>6, <1>7 DEF ServerTypes

\* A step that issues no pair.
LEMMA OtherTyped ==
  ASSUME ServerTypes, [Next]_vars, ~\E r \in Requests : GenerateTokens(r)
  PROVE  ServerTypes'
<1>0. /\ issued \in Nat \ {0} /\ 0 \in 0..issued
      /\ \A t \in Tabs : tokens[t] \in 0..issued
      /\ \A r \in Requests : reply[r] \in 0..issued /\ Home[r] \in Tabs
  BY SessionAssumption DEF ServerTypes
<1>1. issued' = issued
  BY DEF Next, Progress, Send, Serve, Answered, Lost, Enqueue, StartRefresh, NoRefreshToken,
         Refreshed, RefreshFailed, FindToken, RevokeToken, LinkTokens, ServerDies, Expire,
         RevokeAll, AllSettled, server, vars
<1>2. tokens' \in [Tabs -> 0..issued]
  <2>1. \/ tokens' = tokens
        \/ \E r \in Requests : tokens' = [tokens EXCEPT ![Home[r]] = 0]
        \/ \E r \in Requests : tokens' = [tokens EXCEPT ![Home[r]] = reply[r]]
    BY DEF Next, Progress, Send, Serve, Answered, AfterLogout, Lost, Enqueue, StartRefresh,
           NoRefreshToken, Refreshed, RefreshFailed, FindToken, RevokeToken, LinkTokens,
           ServerDies, Expire, RevokeAll, AllSettled, client, vars
  <2>2. tokens \in [Tabs -> 0..issued]
    BY DEF ServerTypes
  <2>. QED
    BY <1>0, <2>1, <2>2, RowWritten
<1>3. carried' \in [Requests -> 0..issued]
  <2>1. \/ carried' = carried
        \/ \E r \in Requests : carried' = [carried EXCEPT ![r] = 0]
        \/ \E r \in Requests : carried' = [carried EXCEPT ![r] = tokens[Home[r]]]
        \/ \E r \in Requests :
             carried' = [q \in Requests |-> IF q \in Waiting(r) THEN reply[r] ELSE carried[q]]
    BY DEF Next, Progress, Send, Serve, Answered, Forget, Lost, Enqueue, StartRefresh,
           NoRefreshToken, Refreshed, RefreshFailed, FindToken, RevokeToken, LinkTokens,
           ServerDies, Expire, RevokeAll, AllSettled, client, vars
  <2>2. \A r \in Requests :
          [q \in Requests |-> IF q \in Waiting(r) THEN reply[r] ELSE carried[q]]
            \in [Requests -> 0..issued]
    BY <1>0 DEF ServerTypes
  <2>3. carried \in [Requests -> 0..issued]
    BY DEF ServerTypes
  <2>. QED
    BY <1>0, <2>1, <2>2, <2>3, RowWritten
<1>4. body' \in [Requests -> 0..issued]
  <2>1. \/ body' = body
        \/ \E r \in Requests : \E g \in 0..issued : body' = [body EXCEPT ![r] = g]
    BY <1>0 DEF Next, Progress, Send, Serve, Answered, Forget, Lost, Enqueue, StartRefresh,
                NoRefreshToken, Refreshed, RefreshFailed, FindToken, RevokeToken, LinkTokens,
                ServerDies, Expire, RevokeAll, AllSettled, client, vars
  <2>2. body \in [Requests -> 0..issued]
    BY DEF ServerTypes
  <2>. QED
    BY <2>1, <2>2, RowWritten
<1>5. presented' \in [Requests -> 0..issued]
  <2>1. \/ presented' = presented
        \/ \E r \in Requests : \E g \in 0..issued : presented' = [presented EXCEPT ![r] = g]
    BY <1>0 DEF Next, Progress, Send, Serve, Answered, Lost, Enqueue, StartRefresh,
                NoRefreshToken, Refreshed, RefreshFailed, FindToken, RevokeToken, LinkTokens,
                ServerDies, Expire, RevokeAll, AllSettled, server, vars
  <2>2. presented \in [Requests -> 0..issued]
    BY DEF ServerTypes
  <2>. QED
    BY <2>1, <2>2, RowWritten
<1>6. reply' \in [Requests -> 0..issued]
  <2>1. \/ reply' = reply
        \/ \E r \in Requests : reply' = [reply EXCEPT ![r] = 0]
    BY DEF Next, Progress, Send, Serve, Answered, Lost, Enqueue, StartRefresh, NoRefreshToken,
           Refreshed, RefreshFailed, FindToken, RevokeToken, LinkTokens, ServerDies, Expire,
           RevokeAll, AllSettled, server, vars
  <2>2. reply \in [Requests -> 0..issued]
    BY DEF ServerTypes
  <2>. QED
    BY <1>0, <2>1, <2>2, RowWritten
<1>7. expired' \subseteq 1..issued /\ live' \subseteq 1..issued
  <2>1. expired' = expired \/ \E g \in 1..issued : expired' = expired \cup {g}
    BY DEF Next, Progress, Send, Serve, Answered, Lost, Enqueue, StartRefresh, NoRefreshToken,
           Refreshed, RefreshFailed, FindToken, RevokeToken, LinkTokens, ServerDies, Expire,
           RevokeAll, AllSettled, server, vars
  <2>2. live' \subseteq live
    BY DEF Next, Progress, Send, Serve, Answered, Lost, Enqueue, StartRefresh, NoRefreshToken,
           Refreshed, RefreshFailed, FindToken, RevokeToken, Without, LinkTokens, ServerDies,
           Expire, RevokeAll, AllSettled, server, vars
  <2>. QED
    BY <2>1, <2>2 DEF ServerTypes
<1>8. replacedBy' \in Seq(0..issued) /\ Len(replacedBy') = issued
  <2>1. \/ replacedBy' = replacedBy
        \/ \E r \in Requests : replacedBy' = [replacedBy EXCEPT ![presented[r]] = reply[r]]
    BY DEF Next, Progress, Send, Serve, Answered, Lost, Enqueue, StartRefresh, NoRefreshToken,
           Refreshed, RefreshFailed, FindToken, RevokeToken, LinkTokens, ServerDies, Expire,
           RevokeAll, AllSettled, server, vars
  <2>2. ASSUME NEW k, NEW g \in 0..issued
        PROVE  /\ [replacedBy EXCEPT ![k] = g] \in Seq(0..issued)
               /\ Len([replacedBy EXCEPT ![k] = g]) = issued
    <3> DEFINE S == 0..issued
    <3>1. replacedBy \in Seq(S) /\ Len(replacedBy) = issued /\ g \in S
      BY <2>2 DEF ServerTypes
    <3>. HIDE DEF S
    <3>2. [replacedBy EXCEPT ![k] = g] \in Seq(S) /\ Len([replacedBy EXCEPT ![k] = g]) = issued
      BY <3>1, PlaceWritten
    <3>. QED
      BY <3>2 DEF S
  <2>3. CASE replacedBy' = replacedBy
    BY <2>3 DEF ServerTypes
  <2>4. ASSUME NEW r \in Requests, replacedBy' = [replacedBy EXCEPT ![presented[r]] = reply[r]]
        PROVE  replacedBy' \in Seq(0..issued) /\ Len(replacedBy') = issued
    BY <1>0, <2>2, <2>4
  <2>. QED
    BY <2>1, <2>3, <2>4
<1>9. given' = given
  BY DEF Next, Progress, Send, Serve, Answered, Lost, Enqueue, StartRefresh, NoRefreshToken,
         Refreshed, RefreshFailed, FindToken, RevokeToken, LinkTokens, ServerDies, Expire,
         RevokeAll, AllSettled, vars
<1>. QED
  BY <1>0, <1>1, <1>2, <1>3, <1>4, <1>5, <1>6, <1>7, <1>8, <1>9 DEF ServerTypes

LEMMA MarksTyped ==
  ASSUME MarkTypes, [Next]_vars
  PROVE  MarkTypes'
<1>1. serving' \in [Requests -> Labels]
  <2>1. \/ serving' = serving
        \/ \E r \in Requests, label \in Labels : serving' = [serving EXCEPT ![r] = label]
    BY DEF Next, Progress, Send, Serve, Answered, Lost, Enqueue, StartRefresh, NoRefreshToken,
           Refreshed, RefreshFailed, FindToken, RevokeToken, GenerateTokens, LinkTokens,
           ServerDies, Expire, RevokeAll, AllSettled, Serving, Labels, server, vars
  <2>. QED
    BY <2>1 DEF MarkTypes
<1>2. elsewhere' \in BOOLEAN /\ reset' \in BOOLEAN /\ midway' \in BOOLEAN
  <2>1. \/ UNCHANGED account
        \/ RevokeAll
    BY DEF Next, Progress, Send, Serve, Answered, Lost, Enqueue, StartRefresh, NoRefreshToken,
           Refreshed, RefreshFailed, FindToken, RevokeToken, GenerateTokens, LinkTokens,
           ServerDies, Expire, AllSettled, vars
  <2>. QED
    BY <2>1 DEF MarkTypes, account, RevokeAll
<1>3. incident' \in BOOLEAN
  <2>1. \/ incident' = incident \/ incident' = TRUE
        \/ \E x : incident' = (incident \/ x)
    BY DEF Next, Progress, Send, Serve, Answered, Lost, Enqueue, StartRefresh, NoRefreshToken,
           Refreshed, RefreshFailed, FindToken, RevokeToken, GenerateTokens, LinkTokens,
           ServerDies, Expire, RevokeAll, AllSettled, vars
  <2>. QED
    BY <2>1 DEF MarkTypes
<1>. QED
  BY <1>1, <1>2, <1>3 DEF MarkTypes

(* Types hold in every reachable state, for any number of tabs, requests   *)
(* and refreshes: a token that is stored, sent, presented or revoked is    *)
(* one that was issued, and every pair has its place for the next.         *)
THEOREM SessionTyping == Spec => []TypeOK
<1>1. Init => ServerTypes /\ MarkTypes
  <2> SUFFICES ASSUME Init PROVE ServerTypes /\ MarkTypes
    OBVIOUS
  <2>1. <<0>> \in Seq(0..1) /\ Len(<<0>>) = 1 /\ 1 \in 0..1 /\ 0 \in 0..1 /\ 1 \in 1..1
    OBVIOUS
  <2>2. ServerTypes
    BY <2>1 DEF Init, ServerTypes
  <2>. QED
    BY <2>2 DEF Init, MarkTypes, Labels
<1>2. ServerTypes /\ MarkTypes /\ [Next]_vars => (ServerTypes /\ MarkTypes)'
  BY GenerateTyped, OtherTyped, MarksTyped
<1>3. FlightInv /\ ServerTypes /\ MarkTypes => TypeOK
  BY DEF FlightInv, FlightTypes, ServerTypes, MarkTypes, TypeOK, Steps, Labels
<1>. QED
  BY <1>1, <1>2, <1>3, FlightHolds, PTL DEF Spec
=============================================================================
