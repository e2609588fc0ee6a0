------------------------------ MODULE Session ------------------------------
(***************************************************************************)
(* A signed-in session: the browser's API client, which answers a 401 by   *)
(* refreshing the tokens once for all the requests that got one, and the   *)
(* auth service, which rotates the refresh token.                          *)
(*                                                                         *)
(* Access and refresh tokens are issued in pairs; a pair is a number, in   *)
(* the order of issue, and 0 is no pair.  The tabs were opened with the    *)
(* pair of one login; each refreshes by itself.  The user has signed in on *)
(* another device too, and may reset the password, which ends them all.    *)
(***************************************************************************)
EXTENDS Naturals, SequencesExt

CONSTANTS
  Tabs,        \* browser tabs, each with its own store of tokens
  Requests,
  Home,        \* Home[r]: the tab that makes request r
  Logouts,     \* the requests that are logouts
  Lossy,       \* whether calls may fail and the server may die
  MaxExpired   \* bound: access tokens that expire

ASSUME SessionAssumption ==
  /\ Home \in [Requests -> Tabs]
  /\ Logouts \subseteq Requests
  /\ Lossy \in BOOLEAN
  /\ MaxExpired \in Nat

VARIABLES
  \* The tabs.
  tokens,        \* the pair in the tab's auth store
  isRefreshing,
  failedQueue,   \* requests that wait for the refresh under way
  pc,            \* where each request is
  carried,       \* access token it was last sent with
  body,          \* refresh token in the body of a logout
  \* The server.
  issued,        \* pairs issued so far
  expired,       \* access tokens that have expired
  live,          \* refresh tokens that are not revoked
  replacedBy,    \* replacedBy[g]: the pair that replaced pair g
  serving,       \* the server's progress with the refresh of each request
  presented,     \* the refresh token in it
  reply,         \* the pair issued for it
  elsewhere,     \* the refresh token of another device can be used
  reset,         \* a password reset has revoked the user's tokens
  \* History.
  given,         \* given[t]: the pairs issued to tab t
  incident,      \* a call was lost, the server died, or a session was ended
  midway         \* a refresh was under way when the reset revoked the tokens

client == <<tokens, isRefreshing, failedQueue, pc, carried, body>>
server == <<issued, expired, live, replacedBy, serving, presented, reply>>
account == <<elsewhere, reset, midway>>
vars   == <<client, server, account, given, incident>>

Settled == {"done", "failed"}

Init ==
  /\ tokens = [t \in Tabs |-> 1]
  /\ isRefreshing = [t \in Tabs |-> FALSE]
  /\ failedQueue = [t \in Tabs |-> <<>>]
  /\ pc = [r \in Requests |-> "idle"]
  /\ carried = [r \in Requests |-> 0]
  /\ body = [r \in Requests |-> 0]
  /\ issued = 1
  /\ expired = {}
  /\ live = {1}
  /\ replacedBy = <<0>>
  /\ serving = [r \in Requests |-> "none"]
  /\ presented = [r \in Requests |-> 0]
  /\ reply = [r \in Requests |-> 0]
  /\ elsewhere = TRUE /\ reset = FALSE
  /\ given = [t \in Tabs |-> {}]
  /\ incident = FALSE /\ midway = FALSE

Goto(r, label) == pc' = [pc EXCEPT ![r] = label]

\* Nothing reads what a settled request was sent with.
Forget(r) == /\ carried' = [carried EXCEPT ![r] = 0]
             /\ body' = [body EXCEPT ![r] = 0]

Valid(g) == g \in 1..issued \ expired

-----------------------------------------------------------------------------
(* Requests.                                                               *)

\* The request interceptor adds the access token the store holds.  A logout
\* sends the refresh token, and is over at once if there is none.
Send(r) ==
  /\ pc[r] = "idle"
  /\ Goto(r, IF r \in Logouts /\ tokens[Home[r]] = 0 THEN "done" ELSE "sent")
  /\ carried' = [carried EXCEPT ![r] = tokens[Home[r]]]
  /\ body' = [body EXCEPT ![r] = IF r \in Logouts THEN tokens[Home[r]] ELSE 0]
  /\ UNCHANGED <<account, given, tokens, isRefreshing, failedQueue, server, incident>>

\* The server handles a request; a logout revokes the token in its body.
Serve(r) ==
  /\ pc[r] = "sent" /\ Valid(carried[r])
  /\ Goto(r, "served")
  /\ live' = IF r \in Logouts THEN live \ {body[r]} ELSE live
  /\ incident' = (incident \/ r \in Logouts)
  /\ UNCHANGED <<tokens, isRefreshing, failedQueue, carried, body>>
  /\ UNCHANGED <<account, given, issued, expired, replacedBy, serving, presented, reply>>

\* What a request leaves in the store: logout clears it, whatever the answer.
AfterLogout(r) == IF r \in Logouts THEN [tokens EXCEPT ![Home[r]] = 0] ELSE tokens

Answered(r) ==
  /\ pc[r] = "served"
  /\ Goto(r, "done") /\ Forget(r)
  /\ tokens' = AfterLogout(r)
  /\ UNCHANGED <<account, given, isRefreshing, failedQueue, server, incident>>

\* The network fails, or the request times out.
Lost(r) ==
  /\ Lossy
  /\ pc[r] \in {"sent", "served"}
  /\ Goto(r, "failed") /\ Forget(r)
  /\ tokens' = AfterLogout(r)
  /\ incident' = TRUE
  /\ UNCHANGED <<account, given, isRefreshing, failedQueue, server>>

-----------------------------------------------------------------------------
(* The response interceptor.  A request that is sent again is a new axios  *)
(* configuration, so that retriedRequests never holds the one that fails.  *)

Unauthorized(r) == pc[r] = "sent" /\ ~Valid(carried[r])

\* A refresh is under way: the request waits for it.
Enqueue(r) ==
  /\ Unauthorized(r) /\ isRefreshing[Home[r]]
  /\ failedQueue' = [failedQueue EXCEPT ![Home[r]] = Append(@, r)]
  /\ Goto(r, "queued")
  /\ UNCHANGED <<account, given, tokens, isRefreshing, carried, body, server, incident>>

\* Mutant of StartRefresh: it does not look whether a refresh is under way.
StartRefreshAlways(r) ==
  /\ Unauthorized(r) /\ tokens[Home[r]] # 0
  /\ isRefreshing' = [isRefreshing EXCEPT ![Home[r]] = TRUE]
  /\ Goto(r, "refreshing")
  /\ serving' = [serving EXCEPT ![r] = "find"]
  /\ presented' = [presented EXCEPT ![r] = tokens[Home[r]]]
  /\ UNCHANGED <<tokens, failedQueue, carried, body>>
  /\ UNCHANGED <<account, given, issued, expired, live, replacedBy, reply, incident>>

\* The first one sends the refresh token the store holds.
StartRefresh(r) ==
  /\ Unauthorized(r) /\ ~isRefreshing[Home[r]] /\ tokens[Home[r]] # 0
  /\ isRefreshing' = [isRefreshing EXCEPT ![Home[r]] = TRUE]
  /\ Goto(r, "refreshing")
  /\ serving' = [serving EXCEPT ![r] = "find"]
  /\ presented' = [presented EXCEPT ![r] = tokens[Home[r]]]
  /\ UNCHANGED <<tokens, failedQueue, carried, body>>
  /\ UNCHANGED <<account, given, issued, expired, live, replacedBy, reply, incident>>

\* There is none: the request fails and the user is sent to the login page.
NoRefreshToken(r) ==
  /\ Unauthorized(r) /\ ~isRefreshing[Home[r]] /\ tokens[Home[r]] = 0
  /\ Goto(r, "failed")
  /\ UNCHANGED <<account, given, tokens, isRefreshing, failedQueue, carried, body, server, incident>>

\* Mutant of Waiting: the queue is emptied and nobody is told.
OwnOnly(r) == {r}

\* The requests a refresh settles: those that waited, and its own.
Waiting(r) == ToSet(failedQueue[Home[r]]) \cup {r}

\* processQueue, and the end of the refresh.
Settle(r, label) ==
  /\ pc' = [q \in Requests |-> IF q \in Waiting(r) THEN label ELSE pc[q]]
  /\ failedQueue' = [failedQueue EXCEPT ![Home[r]] = <<>>]
  /\ isRefreshing' = [isRefreshing EXCEPT ![Home[r]] = FALSE]

\* The new pair is stored, and the requests are sent again with it.
Refreshed(r) ==
  /\ pc[r] = "refreshing" /\ serving[r] = "answered"
  /\ tokens' = [tokens EXCEPT ![Home[r]] = reply[r]]
  /\ carried' = [q \in Requests |-> IF q \in Waiting(r) THEN reply[r] ELSE carried[q]]
  /\ Settle(r, "sent")
  /\ serving' = [serving EXCEPT ![r] = "none"]
  /\ presented' = [presented EXCEPT ![r] = 0] /\ reply' = [reply EXCEPT ![r] = 0]
  /\ UNCHANGED <<account, given, body, issued, expired, live, replacedBy, incident>>

\* Mutant of RefreshFailed: the error does not reach the queue.
RefreshFailedAlone(r) ==
  /\ pc[r] = "refreshing"
  /\ serving[r] \in {"refused", "dead"} \/ Lossy
  /\ incident' = (incident \/ serving[r] # "refused")
  /\ tokens' = [tokens EXCEPT ![Home[r]] = 0]
  /\ Goto(r, "failed")
  /\ isRefreshing' = [isRefreshing EXCEPT ![Home[r]] = FALSE]
  /\ UNCHANGED <<account, given, failedQueue, carried, body, server>>

\* The refresh is refused or lost: the requests fail, the tokens are cleared
\* and the user is sent to the login page.
RefreshFailed(r) ==
  /\ pc[r] = "refreshing"
  /\ serving[r] \in {"refused", "dead"} \/ Lossy
  /\ incident' = (incident \/ serving[r] # "refused")
  /\ tokens' = [tokens EXCEPT ![Home[r]] = 0]
  /\ Settle(r, "failed")
  /\ UNCHANGED <<account, given, carried, body, server>>

-----------------------------------------------------------------------------
(* The auth service: refreshTokens.                                        *)

Serving(r, label) == serving' = [serving EXCEPT ![r] = label]

FindToken(r) ==
  /\ serving[r] = "find"
  /\ Serving(r, IF presented[r] \in live THEN "revoke" ELSE "refused")
  /\ UNCHANGED <<account, given, client, issued, expired, live, replacedBy, presented, reply, incident>>

\* Mutant of Without: the token is only marked as replaced.
StillThere(g) == live

\* The tokens left when g is revoked.
Without(g) == live \ {g}

RevokeToken(r) ==
  /\ serving[r] = "revoke"
  /\ live' = Without(presented[r])
  /\ Serving(r, "generate")
  /\ UNCHANGED <<account, given, client, issued, expired, replacedBy, presented, reply, incident>>

\* Mutant of GenerateTokens: the pair is handed out and not stored.
GenerateUnstored(r) ==
  /\ serving[r] = "generate"
  /\ reply' = [reply EXCEPT ![r] = issued + 1]
  /\ Serving(r, "answered")
  /\ UNCHANGED <<account, given, client, issued, expired, live, replacedBy, presented, incident>>

\* generateTokens.
GenerateTokens(r) ==
  /\ serving[r] = "generate"
  /\ issued' = issued + 1
  /\ live' = live \cup {issued'}
  /\ replacedBy' = Append(replacedBy, 0)
  /\ reply' = [reply EXCEPT ![r] = issued']
  /\ given' = [given EXCEPT ![Home[r]] = @ \cup {issued'}]
  /\ Serving(r, "link")
  /\ UNCHANGED <<account, client, expired, presented, incident>>

LinkTokens(r) ==
  /\ serving[r] = "link"
  /\ replacedBy' = [replacedBy EXCEPT ![presented[r]] = reply[r]]
  /\ Serving(r, "answered")
  /\ UNCHANGED <<account, given, client, issued, expired, live, presented, reply, incident>>

\* The server, or its database, fails in the middle.
ServerDies(r) ==
  /\ Lossy
  /\ serving[r] \in {"find", "revoke", "generate", "link"}
  /\ Serving(r, "dead")
  /\ incident' = TRUE
  /\ UNCHANGED <<account, given, client, issued, expired, live, replacedBy, presented, reply>>

Expire(g) ==
  /\ Valid(g)
  /\ Cardinality(expired) < MaxExpired
  /\ expired' = expired \cup {g}
  /\ UNCHANGED <<account, given, client, issued, live, replacedBy, serving, presented, reply, incident>>

-----------------------------------------------------------------------------
(* resetPassword, for the same user: the password is written, the reset    *)
(* token used up, and then every refresh token of the user is revoked.     *)
(* Only the last step is seen here; a server that dies before it leaves    *)
(* the tokens as they are.                                                 *)

\* Mutant of RevokeAll: one token is revoked, as logout does.
RevokeOne ==
  /\ ~reset /\ reset' = TRUE
  /\ elsewhere' = (elsewhere /\ live # {})
  /\ live' = {}
  /\ midway' = \E r \in Requests : serving[r] \in {"revoke", "generate"}
  /\ incident' = TRUE
  /\ UNCHANGED <<client, given, issued, expired, replacedBy, serving, presented, reply>>

RevokeAll ==
  /\ ~reset /\ reset' = TRUE
  /\ elsewhere' = FALSE
  /\ live' = {}
  /\ midway' = \E r \in Requests : serving[r] \in {"revoke", "generate"}
  /\ incident' = TRUE
  /\ UNCHANGED <<client, given, issued, expired, replacedBy, serving, presented, reply>>

-----------------------------------------------------------------------------

\* What a request is bound to do: the browser answers or times out every
\* request, and the server goes on with the refresh it started.
Progress(r) ==
  \/ Serve(r) \/ Answered(r)
  \/ Enqueue(r) \/ StartRefresh(r) \/ NoRefreshToken(r)
  \/ Refreshed(r) \/ RefreshFailed(r)
  \/ FindToken(r) \/ RevokeToken(r) \/ GenerateTokens(r) \/ LinkTokens(r)

AllSettled == (\A r \in Requests : pc[r] \in Settled) /\ UNCHANGED vars

Next ==
  \/ \E r \in Requests : Send(r) \/ Progress(r) \/ Lost(r) \/ ServerDies(r)
  \/ \E g \in 1..issued : Expire(g)
  \/ RevokeAll
  \/ AllSettled

Spec == Init /\ [][Next]_vars

FairSpec == Spec /\ \A r \in Requests : WF_vars(Progress(r))

-----------------------------------------------------------------------------
(* Properties.                                                             *)

TypeOK ==
  /\ issued \in Nat \ {0}
  /\ tokens \in [Tabs -> 0..issued]
  /\ isRefreshing \in [Tabs -> BOOLEAN]
  /\ failedQueue \in [Tabs -> Seq(Requests)]
  /\ pc \in [Requests -> {"idle", "sent", "served", "queued", "refreshing"} \cup Settled]
  /\ carried \in [Requests -> 0..issued] /\ body \in [Requests -> 0..issued]
  /\ expired \subseteq 1..issued /\ live \subseteq 1..issued
  /\ Len(replacedBy) = issued /\ replacedBy \in Seq(0..issued)
  /\ serving \in [Requests -> {"none", "find", "revoke", "generate", "link",
                               "answered", "refused", "dead"}]
  /\ presented \in [Requests -> 0..issued] /\ reply \in [Requests -> 0..issued]
  /\ elsewhere \in BOOLEAN /\ reset \in BOOLEAN
  /\ given \in [Tabs -> SUBSET (1..issued)]
  /\ incident \in BOOLEAN /\ midway \in BOOLEAN

\* Nobody waits for a refresh that is not under way: a request is queued once,
\* in a tab where exactly one other request is refreshing.
SingleFlight ==
  \A t \in Tabs :
    LET mine == {r \in Requests : Home[r] = t}
        refreshing == {r \in mine : pc[r] = "refreshing"}
    IN /\ Cardinality(refreshing) = IF isRefreshing[t] THEN 1 ELSE 0
       /\ ToSet(failedQueue[t]) = {r \in mine : pc[r] = "queued"}
       /\ IsInjective(failedQueue[t])
       /\ failedQueue[t] # <<>> => isRefreshing[t]

\* Tab t was refused the token all tabs began with, because another tab had
\* been first to have it replaced.
Outrun(t) ==
  /\ \E r \in Requests : Home[r] = t /\ serving[r] = "refused" /\ presented[r] = 1
  /\ \E u \in Tabs \ {t} :
       \/ tokens[u] > 1
       \/ \E r \in Requests : Home[r] = u /\ serving[r] \in {"generate", "link", "answered"}

\* However many requests of however many tabs meet the end of the access token
\* at once, the session goes on: as long as nothing is lost and nobody is
\* logged out, a tab keeps its tokens and none of its requests fails, unless another
\* tab was first with the token they share, which then goes on itself.
SessionKept ==
  incident \/ \A t \in Tabs :
    \/ tokens[t] # 0 /\ \A r \in Requests : Home[r] = t => pc[r] # "failed"
    \/ Outrun(t)

\* "rotated on use" (README.md:360): the token a session began with cannot be
\* used once it is replaced, and of those a tab was given at most one can.
\* Two tabs that present the first token at once may each be given a pair, so
\* that a session has up to one usable token per tab; never more.
RotatedOnUse ==
  /\ 1 \in live => issued = 1
  /\ \A t \in Tabs : Cardinality(live \cap given[t]) <= 1

\* A password reset ends every session, on every device: once it is over no
\* refresh token can be used, unless a refresh had already found its token
\* when they were revoked, and goes on to issue a pair that survives the reset
\* (refreshTokens against resetPassword, auth.service.ts).
ResetEndsSessions == reset /\ ~midway => live = {} /\ ~elsewhere

\* "Logged out successfully" (auth.controller.ts): when the logouts are over
\* and nothing is under way, the session's refresh tokens are revoked.
LoggedOut ==
  (/\ Logouts # {} /\ \A r \in Logouts : pc[r] = "done"
   /\ \A r \in Requests : serving[r] \notin {"find", "revoke", "generate", "link", "answered"})
  => live = {}

\* Every request that is sent is answered or fails, the ones in the queue too.
EveryRequestSettles ==
  \A r \in Requests : pc[r] = "sent" ~> pc[r] \in Settled

=============================================================================
