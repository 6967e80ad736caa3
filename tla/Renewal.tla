------------------------------- MODULE Renewal -------------------------------
(***************************************************************************)
(* How the browser tabs of one user renew their session                      *)
(* (frontend/src/services/api.ts, auth/AuthProvider.tsx): requests that fail *)
(* with 401 share one refresh of their tab, tabs tell each other of their    *)
(* refreshes over a BroadcastChannel, and the server rotates the refresh     *)
(* token (sessionService.rotateSession, module Session).                     *)
(*                                                                         *)
(* The cookie jar is shared by the tabs. A request is answered by what the   *)
(* jar holds when it is sent; a refresh is sent, served and answered in      *)
(* separate steps. Token n + 1 is the successor of token n.                  *)
(***************************************************************************)
EXTENDS Naturals, Sequences

CONSTANTS
    Tab,
    Request,   \* requests of a tab; restore is the one of AuthProvider
    restore,
    Makes,     \* Makes[t]: the requests that the pages of a tab make
    MaxToken   \* bound on the token at which requests are made and cookies expire

ASSUME RenewalAssumption ==
    /\ restore \in Request
    /\ Makes \in [Tab -> SUBSET Request]
    /\ MaxToken \in Nat \ {0}

VARIABLES
    server,     \* the session: current token, race window, revocation
    jar,        \* the cookies of the browser
    status,     \* status[t]: AuthProvider's; open is loading or authenticated
    requests,   \* requests[t][r]: progress of a request
    refresh,    \* refresh[t]: the refreshPromise of a tab
    external,   \* external[t]: whether externalRefresh is pending
    channel,    \* channel[t]: messages of other tabs not yet handled
    disturbed   \* an answer or message was lost, slower than the waits that
                \* count on it, or overtaken by two rotations

vars == <<server, jar, status, requests, refresh, external, channel, disturbed>>

Token == Nat
NoToken == 0

Server == [token: Nat \ {NoToken}, window: BOOLEAN, alive: BOOLEAN,
           reused: BOOLEAN]
Jar == [token: Token, access: BOOLEAN]

\* attempt: 2 after a 409; sent: the token of the request under way; answer: what
\* the server has said.
Refresh == [pc: {"none", "external", "post", "served", "delay"}, attempt: {1, 2},
            sent: Token, answer: {"none", "rotated", "conflict", "refused"}]
NoRefresh == [pc |-> "none", attempt |-> 1, sent |-> NoToken, answer |-> "none"]
Post(attempt) == [pc |-> "post", attempt |-> attempt, sent |-> jar.token,
                  answer |-> "none"]

Init ==
    /\ server = [token |-> 1, window |-> FALSE, alive |-> TRUE, reused |-> FALSE]
    /\ jar = [token |-> 1, access |-> TRUE]
    /\ status = [t \in Tab |-> "open"]
    /\ requests = [t \in Tab |-> [r \in Request |-> "idle"]]
    /\ refresh = [t \in Tab |-> NoRefresh]
    /\ external = [t \in Tab |-> FALSE]
    /\ channel = [t \in Tab |-> <<>>]
    /\ disturbed = FALSE

-----------------------------------------------------------------------------
(* The world *)

\* A tab is about to repeat its requests, or will when it hears of the refresh.
RetriesDue ==
    \E t \in Tab : \/ \E r \in Request : requests[t][r] = "retry"
                   \/ \E i \in DOMAIN channel[t] : channel[t][i] = "successful"

\* The access cookie outlives the time between a refresh and the retries, in its
\* own tab and in those that are told.
ExpireAccess ==
    /\ jar.access
    /\ server.token < MaxToken
    /\ jar' = [jar EXCEPT !.access = FALSE]
    /\ disturbed' = (disturbed \/ RetriesDue)
    /\ UNCHANGED <<server, status, requests, refresh, external, channel>>

\* A refresh is under way with a token that has been rotated.
Straggler ==
    \E t \in Tab : refresh[t].pc = "post" /\ refresh[t].sent # server.token

\* Five seconds after a rotation its cookies should be in the jar.
CloseWindow ==
    /\ server.window
    /\ server' = [server EXCEPT !.window = FALSE]
    /\ disturbed' = (disturbed \/ Straggler \/ jar.token # server.token)
    /\ UNCHANGED <<jar, status, requests, refresh, external, channel>>

\* Logout, password change, expiry.
Revoke ==
    /\ server.alive
    /\ server' = [server EXCEPT !.alive = FALSE]
    /\ UNCHANGED <<jar, status, requests, refresh, external, channel, disturbed>>

-----------------------------------------------------------------------------
(* Tabs and requests *)

\* Both attempts of a request are answered by the access cookie it carries.
Accepted == jar.access /\ server.alive

\* A page makes a request, for the first time or again; it is denied.
send(t, r) ==
    /\ status[t] = "open"
    /\ r \in Makes[t]
    /\ requests[t][r] \in {"idle", "failed"}
    /\ server.token < MaxToken
    /\ ~Accepted
    /\ requests' = [requests EXCEPT ![t][r] = "denied"]
    /\ UNCHANGED <<server, jar, status, refresh, external, channel, disturbed>>

Told(t, message, messages) ==
    [u \in Tab |-> IF u = t \/ status[u] = "closed" THEN messages[u]
                   ELSE Append(messages[u], message)]
Broadcast(t, message) == channel' = Told(t, message, channel)

\* The requests of a tab that wait for its refresh.
AfterRefresh(t, pc) ==
    [requests EXCEPT ![t] =
        [r \in Request |-> IF @[r] = "waiting" THEN pc ELSE @[r]]]

Joins(t) == refresh[t].pc # "none"

\* The 401 of a first attempt reaches the interceptor: the request joins the
\* refresh of its tab, which begins if there is none, by waiting for the refresh
\* of another tab if one is announced.
intercept(t, r) ==
    /\ requests[t][r] = "denied"
    /\ requests' = [requests EXCEPT ![t][r] = "waiting"]
    /\ \/ /\ Joins(t)
          /\ UNCHANGED <<refresh, channel>>
       \/ /\ ~Joins(t)
          /\ external[t]
          /\ refresh' = [refresh EXCEPT ![t] = [NoRefresh EXCEPT !.pc = "external"]]
          /\ UNCHANGED channel
       \/ /\ ~Joins(t)
          /\ ~external[t]
          /\ refresh' = [refresh EXCEPT ![t] = Post(1)]
          /\ Broadcast(t, "start")
    /\ UNCHANGED <<server, jar, status, external, disturbed>>

\* The second attempt of a request is not renewed again.
retry(t, r) ==
    /\ requests[t][r] = "retry"
    /\ requests' = [requests EXCEPT ![t][r] = IF Accepted THEN "idle" ELSE "failed"]
    /\ status' = IF r # restore THEN status
                 ELSE [status EXCEPT ![t] = IF Accepted THEN "open"
                                            ELSE "anonymous"]
    /\ UNCHANGED <<server, jar, refresh, external, channel, disturbed>>

-----------------------------------------------------------------------------
(* Refreshing *)

\* Mutant: a token just rotated is taken for a replay at once.
InRaceWindow_Never(token) == FALSE

InRaceWindow(token) == token + 1 = server.token /\ server.window

\* Another tab will find that two rotations overtook its refresh: it sent a token
\* rotated before this rotation, or makes its second and last attempt.
OvertakenTwice(t) ==
    \E u \in Tab \ {t} : /\ refresh[u].pc = "post"
                        /\ \/ refresh[u].sent # server.token
                           \/ refresh[u].attempt = 2

rotateSession(t) ==
    LET token == refresh[t].sent
        Answer(answer) ==
            refresh' = [refresh EXCEPT ![t].pc = "served", ![t].answer = answer]
    IN  /\ refresh[t].pc = "post"
        /\ \/ /\ server.alive
              /\ token = server.token
              /\ server' = [server EXCEPT !.token = @ + 1, !.window = TRUE]
              /\ Answer("rotated")
              /\ disturbed' = (disturbed \/ OvertakenTwice(t))
           \/ /\ server.alive
              /\ token # NoToken
              /\ InRaceWindow(token)
              /\ Answer("conflict")
              /\ UNCHANGED <<server, disturbed>>
           \/ /\ server.alive
              /\ token # NoToken
              /\ token + 1 = server.token
              /\ ~InRaceWindow(token)
              /\ server' = [server EXCEPT !.alive = FALSE, !.reused = TRUE]
              /\ Answer("refused")
              /\ UNCHANGED disturbed
           \/ /\ ~server.alive \/ token = NoToken \/ token + 1 < server.token
              /\ Answer("refused")
              /\ UNCHANGED <<server, disturbed>>
        /\ UNCHANGED <<jar, status, requests, external, channel>>

Succeed(t) ==
    /\ refresh' = [refresh EXCEPT ![t] = NoRefresh]
    /\ requests' = AfterRefresh(t, "retry")
    /\ UNCHANGED status

Fail(t) ==
    /\ refresh' = [refresh EXCEPT ![t] = NoRefresh]
    /\ requests' = AfterRefresh(t, "failed")
    /\ status' = [status EXCEPT ![t] = "anonymous"]

\* The browser installs the cookies before the tab sees the answer.
rotated(t) ==
    /\ refresh[t].pc = "served"
    /\ refresh[t].answer = "rotated"
    /\ jar' = [token |-> refresh[t].sent + 1, access |-> TRUE]
    /\ Succeed(t)
    /\ Broadcast(t, "successful")
    /\ UNCHANGED <<server, external, disturbed>>

\* The first 409 is followed by a wait.
conflict(t) ==
    /\ refresh[t].pc = "served"
    /\ refresh[t].answer = "conflict"
    /\ refresh[t].attempt = 1
    /\ refresh' = [refresh EXCEPT ![t].pc = "delay"]
    /\ UNCHANGED <<server, jar, status, requests, external, channel, disturbed>>

SecondPost(t) == Post(2)

\* The wait is over before the cookies of the winner arrived if they are slow.
postAgain(t) ==
    /\ refresh[t].pc = "delay"
    /\ refresh' = [refresh EXCEPT ![t] = SecondPost(t)]
    /\ disturbed' = (disturbed \/ jar.token # server.token)
    /\ UNCHANGED <<server, jar, status, requests, external, channel>>

\* A 401 clears the cookies; the second 409 leaves them.
rejected(t) ==
    /\ refresh[t].pc = "served"
    /\ \/ refresh[t].answer = "refused"
       \/ refresh[t].answer = "conflict" /\ refresh[t].attempt = 2
    /\ jar' = IF refresh[t].answer = "refused"
              THEN [token |-> NoToken, access |-> FALSE] ELSE jar
    /\ Fail(t)
    /\ Broadcast(t, "failed")
    /\ UNCHANGED <<server, external, disturbed>>

\* The request or its answer is lost.
networkError(t) ==
    /\ refresh[t].pc \in {"post", "served"}
    /\ Fail(t)
    /\ Broadcast(t, "failed")
    /\ disturbed' = TRUE
    /\ UNCHANGED <<server, jar, external>>

\* The tab is closed, whatever it was doing; nobody hears of its refresh. If the
\* server had answered, the cookies may or may not have been installed.
close(t) ==
    /\ status[t] # "closed"
    /\ status' = [status EXCEPT ![t] = "closed"]
    /\ requests' = [requests EXCEPT ![t] = [r \in Request |-> "idle"]]
    /\ refresh' = [refresh EXCEPT ![t] = NoRefresh]
    /\ external' = [external EXCEPT ![t] = FALSE]
    /\ channel' = [channel EXCEPT ![t] = <<>>]
    /\ disturbed' = (disturbed \/ refresh[t].pc \in {"post", "served"})
    /\ UNCHANGED <<server, jar>>

-----------------------------------------------------------------------------
(* The other tabs *)

\* externalRefresh resolves: with TRUE the tab takes the cookies of the other
\* tab, with FALSE it refreshes itself.
Resolve(t, successful, handled) ==
    /\ external' = [external EXCEPT ![t] = FALSE]
    /\ IF refresh[t].pc # "external"
       THEN /\ channel' = handled
            /\ UNCHANGED <<status, requests, refresh>>
       ELSE IF successful
       THEN channel' = handled /\ Succeed(t)
       ELSE /\ refresh' = [refresh EXCEPT ![t] = Post(1)]
            /\ channel' = Told(t, "start", handled)
            /\ UNCHANGED <<status, requests>>
    /\ UNCHANGED <<server, jar, disturbed>>

receive(t) ==
    LET handled == [channel EXCEPT ![t] = Tail(@)]
    IN  /\ channel[t] # <<>>
        /\ \/ /\ Head(channel[t]) = "start" \/ ~external[t]
              /\ channel' = handled
              /\ external' = [external EXCEPT ![t] =
                                @ \/ Head(channel[t]) = "start"]
              /\ UNCHANGED <<server, jar, status, requests, refresh, disturbed>>
           \/ /\ Head(channel[t]) # "start"
              /\ external[t]
              /\ Resolve(t, Head(channel[t]) = "successful", handled)

\* Mutant: the promise has no timer.
timeout_Never(t) == FALSE

\* After 5.5 seconds the tab no longer waits for the other one.
timeout(t) == external[t] /\ Resolve(t, FALSE, channel)

-----------------------------------------------------------------------------

TabStep(t) ==
    \/ \E r \in Request : intercept(t, r) \/ retry(t, r)
    \/ rotateSession(t)
    \/ rotated(t)
    \/ conflict(t)
    \/ postAgain(t)
    \/ rejected(t)
    \/ receive(t)
    \/ timeout(t)

Next ==
    \/ ExpireAccess
    \/ CloseWindow
    \/ Revoke
    \/ \E t \in Tab :
          \/ \E r \in Request : send(t, r)
          \/ TabStep(t)
          \/ networkError(t)
          \/ close(t)

Spec == Init /\ [][Next]_vars

\* Answers arrive, timers fire, messages are delivered and handlers run.
FairSpec == Spec /\ \A t \in Tab : WF_vars(TabStep(t))

-----------------------------------------------------------------------------
(* Properties *)

\* Types; requests wait exactly while their tab has a refreshPromise, so that
\* none is forgotten by it (api.ts lines 125-138).
TypeOK ==
    /\ server \in Server
    /\ jar \in Jar
    /\ status \in [Tab -> {"open", "anonymous", "closed"}]
    /\ requests \in [Tab -> [Request -> {"idle", "denied", "waiting", "retry",
                                        "failed"}]]
    /\ refresh \in [Tab -> Refresh]
    /\ external \in [Tab -> BOOLEAN]
    /\ channel \in [Tab -> Seq({"start", "successful", "failed"})]
    /\ disturbed \in BOOLEAN
    /\ \A t \in Tab : refresh[t].pc # "none" <=>
                        \E r \in Request : requests[t][r] = "waiting"

\* However the refreshes of the tabs overlap, none is taken for a replay, no tab
\* becomes anonymous and no request fails while the session lives, unless an
\* answer was lost, it or a message was slower than what waits for it, or two
\* rotations overtook a refresh (ADR 0001, "This prevents ordinary parallel
\* requests from causing logout").
RenewalQuiet ==
    ~disturbed =>
        /\ ~server.reused
        /\ server.alive => \A t \in Tab :
              /\ status[t] # "anonymous"
              /\ \A r \in Request : requests[t][r] # "failed"

\* The types, no request left behind by its tab's refresh, and quiet renewals.
RenewalInv == TypeOK /\ RenewalQuiet

\* Tabs that wait for each other's refreshes always go on, even when the tab they
\* wait for is closed or every message of it came too late.
WaitersGoOn ==
    \A t \in Tab, r \in Request :
        requests[t][r] = "waiting" ~> requests[t][r] # "waiting"
=============================================================================
