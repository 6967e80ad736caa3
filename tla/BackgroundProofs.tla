--------------------------- MODULE BackgroundProofs ---------------------------
(***************************************************************************)
(* Theorems about what goes on behind the pages, for every value of the      *)
(* constants: the renewal of sessions by the tabs of a browser (Renewal) and *)
(* the deletion of what has served its time (Cleanup). The two share neither *)
(* constants nor variables.                                                  *)
(*                                                                         *)
(* Renewal: requests wait exactly as long as their tab refreshes, and as     *)
(* long as nothing is lost or slower than what waits for it, no refresh is   *)
(* taken for a replay, no tab signs out and no request fails while the       *)
(* session lives.  The argument: the cookie jar is at most one rotation      *)
(* behind the server, at most one rotation is not yet installed, and a       *)
(* refresh under way carries the current token, or the one before it inside  *)
(* the race window and with a second attempt left.                           *)
(*                                                                         *)
(* Cleanup: nothing is deleted before its retention is over, and a report    *)
(* tells whether something was left.  The argument: the run looks at rows    *)
(* with a time captured in the past, and what users do gives a row a time    *)
(* after that, so that nothing becomes due while a run goes on.              *)
(***************************************************************************)
EXTENDS Renewal, Cleanup, FiniteSetTheorems, TLAPS

Message == {"start", "successful", "failed"}

LEMMA MessagesTyped ==
    ASSUME NEW ch \in [Tab -> Seq(Message)], NEW t \in Tab
    PROVE  /\ \A message \in Message : Told(t, message, ch) \in [Tab -> Seq(Message)]
           /\ ch[t] # <<>> => [ch EXCEPT ![t] = Tail(@)] \in [Tab -> Seq(Message)]
           /\ [ch EXCEPT ![t] = <<>>] \in [Tab -> Seq(Message)]
    <1>1. \A message \in Message : Told(t, message, ch) \in [Tab -> Seq(Message)]
        BY DEF Told
    <1>2. ASSUME ch[t] # <<>>
          PROVE  [ch EXCEPT ![t] = Tail(@)] \in [Tab -> Seq(Message)]
        BY <1>2
    <1>3. [ch EXCEPT ![t] = <<>>] \in [Tab -> Seq(Message)]
        OBVIOUS
    <1> QED
        BY <1>1, <1>2, <1>3

RequestState == {"idle", "denied", "waiting", "retry", "failed"}

\* A tab whose refresh is over leaves no request waiting, and no other request
\* is touched.
LEMMA AfterRefreshTyped ==
    ASSUME requests \in [Tab -> [Request -> RequestState]], NEW t \in Tab,
           NEW pc \in RequestState \ {"waiting"}
    PROVE  /\ AfterRefresh(t, pc) \in [Tab -> [Request -> RequestState]]
           /\ \A u \in Tab \ {t} : AfterRefresh(t, pc)[u] = requests[u]
           /\ \A r \in Request :
                 AfterRefresh(t, pc)[t][r] =
                    IF requests[t][r] = "waiting" THEN pc ELSE requests[t][r]
    BY DEF AfterRefresh

LEMMA RefreshTyped ==
    /\ NoRefresh \in Refresh /\ NoRefresh.pc = "none"
    /\ [NoRefresh EXCEPT !.pc = "external"] \in Refresh
    /\ \A attempt \in {1, 2} : jar \in Jar =>
          /\ Post(attempt) \in Refresh
          /\ Post(attempt).pc = "post" /\ Post(attempt).sent = jar.token
          /\ Post(attempt).attempt = attempt
    BY DEF NoRefresh, Refresh, Post, Jar, Token, NoToken

-----------------------------------------------------------------------------
\* Types

LEMMA WorldTypes ==
    ASSUME TypeOK, ExpireAccess \/ CloseWindow \/ Revoke \/ UNCHANGED vars
    PROVE  TypeOK'
    <1>1. CASE ExpireAccess
        BY <1>1 DEF TypeOK, ExpireAccess, RetriesDue, Jar
    <1>2. CASE CloseWindow
        BY <1>2 DEF TypeOK, CloseWindow, Straggler, Server
    <1>3. CASE Revoke
        BY <1>3 DEF TypeOK, Revoke, Server
    <1>4. CASE UNCHANGED vars
        BY <1>4 DEF TypeOK, vars
    <1> QED
        BY <1>1, <1>2, <1>3, <1>4

LEMMA RequestTypes ==
    ASSUME TypeOK, NEW t \in Tab, NEW r \in Request,
           send(t, r) \/ intercept(t, r) \/ retry(t, r)
    PROVE  TypeOK'
    <1>1. CASE send(t, r)
        BY <1>1 DEF TypeOK, send
    <1>2. CASE intercept(t, r)
        <2>1. /\ requests' = [requests EXCEPT ![t][r] = "waiting"]
              /\ requests[t][r] = "denied"
              /\ UNCHANGED <<server, jar, status, external, disturbed>>
            BY <1>2 DEF intercept
        <2>2. /\ refresh' \in [Tab -> Refresh]
              /\ refresh'[t].pc # "none"
              /\ \A u \in Tab \ {t} : refresh'[u] = refresh[u]
            <3>1. /\ refresh \in [Tab -> Refresh] /\ jar \in Jar
                  /\ Post(1) \in Refresh /\ Post(1).pc = "post"
                BY RefreshTyped DEF TypeOK
            <3>2. PICK waiting : waiting = [NoRefresh EXCEPT !.pc = "external"]
                OBVIOUS
            <3>3. waiting \in Refresh /\ waiting.pc # "none"
                BY <3>2, RefreshTyped DEF NoRefresh
            <3>4. \/ refresh' = refresh /\ refresh[t].pc # "none"
                  \/ refresh' = [refresh EXCEPT ![t] = waiting]
                  \/ refresh' = [refresh EXCEPT ![t] = Post(1)]
                BY <1>2, <3>2 DEF intercept, Joins
            <3> QED
                BY <3>1, <3>3, <3>4
        <2>3. channel' \in [Tab -> Seq(Message)]
            BY <1>2, MessagesTyped DEF intercept, TypeOK, Broadcast, Message
        <2>4. /\ requests' \in [Tab -> [Request -> RequestState]]
              /\ requests'[t][r] = "waiting"
              /\ \A u \in Tab \ {t} : requests'[u] = requests[u]
            BY <2>1 DEF TypeOK, RequestState
        <2>5. \A u \in Tab : refresh'[u].pc # "none" <=>
                                \E q \in Request : requests'[u][q] = "waiting"
            <3>1. refresh'[t].pc # "none" /\ \E q \in Request : requests'[t][q] = "waiting"
                BY <2>2, <2>4
            <3>2. ASSUME NEW u \in Tab \ {t}
                  PROVE  refresh'[u].pc # "none" <=>
                            \E q \in Request : requests'[u][q] = "waiting"
                <4>1. refresh[u].pc # "none" <=> \E q \in Request : requests[u][q] = "waiting"
                    BY DEF TypeOK
                <4> QED
                    BY <2>2, <2>4, <4>1
            <3> QED
                BY <3>1, <3>2
        <2> QED
            BY <2>1, <2>2, <2>3, <2>4, <2>5 DEF TypeOK, Message, RequestState
    <1>3. CASE retry(t, r)
        BY <1>3 DEF TypeOK, retry, Accepted
    <1> QED
        BY <1>1, <1>2, <1>3

\* A refresh of a tab goes on: its requests still wait.
LEMMA GoesOnTypes ==
    ASSUME TypeOK, NEW t \in Tab, rotateSession(t) \/ conflict(t) \/ postAgain(t)
    PROVE  TypeOK'
    <1>1. /\ refresh \in [Tab -> Refresh] /\ refresh[t] \in Refresh
          /\ refresh[t].pc \in {"post", "served", "delay"}
          /\ UNCHANGED <<status, requests, external, channel>>
        BY DEF TypeOK, rotateSession, conflict, postAgain
    <1>2. PICK next \in Refresh : refresh' = [refresh EXCEPT ![t] = next] /\ next.pc # "none"
        <2>1. CASE rotateSession(t) \/ conflict(t)
            <3>1. PICK pc \in {"served", "delay"},
                       answer \in {"rotated", "conflict", "refused"} :
                     \/ refresh' = [refresh EXCEPT ![t].pc = pc, ![t].answer = answer]
                     \/ refresh' = [refresh EXCEPT ![t].pc = pc]
                BY <2>1 DEF rotateSession, conflict
            <3>2. /\ [refresh[t] EXCEPT !.pc = pc, !.answer = answer] \in Refresh
                  /\ [refresh[t] EXCEPT !.pc = pc, !.answer = answer].pc = pc
                  /\ [refresh[t] EXCEPT !.pc = pc] \in Refresh
                  /\ [refresh[t] EXCEPT !.pc = pc].pc = pc
                BY <1>1 DEF Refresh
            <3> QED
                BY <3>1, <3>2
        <2>2. CASE postAgain(t)
            BY <2>2, RefreshTyped DEF postAgain, SecondPost, TypeOK
        <2> QED
            BY <2>1, <2>2
    <1>3. /\ refresh' \in [Tab -> Refresh]
          /\ \A u \in Tab : refresh'[u].pc # "none" <=> refresh[u].pc # "none"
        BY <1>1, <1>2
    <1>4. server' \in Server /\ jar' \in Jar /\ disturbed' \in BOOLEAN
        <2>1. /\ server \in Server /\ server.token + 1 \in Nat \ {NoToken}
            BY DEF TypeOK, Server, NoToken
        <2>2. /\ \/ server' = server
                 \/ server' = [server EXCEPT !.token = @ + 1, !.window = TRUE]
                 \/ server' = [server EXCEPT !.alive = FALSE, !.reused = TRUE]
              /\ jar' = jar
            BY DEF rotateSession, conflict, postAgain
        <2>3. server' \in Server
            BY <2>1, <2>2 DEF Server
        <2>4. disturbed' \in BOOLEAN
            BY DEF rotateSession, conflict, postAgain, TypeOK
        <2> QED
            BY <2>2, <2>3, <2>4 DEF TypeOK
    <1> QED
        BY <1>1, <1>3, <1>4 DEF TypeOK

\* A refresh of a tab is over.
LEMMA OverTypes ==
    ASSUME TypeOK, NEW t \in Tab, Succeed(t) \/ Fail(t)
    PROVE  /\ refresh' \in [Tab -> Refresh]
           /\ requests' \in [Tab -> [Request -> RequestState]]
           /\ status' \in [Tab -> {"open", "anonymous", "closed"}]
           /\ \A u \in Tab : refresh'[u].pc # "none" <=>
                                \E r \in Request : requests'[u][r] = "waiting"
    <1>1. PICK pc \in {"retry", "failed"} : requests' = AfterRefresh(t, pc)
        BY DEF Succeed, Fail
    <1>2. /\ refresh' = [refresh EXCEPT ![t] = NoRefresh]
          /\ status' \in [Tab -> {"open", "anonymous", "closed"}]
        BY DEF Succeed, Fail, TypeOK
    <1>3. /\ requests' \in [Tab -> [Request -> RequestState]]
          /\ \A u \in Tab \ {t} : requests'[u] = requests[u]
          /\ \A r \in Request : requests'[t][r] # "waiting"
        <2>1. /\ requests \in [Tab -> [Request -> RequestState]]
              /\ pc \in RequestState \ {"waiting"}
            BY DEF TypeOK, RequestState
        <2>2. /\ requests' \in [Tab -> [Request -> RequestState]]
              /\ \A u \in Tab \ {t} : requests'[u] = requests[u]
              /\ \A r \in Request :
                    requests'[t][r] =
                       IF requests[t][r] = "waiting" THEN pc ELSE requests[t][r]
            BY <1>1, <2>1, AfterRefreshTyped
        <2> QED
            BY <2>1, <2>2
    <1>4. /\ refresh' \in [Tab -> Refresh] /\ refresh'[t].pc = "none"
          /\ \A u \in Tab \ {t} : refresh'[u] = refresh[u]
        BY <1>2, RefreshTyped DEF TypeOK
    <1>5. \A u \in Tab : refresh'[u].pc # "none" <=>
                            \E r \in Request : requests'[u][r] = "waiting"
        <2>1. refresh'[t].pc = "none" /\ ~\E r \in Request : requests'[t][r] = "waiting"
            BY <1>3, <1>4
        <2>2. ASSUME NEW u \in Tab \ {t}
              PROVE  refresh'[u].pc # "none" <=>
                        \E r \in Request : requests'[u][r] = "waiting"
            <3>1. refresh[u].pc # "none" <=> \E r \in Request : requests[u][r] = "waiting"
                BY DEF TypeOK
            <3> QED
                BY <1>3, <1>4, <3>1
        <2> QED
            BY <2>1, <2>2
    <1> QED
        BY <1>2, <1>3, <1>4, <1>5

LEMMA AnswerTypes ==
    ASSUME TypeOK, NEW t \in Tab,
           rotated(t) \/ rejected(t) \/ networkError(t) \/ close(t)
    PROVE  TypeOK'
    <1>1. CASE rotated(t)
        <2>1. jar' \in Jar
            BY <1>1 DEF rotated, Jar, TypeOK, Refresh, Token
        <2>2. channel' \in [Tab -> Seq(Message)]
            BY <1>1, MessagesTyped DEF rotated, TypeOK, Broadcast, Message
        <2> QED
            BY <1>1, <2>1, <2>2, OverTypes
               DEF rotated, TypeOK, Message, RequestState
    <1>2. CASE rejected(t)
        <2>1. jar' \in Jar
            BY <1>2 DEF rejected, Jar, TypeOK, Token, NoToken
        <2>2. channel' \in [Tab -> Seq(Message)]
            BY <1>2, MessagesTyped DEF rejected, TypeOK, Broadcast, Message
        <2> QED
            BY <1>2, <2>1, <2>2, OverTypes
               DEF rejected, TypeOK, Message, RequestState
    <1>3. CASE networkError(t)
        <2>1. channel' \in [Tab -> Seq(Message)]
            BY <1>3, MessagesTyped DEF networkError, TypeOK, Broadcast, Message
        <2> QED
            BY <1>3, <2>1, OverTypes DEF networkError, TypeOK, Message, RequestState
    <1>4. CASE close(t)
        BY <1>4, RefreshTyped DEF close, TypeOK
    <1> QED
        BY <1>1, <1>2, <1>3, <1>4

LEMMA ResolveTypes ==
    ASSUME TypeOK, NEW t \in Tab, NEW successful \in BOOLEAN,
           NEW handled \in [Tab -> Seq(Message)], Resolve(t, successful, handled)
    PROVE  TypeOK'
    <1>1. /\ external' \in [Tab -> BOOLEAN]
          /\ UNCHANGED <<server, jar, disturbed>>
        BY DEF Resolve, TypeOK
    <1>2. CASE refresh[t].pc # "external"
        BY <1>1, <1>2 DEF Resolve, TypeOK, Message
    <1>3. CASE refresh[t].pc = "external" /\ successful
        <2>1. channel' = handled /\ Succeed(t)
            BY <1>3 DEF Resolve
        <2> QED
            BY <1>1, <2>1, OverTypes DEF TypeOK, Message, RequestState
    <1>4. CASE refresh[t].pc = "external" /\ ~successful
        <2>1. /\ refresh' = [refresh EXCEPT ![t] = Post(1)]
              /\ channel' = Told(t, "start", handled)
              /\ UNCHANGED <<status, requests>>
            BY <1>4 DEF Resolve
        <2>2. Post(1) \in Refresh /\ Post(1).pc = "post"
            BY RefreshTyped DEF TypeOK
        <2>3. channel' \in [Tab -> Seq(Message)]
            BY <2>1, MessagesTyped DEF Message
        <2> QED
            BY <1>1, <1>4, <2>1, <2>2, <2>3 DEF TypeOK, Message
    <1> QED
        BY <1>2, <1>3, <1>4

\* What a tab does with a message: it only notes a refresh, or resolves.
LEMMA Received ==
    ASSUME TypeOK, NEW t \in Tab, receive(t) \/ timeout(t)
    PROVE  \E handled \in [Tab -> Seq(Message)], successful \in BOOLEAN :
              /\ \/ handled = channel
                 \/ channel[t] # <<>> /\ handled = [channel EXCEPT ![t] = Tail(@)]
              /\ successful => channel[t] # <<>> /\ Head(channel[t]) = "successful"
              /\ \/ Resolve(t, successful, handled)
                 \/ /\ channel' = handled
                    /\ external' \in [Tab -> BOOLEAN]
                    /\ UNCHANGED <<server, jar, status, requests, refresh, disturbed>>
    <1>1. channel \in [Tab -> Seq(Message)]
        BY DEF TypeOK, Message
    <1>2. CASE receive(t)
        <2>1. PICK handled : handled = [channel EXCEPT ![t] = Tail(@)]
            OBVIOUS
        <2>2. channel[t] # <<>> /\ handled \in [Tab -> Seq(Message)]
            BY <1>1, <1>2, <2>1, MessagesTyped DEF receive
        <2>3. \/ Resolve(t, Head(channel[t]) = "successful", handled)
              \/ /\ channel' = handled
                 /\ external' \in [Tab -> BOOLEAN]
                 /\ UNCHANGED <<server, jar, status, requests, refresh, disturbed>>
            BY <1>2, <2>1 DEF receive, TypeOK
        <2>4. CASE Head(channel[t]) = "successful"
            <3>1. \/ Resolve(t, TRUE, handled)
                  \/ /\ channel' = handled
                     /\ external' \in [Tab -> BOOLEAN]
                     /\ UNCHANGED <<server, jar, status, requests, refresh, disturbed>>
                BY <2>3, <2>4 DEF Resolve
            <3> QED
                BY <2>1, <2>2, <2>4, <3>1
        <2>5. CASE Head(channel[t]) # "successful"
            <3>1. \/ Resolve(t, FALSE, handled)
                  \/ /\ channel' = handled
                     /\ external' \in [Tab -> BOOLEAN]
                     /\ UNCHANGED <<server, jar, status, requests, refresh, disturbed>>
                BY <2>3, <2>5 DEF Resolve
            <3> QED
                BY <2>1, <2>2, <2>5, <3>1
        <2> QED
            BY <2>4, <2>5
    <1>3. CASE timeout(t)
        BY <1>1, <1>3 DEF timeout
    <1> QED
        BY <1>2, <1>3

LEMMA HearTypes ==
    ASSUME TypeOK, NEW t \in Tab, receive(t) \/ timeout(t)
    PROVE  TypeOK'
    <1>1. PICK handled \in [Tab -> Seq(Message)], successful \in BOOLEAN :
             \/ Resolve(t, successful, handled)
             \/ /\ channel' = handled
                /\ external' \in [Tab -> BOOLEAN]
                /\ UNCHANGED <<server, jar, status, requests, refresh, disturbed>>
        BY Received
    <1>2. CASE Resolve(t, successful, handled)
        BY <1>2, ResolveTypes
    <1>3. CASE /\ channel' = handled
               /\ external' \in [Tab -> BOOLEAN]
               /\ UNCHANGED <<server, jar, status, requests, refresh, disturbed>>
        BY <1>3 DEF TypeOK, Message
    <1> QED
        BY <1>1, <1>2, <1>3

LEMMA InitTypes == Init => TypeOK
    <1> SUFFICES ASSUME Init PROVE TypeOK
        OBVIOUS
    <1>1. server \in Server /\ jar \in Jar
        BY DEF Init, Server, Jar, Token, NoToken
    <1>2. /\ refresh \in [Tab -> Refresh] /\ \A t \in Tab : refresh[t].pc = "none"
          /\ requests \in [Tab -> [Request -> RequestState]]
          /\ \A t \in Tab, r \in Request : requests[t][r] = "idle"
          /\ channel \in [Tab -> Seq(Message)]
        BY RefreshTyped DEF Init, RequestState
    <1> QED
        BY <1>1, <1>2 DEF Init, TypeOK, RequestState, Message

LEMMA TypesNext == TypeOK /\ [Next]_vars => TypeOK'
    BY WorldTypes, RequestTypes, GoesOnTypes, AnswerTypes, HearTypes DEF Next, TabStep

-----------------------------------------------------------------------------
\* The session and the refreshes under way, as long as nothing disturbs.

RefreshOK(t) ==
    /\ refresh[t].pc = "post" =>
          /\ refresh[t].sent \in {server.token, server.token - 1} \ {NoToken}
          /\ refresh[t].sent <= jar.token
          /\ refresh[t].sent # server.token =>
                server.window /\ refresh[t].attempt = 1
    /\ refresh[t].pc = "served" =>
          /\ refresh[t].answer \in {"rotated", "conflict"}
          /\ refresh[t].answer = "conflict" => refresh[t].attempt = 1
          /\ refresh[t].answer = "rotated" =>
                refresh[t].sent = jar.token /\ jar.token # server.token

\* The answer of a rotation is on its way.
Installs(t) == refresh[t].pc = "served" /\ refresh[t].answer = "rotated"

TokensOK ==
    /\ jar.token \in {server.token, server.token - 1} \ {NoToken}
    /\ jar.token # server.token => server.window
    /\ \A t \in Tab : RefreshOK(t)
    /\ \A t, u \in Tab : Installs(t) /\ Installs(u) => t = u

NobodyFails ==
    /\ RetriesDue => jar.access
    /\ \A t \in Tab : /\ status[t] # "anonymous"
                     /\ \A r \in Request : requests[t][r] # "failed"

Undisturbed ==
    ~disturbed =>
        /\ ~server.reused
        /\ server.alive => TokensOK /\ NobodyFails

RenewalInductive == TypeOK /\ Undisturbed

\* The messages that a tab has still to handle.
GoodNews(ch) == \E t \in Tab : \E i \in DOMAIN ch[t] : ch[t][i] = "successful"

LEMMA RetriesDueMeans ==
    RetriesDue <=> \/ \E t \in Tab, r \in Request : requests[t][r] = "retry"
                   \/ GoodNews(channel)
    BY DEF RetriesDue, GoodNews

\* Handling a message, or telling another one, brings no good news.
LEMMA NewsKept ==
    ASSUME NEW ch \in [Tab -> Seq(Message)], NEW t \in Tab
    PROVE  /\ \A message \in Message \ {"successful"} :
                 GoodNews(Told(t, message, ch)) => GoodNews(ch)
           /\ ch[t] # <<>> /\ Head(ch[t]) = "successful" => GoodNews(ch)
           /\ ch[t] # <<>> => (GoodNews([ch EXCEPT ![t] = Tail(@)]) => GoodNews(ch))
           /\ GoodNews([ch EXCEPT ![t] = <<>>]) => GoodNews(ch)
    <1>1. ASSUME NEW message \in Message \ {"successful"}, GoodNews(Told(t, message, ch))
          PROVE  GoodNews(ch)
        <2>1. PICK u \in Tab : \E i \in DOMAIN Told(t, message, ch)[u] :
                                 Told(t, message, ch)[u][i] = "successful"
            BY <1>1 DEF GoodNews
        <2>2. CASE Told(t, message, ch)[u] = ch[u]
            BY <2>1, <2>2 DEF GoodNews
        <2>3. CASE Told(t, message, ch)[u] # ch[u]
            <3>1. Told(t, message, ch)[u] = Append(ch[u], message)
                BY <2>3 DEF Told
            <3> PICK i \in DOMAIN Told(t, message, ch)[u] :
                       Told(t, message, ch)[u][i] = "successful"
                BY <2>1
            <3>2. i \in 1 .. Len(ch[u]) + 1 /\ Append(ch[u], message)[i] = "successful"
                  /\ ch[u] \in Seq(Message)
                BY <3>1
            <3>3. i \in 1 .. Len(ch[u]) /\ ch[u][i] = "successful"
                BY <3>2
            <3> QED
                BY <3>2, <3>3 DEF GoodNews
        <2> QED
            BY <2>2, <2>3
    <1>2. ASSUME ch[t] # <<>>, Head(ch[t]) = "successful"
          PROVE  GoodNews(ch)
        <2>1. 1 \in DOMAIN ch[t] /\ ch[t][1] = "successful"
            BY <1>2
        <2> QED
            BY <2>1 DEF GoodNews
    <1>3. ASSUME ch[t] # <<>>, GoodNews([ch EXCEPT ![t] = Tail(@)])
          PROVE  GoodNews(ch)
        <2>1. PICK rest : rest = [ch EXCEPT ![t] = Tail(@)]
            OBVIOUS
        <2>2. PICK u \in Tab : \E i \in DOMAIN rest[u] : rest[u][i] = "successful"
            BY <1>3, <2>1 DEF GoodNews
        <2>3. CASE u # t
            BY <2>1, <2>2, <2>3 DEF GoodNews
        <2>4. CASE u = t
            <3>1. ch[t] \in Seq(Message) /\ ch[t] # <<>> /\ rest[t] = Tail(ch[t])
                BY <1>3, <2>1
            <3>2. PICK i \in 1 .. Len(ch[t]) - 1 : Tail(ch[t])[i] = "successful"
                BY <2>2, <2>4, <3>1
            <3>3. i + 1 \in DOMAIN ch[t] /\ ch[t][i + 1] = "successful"
                BY <3>1, <3>2
            <3> QED
                BY <3>3 DEF GoodNews
        <2> QED
            BY <2>3, <2>4
    <1>4. ASSUME GoodNews([ch EXCEPT ![t] = <<>>])
          PROVE  GoodNews(ch)
        BY <1>4 DEF GoodNews
    <1> QED
        BY <1>1, <1>2, <1>3, <1>4

\* Steps that leave the tokens alone and begin refreshes with the jar's, if any.
LEMMA TokensFrame ==
    ASSUME TypeOK, TokensOK,
           server'.token = server.token, server'.window = server.window,
           jar'.token = jar.token,
           \A u \in Tab : \/ refresh'[u] = refresh[u]
                          \/ refresh'[u].pc \notin {"post", "served"}
                          \/ refresh'[u].pc = "post" /\ refresh'[u].sent = jar.token
                             /\ (refresh'[u].attempt = 1 \/ jar.token = server.token)
    PROVE  TokensOK'
    <1>1. server.token \in Nat /\ jar.token \in Nat
        BY DEF TypeOK, Server, Jar, Token
    <1>2. \A u \in Tab : RefreshOK(u)'
        BY <1>1 DEF TokensOK, RefreshOK
    <1>3. \A u \in Tab : Installs(u)' => Installs(u)
        BY DEF Installs
    <1> QED
        BY <1>2, <1>3 DEF TokensOK

\* Steps after which no more retries are due, and nobody fails.
LEMMA NobodyFrame ==
    ASSUME TypeOK, NobodyFails, jar'.access = jar.access,
           GoodNews(channel') => GoodNews(channel),
           \A u \in Tab : /\ status'[u] = status[u] \/ status'[u] # "anonymous"
                          /\ \A r \in Request :
                                \/ requests'[u][r] = requests[u][r]
                                \/ requests'[u][r] \notin {"retry", "failed"}
    PROVE  NobodyFails'
    <1>1. RetriesDue' => RetriesDue
        BY RetriesDueMeans DEF RetriesDue, GoodNews
    <1> QED
        BY <1>1 DEF NobodyFails

LEMMA WorldQuiet ==
    ASSUME TypeOK, TokensOK, NobodyFails, ~disturbed', server'.alive,
           ExpireAccess \/ CloseWindow \/ Revoke \/ UNCHANGED vars
    PROVE  TokensOK' /\ NobodyFails'
    <1>1. server \in Server /\ jar \in Jar
        BY DEF TypeOK
    <1>2. CASE ExpireAccess
        <2>1. TokensOK'
            BY <1>1, <1>2, TokensFrame DEF ExpireAccess, Jar
        <2>2. ~RetriesDue /\ requests' = requests /\ channel' = channel /\ status' = status
            BY <1>2 DEF ExpireAccess
        <2>3. ~RetriesDue'
            BY <2>2 DEF RetriesDue
        <2> QED
            BY <2>1, <2>2, <2>3 DEF NobodyFails
    <1>3. CASE CloseWindow
        <2>1. /\ ~Straggler /\ jar.token = server.token
              /\ server'.token = server.token
              /\ UNCHANGED <<jar, status, requests, refresh, external, channel>>
            BY <1>1, <1>3 DEF CloseWindow, Server
        <2>2. \A u \in Tab : RefreshOK(u)' /\ (Installs(u)' => Installs(u))
            BY <2>1 DEF TokensOK, RefreshOK, Straggler, Installs
        <2>3. TokensOK'
            BY <2>1, <2>2 DEF TokensOK
        <2>4. NobodyFails'
            BY <2>1, NobodyFrame
        <2> QED
            BY <2>3, <2>4
    <1>4. CASE Revoke
        BY <1>1, <1>4 DEF Revoke, Server
    <1>5. CASE UNCHANGED vars
        BY <1>5, TokensFrame, NobodyFrame DEF vars
    <1> QED
        BY <1>2, <1>3, <1>4, <1>5

LEMMA RequestQuiet ==
    ASSUME TypeOK, TokensOK, NobodyFails, ~disturbed', server'.alive,
           NEW t \in Tab, NEW r \in Request,
           send(t, r) \/ intercept(t, r) \/ retry(t, r)
    PROVE  TokensOK' /\ NobodyFails'
    <1>1. /\ requests \in [Tab -> [Request -> RequestState]]
          /\ channel \in [Tab -> Seq(Message)] /\ refresh \in [Tab -> Refresh]
          /\ jar \in Jar /\ status \in [Tab -> {"open", "anonymous", "closed"}]
        BY DEF TypeOK, RequestState, Message
    <1>2. CASE send(t, r)
        <2>1. TokensOK'
            BY <1>2, TokensFrame DEF send
        <2>2. NobodyFails'
            BY <1>1, <1>2, NobodyFrame DEF send
        <2> QED
            BY <2>1, <2>2
    <1>3. CASE intercept(t, r)
        <2>1. /\ requests' = [requests EXCEPT ![t][r] = "waiting"]
              /\ UNCHANGED <<server, jar, status>>
              /\ \/ channel' = channel
                 \/ channel' = Told(t, "start", channel)
            BY <1>3 DEF intercept, Broadcast
        <2>2. PICK waiting : waiting = [NoRefresh EXCEPT !.pc = "external"]
            OBVIOUS
        <2>3. \/ refresh' = refresh
              \/ refresh' = [refresh EXCEPT ![t] = waiting]
              \/ refresh' = [refresh EXCEPT ![t] = Post(1)]
            BY <1>3, <2>2 DEF intercept
        <2>4. waiting.pc \notin {"post", "served"}
            BY <2>2 DEF NoRefresh
        <2>5. TokensOK'
            <3>1. \A u \in Tab :
                     \/ refresh'[u] = refresh[u]
                     \/ refresh'[u].pc \notin {"post", "served"}
                     \/ refresh'[u].pc = "post" /\ refresh'[u].sent = jar.token
                        /\ (refresh'[u].attempt = 1 \/ jar.token = server.token)
                BY <1>1, <2>3, <2>4, RefreshTyped
            <3> QED
                BY <2>1, <3>1, TokensFrame
        <2>6. GoodNews(channel') => GoodNews(channel)
            BY <1>1, <2>1, NewsKept DEF Message
        <2>7. NobodyFails'
            BY <1>1, <2>1, <2>6, NobodyFrame
        <2> QED
            BY <2>5, <2>7
    <1>4. CASE retry(t, r)
        <2>1. requests[t][r] = "retry" /\ UNCHANGED <<server, jar, refresh, channel>>
            BY <1>4 DEF retry
        <2>2. Accepted
            BY <2>1 DEF NobodyFails, RetriesDue, Accepted
        <2>3. TokensOK'
            BY <2>1, TokensFrame
        <2>4. NobodyFails'
            BY <1>1, <1>4, <2>1, <2>2, NobodyFrame DEF retry
        <2> QED
            BY <2>3, <2>4
    <1> QED
        BY <1>2, <1>3, <1>4

\* The server rotates the current token, or answers that it just has.
LEMMA RotateQuiet ==
    ASSUME TypeOK, TokensOK, NobodyFails, ~disturbed', server.alive,
           NEW t \in Tab, rotateSession(t)
    PROVE  /\ server'.alive /\ server'.reused = server.reused
           /\ TokensOK' /\ NobodyFails'
    <1>1. /\ server \in Server /\ jar \in Jar /\ refresh \in [Tab -> Refresh]
          /\ server.token \in Nat \ {NoToken} /\ jar.token \in Nat
          /\ refresh[t].sent \in Nat
        BY DEF TypeOK, Server, Jar, Token, Refresh
    <1>2. /\ refresh[t].pc = "post" /\ RefreshOK(t)
          /\ UNCHANGED <<jar, status, requests, external, channel>>
        BY DEF rotateSession, TokensOK
    <1>3. NobodyFails'
        BY <1>2, NobodyFrame
    <1>4. PICK answer \in {"rotated", "conflict", "refused"} :
             /\ refresh' = [refresh EXCEPT ![t].pc = "served", ![t].answer = answer]
             /\ \/ /\ answer = "rotated"
                   /\ refresh[t].sent = server.token
                   /\ server' = [server EXCEPT !.token = @ + 1, !.window = TRUE]
                   /\ ~OvertakenTwice(t)
                \/ /\ answer = "conflict"
                   /\ refresh[t].sent + 1 = server.token
                   /\ server' = server
        <2>1. CASE refresh[t].sent = server.token
            <3>1. /\ ~(refresh[t].sent + 1 = server.token)
                  /\ ~(refresh[t].sent + 1 < server.token)
                  /\ refresh[t].sent # NoToken
                BY <1>1, <2>1
            <3>2. /\ server' = [server EXCEPT !.token = @ + 1, !.window = TRUE]
                  /\ refresh' = [refresh EXCEPT ![t].pc = "served",
                                                ![t].answer = "rotated"]
                  /\ disturbed' = (disturbed \/ OvertakenTwice(t))
                BY <3>1 DEF rotateSession, InRaceWindow
            <3> QED
                BY <2>1, <3>2
        <2>2. CASE refresh[t].sent # server.token
            <3>1. /\ refresh[t].sent + 1 = server.token /\ refresh[t].sent # NoToken
                  /\ InRaceWindow(refresh[t].sent)
                BY <1>1, <1>2, <2>2 DEF RefreshOK, InRaceWindow
            <3> QED
                BY <1>1, <2>2, <3>1 DEF rotateSession
        <2> QED
            BY <2>1, <2>2
    <1>5. PICK served : served = [refresh[t] EXCEPT !.pc = "served", !.answer = answer]
        OBVIOUS
    <1>6. /\ refresh'[t] = served /\ \A u \in Tab \ {t} : refresh'[u] = refresh[u]
          /\ served.pc = "served" /\ served.answer = answer
          /\ served.sent = refresh[t].sent /\ served.attempt = refresh[t].attempt
        BY <1>1, <1>4, <1>5 DEF Refresh
    <1>7. CASE answer = "rotated"
        <2>1. /\ server'.token = server.token + 1 /\ server'.window
              /\ server'.alive /\ server'.reused = server.reused
              /\ refresh[t].sent = server.token
            BY <1>1, <1>4, <1>7 DEF Server
        <2>2. jar.token = server.token
            BY <1>1, <1>2, <2>1 DEF TokensOK, RefreshOK
        \* No other rotation is on its way, and who is overtaken can try again.
        <2>3. \A u \in Tab : ~Installs(u)
            BY <2>2 DEF TokensOK, RefreshOK, Installs
        <2>4. RefreshOK(t)'
            BY <1>1, <1>2, <1>6, <1>7, <2>1, <2>2 DEF RefreshOK
        <2>5. ASSUME NEW u \in Tab \ {t} PROVE RefreshOK(u)' /\ ~Installs(u)'
            <3>1. refresh'[u] = refresh[u] /\ RefreshOK(u) /\ ~Installs(u)
                BY <1>6, <2>3 DEF TokensOK
            <3>2. refresh[u].pc = "post" =>
                     refresh[u].sent = server.token /\ refresh[u].attempt = 1
                <4>1. refresh[u].attempt \in {1, 2}
                    BY <1>1 DEF Refresh
                <4> QED
                    BY <1>4, <1>7, <4>1 DEF OvertakenTwice
            <3>3. ~Installs(u)'
                BY <3>1 DEF Installs
            <3>4. RefreshOK(u)'
                BY <1>1, <1>2, <2>1, <2>2, <3>1, <3>2 DEF RefreshOK, Installs
            <3> QED
                BY <3>3, <3>4
        <2>6. TokensOK'
            BY <1>1, <1>2, <2>1, <2>2, <2>4, <2>5 DEF TokensOK, NoToken
        <2> QED
            BY <1>3, <2>1, <2>6
    <1>8. CASE answer = "conflict"
        <2>1. server' = server /\ refresh[t].sent # server.token
            BY <1>1, <1>4, <1>8
        <2>2. RefreshOK(t)' /\ ~Installs(t)'
            BY <1>2, <1>6, <1>8, <2>1 DEF RefreshOK, Installs
        <2>3. \A u \in Tab \ {t} : RefreshOK(u)' /\ (Installs(u)' => Installs(u))
            BY <1>2, <1>6, <2>1 DEF TokensOK, RefreshOK, Installs
        <2>4. TokensOK'
            BY <1>2, <2>1, <2>2, <2>3 DEF TokensOK
        <2> QED
            BY <1>3, <2>1, <2>4
    <1> QED
        BY <1>4, <1>7, <1>8

\* The requests of a tab whose refresh succeeded are retried with a fresh cookie.
LEMMA SuccessQuiet ==
    ASSUME TypeOK, NobodyFails, NEW t \in Tab, Succeed(t), jar'.access
    PROVE  NobodyFails'
    <1>1. /\ requests \in [Tab -> [Request -> RequestState]]
          /\ requests' = AfterRefresh(t, "retry") /\ status' = status
        BY DEF TypeOK, RequestState, Succeed
    <1>2. /\ \A u \in Tab \ {t} : requests'[u] = requests[u]
          /\ \A r \in Request : requests'[t][r] =
                IF requests[t][r] = "waiting" THEN "retry" ELSE requests[t][r]
        BY <1>1, AfterRefreshTyped DEF RequestState
    <1> QED
        BY <1>1, <1>2 DEF NobodyFails

LEMMA AnswerQuiet ==
    ASSUME TypeOK, TokensOK, NobodyFails, ~disturbed', server'.alive, NEW t \in Tab,
           \/ rotated(t) \/ conflict(t) \/ postAgain(t) \/ rejected(t)
           \/ networkError(t) \/ close(t)
    PROVE  TokensOK' /\ NobodyFails'
    <1>1. /\ server.token \in Nat \ {NoToken} /\ jar.token \in Nat /\ jar \in Jar
          /\ refresh \in [Tab -> Refresh] /\ channel \in [Tab -> Seq(Message)]
          /\ requests \in [Tab -> [Request -> RequestState]]
          /\ status \in [Tab -> {"open", "anonymous", "closed"}]
        BY DEF TypeOK, Server, Jar, Token, Message, RequestState
    <1>2. RefreshOK(t)
        BY DEF TokensOK
    <1>3. CASE rotated(t)
        <2>1. /\ Installs(t) /\ refresh[t].sent = jar.token /\ jar.token # server.token
              /\ jar'.token = refresh[t].sent + 1 /\ jar'.access
              /\ server' = server /\ refresh' = [refresh EXCEPT ![t] = NoRefresh]
            BY <1>2, <1>3 DEF rotated, RefreshOK, Installs, Succeed
        <2>2. jar'.token = server.token /\ server'.token = server.token
            BY <1>1, <2>1 DEF TokensOK
        <2>3. /\ refresh'[t].pc = "none"
              /\ \A u \in Tab \ {t} : refresh'[u] = refresh[u] /\ ~Installs(u)
            BY <1>1, <2>1, RefreshTyped DEF TokensOK
        <2>4. RefreshOK(t)' /\ ~Installs(t)'
            BY <2>3 DEF RefreshOK, Installs
        <2>5. \A u \in Tab \ {t} : RefreshOK(u)' /\ ~Installs(u)'
            <3>1. ASSUME NEW u \in Tab \ {t} PROVE RefreshOK(u)' /\ ~Installs(u)'
                <4>1. RefreshOK(u) /\ refresh'[u] = refresh[u] /\ ~Installs(u)
                    BY <2>3 DEF TokensOK
                <4>2. refresh[u].sent \in Nat
                    BY <1>1 DEF Refresh, Token
                <4> QED
                    BY <1>1, <2>1, <2>2, <4>1, <4>2 DEF RefreshOK, Installs
            <3> QED
                BY <3>1
        <2>6. TokensOK'
            BY <1>1, <2>2, <2>4, <2>5 DEF TokensOK
        <2>7. NobodyFails'
            BY <1>3, <2>1, SuccessQuiet DEF rotated
        <2> QED
            BY <2>6, <2>7
    <1>4. CASE conflict(t)
        <2>1. TokensOK'
            <3>1. refresh'[t].pc = "delay" /\ \A u \in Tab \ {t} : refresh'[u] = refresh[u]
                BY <1>1, <1>4 DEF conflict, Refresh
            <3> QED
                BY <1>4, <3>1, TokensFrame DEF conflict
        <2>2. NobodyFails'
            BY <1>4, NobodyFrame DEF conflict
        <2> QED
            BY <2>1, <2>2
    <1>5. CASE postAgain(t)
        <2>1. jar.token = server.token /\ refresh' = [refresh EXCEPT ![t] = Post(2)]
            BY <1>5 DEF postAgain, SecondPost
        <2>2. \A u \in Tab : \/ refresh'[u] = refresh[u]
                             \/ refresh'[u].pc = "post" /\ refresh'[u].sent = jar.token
            BY <1>1, <2>1, RefreshTyped
        <2>3. TokensOK'
            BY <1>5, <2>1, <2>2, TokensFrame DEF postAgain
        <2>4. NobodyFails'
            BY <1>5, NobodyFrame DEF postAgain
        <2> QED
            BY <2>3, <2>4
    <1>6. CASE rejected(t)
        BY <1>2, <1>6 DEF rejected, RefreshOK
    <1>7. CASE networkError(t)
        BY <1>7 DEF networkError
    <1>8. CASE close(t)
        <2>1. TokensOK'
            <3>1. refresh'[t].pc = "none" /\ \A u \in Tab \ {t} : refresh'[u] = refresh[u]
                BY <1>1, <1>8, RefreshTyped DEF close
            <3> QED
                BY <1>8, <3>1, TokensFrame DEF close
        <2>2. GoodNews(channel') => GoodNews(channel)
            BY <1>1, <1>8, NewsKept DEF close
        <2>3. NobodyFails'
            BY <1>1, <1>8, <2>2, NobodyFrame DEF close
        <2> QED
            BY <2>1, <2>3
    <1> QED
        BY <1>3, <1>4, <1>5, <1>6, <1>7, <1>8

\* A tab that hears of another's refresh takes its cookie, or begins its own.
LEMMA HearQuiet ==
    ASSUME TypeOK, TokensOK, NobodyFails, NEW t \in Tab, receive(t) \/ timeout(t)
    PROVE  TokensOK' /\ NobodyFails'
    <1>1. /\ channel \in [Tab -> Seq(Message)] /\ refresh \in [Tab -> Refresh]
          /\ jar \in Jar
        BY DEF TypeOK, Message
    <1>2. PICK handled \in [Tab -> Seq(Message)], successful \in BOOLEAN :
             /\ \/ handled = channel
                \/ channel[t] # <<>> /\ handled = [channel EXCEPT ![t] = Tail(@)]
             /\ successful => channel[t] # <<>> /\ Head(channel[t]) = "successful"
             /\ \/ Resolve(t, successful, handled)
                \/ /\ channel' = handled
                   /\ external' \in [Tab -> BOOLEAN]
                   /\ UNCHANGED <<server, jar, status, requests, refresh, disturbed>>
        BY Received
    <1>3. /\ GoodNews(handled) => GoodNews(channel)
          /\ successful => jar.access
        BY <1>1, <1>2, NewsKept, RetriesDueMeans DEF NobodyFails
    <1>4. CASE /\ channel' = handled
               /\ UNCHANGED <<server, jar, status, requests, refresh>>
        BY <1>3, <1>4, TokensFrame, NobodyFrame
    <1>5. CASE Resolve(t, successful, handled)
        <2>1. UNCHANGED <<server, jar>>
            BY <1>5 DEF Resolve
        <2>2. CASE refresh[t].pc # "external"
            BY <1>3, <1>5, <2>1, <2>2, TokensFrame, NobodyFrame DEF Resolve
        <2>3. CASE refresh[t].pc = "external" /\ successful
            <3>1. Succeed(t)
                BY <1>5, <2>3 DEF Resolve
            <3>2. refresh'[t].pc = "none" /\ \A u \in Tab \ {t} : refresh'[u] = refresh[u]
                BY <1>1, <3>1, RefreshTyped DEF Succeed
            <3>3. TokensOK'
                BY <2>1, <3>2, TokensFrame
            <3>4. NobodyFails'
                BY <1>3, <2>1, <2>3, <3>1, SuccessQuiet
            <3> QED
                BY <3>3, <3>4
        <2>4. CASE refresh[t].pc = "external" /\ ~successful
            <3>1. /\ refresh' = [refresh EXCEPT ![t] = Post(1)]
                  /\ channel' = Told(t, "start", handled)
                  /\ UNCHANGED <<status, requests>>
                BY <1>5, <2>4 DEF Resolve
            <3>2. \A u \in Tab : \/ refresh'[u] = refresh[u]
                                 \/ /\ refresh'[u].pc = "post"
                                    /\ refresh'[u].sent = jar.token
                                    /\ refresh'[u].attempt = 1
                BY <1>1, <3>1, RefreshTyped
            <3>3. TokensOK'
                BY <2>1, <3>2, TokensFrame
            <3>4. GoodNews(channel') => GoodNews(channel)
                BY <1>2, <1>3, <3>1, NewsKept DEF Message
            <3>5. NobodyFails'
                BY <2>1, <3>1, <3>4, NobodyFrame
            <3> QED
                BY <3>3, <3>5
        <2> QED
            BY <2>2, <2>3, <2>4
    <1> QED
        BY <1>2, <1>4, <1>5

\* A session that ended stays so, and what was disturbed too.
LEMMA OnceOver ==
    ASSUME TypeOK, [Next]_vars
    PROVE  /\ ~disturbed' => ~disturbed
           /\ server'.alive => server.alive
           /\ (\A t \in Tab : ~rotateSession(t)) => server'.reused = server.reused
    <1>1. server \in Server
        BY DEF TypeOK
    <1>2. disturbed' = TRUE \/ disturbed' = disturbed \/ (~disturbed' => ~disturbed)
        BY DEF Next, TabStep, ExpireAccess, CloseWindow, Revoke, send, intercept, retry,
               rotateSession, rotated, conflict, postAgain, rejected, networkError, close,
               receive, timeout, Resolve, vars
    <1>3. ASSUME NEW t \in Tab, rotateSession(t) PROVE server'.alive => server.alive
        BY <1>1, <1>3 DEF rotateSession, Server
    <1>4. \/ server' = server
          \/ server' = [server EXCEPT !.window = FALSE]
          \/ server' = [server EXCEPT !.alive = FALSE]
          \/ \E t \in Tab : rotateSession(t)
        BY DEF Next, TabStep, ExpireAccess, CloseWindow, Revoke, send, intercept, retry,
               rotated, conflict, postAgain, rejected, networkError, close,
               receive, timeout, Resolve, vars
    <1> QED
        BY <1>1, <1>2, <1>3, <1>4 DEF Server

LEMMA UndisturbedNext == TypeOK /\ Undisturbed /\ [Next]_vars => Undisturbed'
    <1> SUFFICES ASSUME TypeOK, Undisturbed, [Next]_vars, ~disturbed'
                 PROVE  ~server'.reused /\ (server'.alive => TokensOK' /\ NobodyFails')
        BY DEF Undisturbed
    <1>1. ~disturbed /\ ~server.reused /\ (server'.alive => server.alive)
        BY OnceOver DEF Undisturbed
    <1>2. ASSUME NEW t \in Tab, rotateSession(t)
          PROVE  ~server'.reused /\ (server'.alive => TokensOK' /\ NobodyFails')
        <2>1. CASE server.alive
            BY <1>1, <1>2, <2>1, RotateQuiet DEF Undisturbed
        <2>2. CASE ~server.alive
            BY <1>1, <1>2, <2>2 DEF rotateSession
        <2> QED
            BY <2>1, <2>2
    <1>3. ASSUME \A t \in Tab : ~rotateSession(t)
          PROVE  ~server'.reused /\ (server'.alive => TokensOK' /\ NobodyFails')
        <2>1. ~server'.reused
            BY <1>1, <1>3, OnceOver
        <2>2. ASSUME server'.alive PROVE TokensOK' /\ NobodyFails'
            <3>1. TokensOK /\ NobodyFails
                BY <1>1, <2>2 DEF Undisturbed
            <3> QED
                BY <1>3, <2>2, <3>1, WorldQuiet, RequestQuiet, AnswerQuiet, HearQuiet
                   DEF Next, TabStep
        <2> QED
            BY <2>1, <2>2
    <1> QED
        BY <1>2, <1>3

LEMMA InitUndisturbed == Init => Undisturbed
    BY DEF Init, Undisturbed, TokensOK, NobodyFails, RefreshOK, Installs, RetriesDue,
           NoRefresh, NoToken

-----------------------------------------------------------------------------
\* Theorems

THEOREM RenewalInductiveHolds == Spec => []RenewalInductive
    <1>1. Init => RenewalInductive
        BY InitTypes, InitUndisturbed DEF RenewalInductive
    <1>2. RenewalInductive /\ [Next]_vars => RenewalInductive'
        BY TypesNext, UndisturbedNext DEF RenewalInductive
    <1> QED
        BY <1>1, <1>2, PTL DEF Spec

\* However many tabs renew the session at once and however their refreshes,
\* messages and retries overlap, no request is left behind, none is taken for a
\* replay and nobody is signed out, as long as nothing is lost or too slow (api.ts
\* lines 22-138, sessionService.rotateSession).
THEOREM RenewalSafe == Spec => []RenewalInv
    <1>1. RenewalInductive => RenewalInv
        BY DEF RenewalInductive, Undisturbed, NobodyFails, RenewalInv, RenewalQuiet
    <1> QED
        BY <1>1, RenewalInductiveHolds, PTL

-----------------------------------------------------------------------------
(* Cleanup *)

\* A run captured its time in the past; it has batches left while it runs and is
\* at a target while it reports.
RunBounded ==
    /\ run.now <= now
    /\ run.pc = "running" => run.batches < MaxBatches
    /\ run.pc = "reported" => run.target <= Len(cleanupTargets)
    /\ ~run.dryRun => run.rows <= run.batches * BatchSize

\* Setting an item moves the time of its cart forward only.
SettingsForward ==
    \A r \in Row : setting[r].pc # "no" =>
        /\ TableOf[r] = "carts"
        /\ setting[r].since <= now
        /\ Exists(r) => rows[r].at <= setting[r].since

CartsPast == \A r \in Row : Exists(r) /\ TableOf[r] = "carts" => rows[r].at <= now

CleanupInductive == CleanupInv /\ RunBounded /\ SettingsForward /\ CartsPast

-----------------------------------------------------------------------------
\* Operators

LEMMA Bounds ==
    /\ Ttl \in Nat /\ Ttl > 0
    /\ BatchSize \in Nat /\ BatchSize > 0
    /\ MaxBatches \in Nat /\ MaxBatches > 0
    /\ MaxNow \in Nat
    <1>1. Ttl \in Nat \ {0} /\ BatchSize \in Nat \ {0} /\ MaxBatches \in Nat \ {0}
        BY CleanupAssumption
    <1>2. MaxNow \in Nat
        BY CleanupAssumption
    <1> QED
        BY <1>1, <1>2

LEMMA TargetsKnown ==
    /\ Len(cleanupTargets) = 6
    /\ DOMAIN cleanupTargets = 1 .. 6
    /\ \A i \in 1 .. 6 : cleanupTargets[i] \in Target
    /\ Target = {"sessions", "accountTokens", "pendingEmailChanges",
                 "readNotifications", "unreadNotifications", "carts"}
    BY DEF cleanupTargets, Target

LEMMA RowsTyped ==
    /\ \A time \in Time : RowAt(time) \in RowRecord /\ RowAt(time) # NoRow
    /\ \A row \in RowRecord : row # NoRow =>
          /\ row \in [at: Time, isRead: BOOLEAN]
          /\ \A isRead \in BOOLEAN, time \in Time :
                LET changed == [row EXCEPT !.isRead = isRead, !.at = time]
                IN  changed \in RowRecord /\ changed # NoRow
          /\ \A time \in Time :
                LET touched == [row EXCEPT !.at = time]
                IN  touched \in RowRecord /\ touched # NoRow
    <1>1. Time \subseteq Nat
        BY CleanupAssumption DEF Time
    <1>2. \A row \in [at: Time, isRead: BOOLEAN] : row.at # NoRow.at /\ row # NoRow
        <2> SUFFICES ASSUME NEW row \in [at: Time, isRead: BOOLEAN]
                     PROVE  row.at # NoRow.at /\ row # NoRow
            OBVIOUS
        <2>1. row.at \in Nat
            BY <1>1
        <2>2. NoRow.at = None
            BY DEF NoRow
        <2> QED
            BY <2>1, <2>2, CleanupAssumption
    <1>3. \A time \in Time : RowAt(time) \in [at: Time, isRead: BOOLEAN]
        BY DEF RowAt
    <1>4. ASSUME NEW row \in RowRecord, row # NoRow
          PROVE  /\ row \in [at: Time, isRead: BOOLEAN]
                 /\ \A isRead \in BOOLEAN, time \in Time :
                       [row EXCEPT !.isRead = isRead, !.at = time]
                            \in [at: Time, isRead: BOOLEAN]
                 /\ \A time \in Time :
                       [row EXCEPT !.at = time] \in [at: Time, isRead: BOOLEAN]
        BY <1>4 DEF RowRecord
    <1> QED
        BY <1>2, <1>3, <1>4 DEF RowRecord

LEMMA TimesTyped ==
    ASSUME now \in 0 .. MaxNow
    PROVE  now \in Time /\ now + Ttl \in Time
    BY CleanupAssumption DEF Time

\* A batch takes no more rows than its limit, and one more batch is within the
\* bound of the batches.
LEMMA BatchesBounded ==
    ASSUME NEW batches \in Nat, NEW count \in Nat, NEW size \in Nat,
           batches < MaxBatches, count <= batches * BatchSize, size <= BatchSize
    PROVE  /\ count + size \in 0 .. BatchSize * MaxBatches
           /\ count + size <= (batches + 1) * BatchSize
           /\ BatchSize <= BatchSize * MaxBatches
    <1> BatchSize \in Nat \ {0} /\ MaxBatches \in Nat \ {0}
        BY CleanupAssumption
    <1>1. (batches + 1) * BatchSize = batches * BatchSize + BatchSize
        OBVIOUS
    <1>2. PICK k \in Nat : MaxBatches = batches + 1 + k
        <2>1. MaxBatches - (batches + 1) \in Nat
            OBVIOUS
        <2> QED
            BY <2>1
    <1>3. BatchSize * MaxBatches = (batches + 1) * BatchSize + k * BatchSize
        BY <1>2
    <1>4. k * BatchSize \in Nat /\ batches * BatchSize \in Nat
        OBVIOUS
    <1> QED
        BY <1>1, <1>3, <1>4

LEMMA NewTargetTyped ==
    ASSUME now \in 0 .. MaxNow, NEW dryRun \in BOOLEAN, NEW target \in 1 .. 7
    PROVE  /\ NewTarget(dryRun, target) \in Run
           /\ NoRun \in Run
           /\ \A time \in 0 .. MaxNow :
                 [NewTarget(dryRun, target) EXCEPT !.now = time] \in Run
    <1>1. 0 \in 0 .. BatchSize * MaxBatches
        <2>1. BatchSize \in Nat /\ MaxBatches \in Nat
            BY CleanupAssumption
        <2>2. BatchSize * MaxBatches \in Nat
            BY <2>1
        <2> QED
            BY <2>2
    <1>2. 0 \in 0 .. MaxBatches /\ 0 \in 0 .. MaxNow
        BY CleanupAssumption
    <1>3. target \in 1 .. Len(cleanupTargets) + 1 /\ 1 \in 1 .. Len(cleanupTargets) + 1
        BY TargetsKnown
    <1>4. \A goal \in 1 .. Len(cleanupTargets) + 1, how \in BOOLEAN :
                NewTarget(how, goal) \in Run
        BY <1>1, <1>2 DEF NewTarget, Run
    <1>5. NoRun \in Run
        <2>1. NewTarget(FALSE, 1) \in Run
            BY <1>3, <1>4
        <2>2. \A old \in Run, time \in 0 .. MaxNow :
                    [old EXCEPT !.pc = "idle", !.now = time] \in Run
            BY DEF Run
        <2> QED
            BY <1>2, <2>1, <2>2 DEF NoRun
    <1> QED
        BY <1>3, <1>4, <1>5 DEF Run

LEMMA EligibleFinite ==
    /\ Eligible \subseteq Row
    /\ \A S \in SUBSET Row : IsFiniteSet(S) /\ Cardinality(S) \in Nat
    BY CleanupAssumption, FS_Subset, FS_CardinalityType DEF Eligible

\* A row whose time is not before the run is not due yet.
LEMMA RecentNotDue ==
    ASSUME NEW target \in Target, NEW since \in Nat, NEW at \in Nat, since <= at
    PROVE  ~(at <= since - Retention[target])
    <1>1. Retention[target] \in Nat \ {0}
        BY CleanupAssumption
    <1> QED
        BY <1>1

-----------------------------------------------------------------------------
\* Types

LEMMA ChangeTypes ==
    ASSUME CleanupTypeOK, NEW r \in Row, NEW row \in RowRecord,
           row.isRead => TableOf[r] = "notifications",
           Change(r, row)
    PROVE  CleanupTypeOK'
    <1>1. rows' \in [Row -> RowRecord]
        BY DEF CleanupTypeOK, Change
    <1>2. \A s \in Row : rows'[s].isRead => TableOf[s] = "notifications"
        BY DEF CleanupTypeOK, Change
    <1> QED
        BY <1>1, <1>2 DEF CleanupTypeOK, Change

Setting == [pc: {"no", "item", "touch"}, since: 0 .. MaxNow]

LEMMA UserTypes ==
    ASSUME CleanupTypeOK, NEW r \in Row, User(r)
    PROVE  CleanupTypeOK'
    <1>0. /\ now \in 0 .. MaxNow /\ now \in Time /\ now + Ttl \in Time
          /\ rows[r] \in RowRecord
          /\ rows[r].isRead => TableOf[r] = "notifications"
        BY TimesTyped DEF CleanupTypeOK
    <1>8. /\ setting \in [Row -> Setting]
          /\ NoSetting \in Setting
          /\ \A old \in Setting : [old EXCEPT !.pc = "touch"] \in Setting
        <2>1. 0 \in 0 .. MaxNow
            BY Bounds
        <2>2. NoSetting \in Setting
            BY <2>1 DEF NoSetting, Setting
        <2>3. \A old \in Setting : [old EXCEPT !.pc = "touch"] \in Setting
            BY DEF Setting
        <2> QED
            BY <2>2, <2>3 DEF CleanupTypeOK, Setting
    <1>1. CASE create(r)
        <2>1. \A time \in Time : RowAt(time).isRead = FALSE
            BY DEF RowAt
        <2> QED
            BY <1>0, <1>1, <2>1, RowsTyped, ChangeTypes DEF create
    <1>2. CASE terminate(r)
        <2>1. \A time \in Time : RowAt(time).isRead = FALSE
            BY DEF RowAt
        <2> QED
            BY <1>0, <1>2, <2>1, RowsTyped, ChangeTypes DEF terminate
    <1>3. ASSUME NEW isRead \in BOOLEAN, updateRead(r, isRead)
          PROVE  CleanupTypeOK'
        BY <1>0, <1>3, RowsTyped, ChangeTypes DEF updateRead, Exists
    <1>4. CASE LockRow(r) \/ UnlockRow(r)
        BY <1>4 DEF LockRow, UnlockRow, CleanupTypeOK
    <1>5. CASE insertCart(r)
        <2>1. RowAt(now) \in RowRecord /\ ~RowAt(now).isRead
            BY <1>0, RowsTyped DEF RowAt
        <2>2. rows' \in [Row -> RowRecord]
              /\ \A s \in Row : rows'[s].isRead => TableOf[s] = "notifications"
            BY <1>5, <2>1 DEF insertCart, CleanupTypeOK
        <2>3. setting' \in [Row -> [pc: {"no", "item", "touch"}, since: 0 .. MaxNow]]
            BY <1>5, <1>0 DEF insertCart, CleanupTypeOK
        <2> QED
            BY <1>5, <2>2, <2>3 DEF insertCart, CleanupTypeOK
    <1>6. CASE insertCartItem(r)
        <2>1. /\ [setting EXCEPT ![r].pc = "touch"] \in [Row -> Setting]
              /\ [setting EXCEPT ![r] = NoSetting] \in [Row -> Setting]
            BY <1>8
        <2>2. setting' \in [Row -> Setting]
            BY <1>6, <2>1 DEF insertCartItem
        <2> QED
            BY <1>6, <2>2 DEF insertCartItem, CleanupTypeOK, Setting
    <1>7. CASE touchCart(r)
        <2>1. setting[r].since \in Time
            <3>1. setting[r].since \in 0 .. MaxNow
                BY DEF CleanupTypeOK
            <3> QED
                BY <3>1, Bounds DEF Time
        <2>2. \A row \in RowRecord : Exists(r) /\ row = rows[r] =>
                    /\ [row EXCEPT !.at = setting[r].since] \in RowRecord
                    /\ [row EXCEPT !.at = setting[r].since].isRead = row.isRead
            BY <2>1 DEF Exists, RowRecord
        <2>3. rows' \in [Row -> RowRecord]
              /\ \A s \in Row : rows'[s].isRead => TableOf[s] = "notifications"
            BY <1>7, <2>2 DEF touchCart, CleanupTypeOK
        <2>4. setting' \in [Row -> Setting]
            BY <1>7, <1>8 DEF touchCart
        <2> QED
            BY <1>7, <2>3, <2>4 DEF touchCart, CleanupTypeOK, Setting
    <1> QED
        BY <1>1, <1>2, <1>3, <1>4, <1>5, <1>6, <1>7 DEF User

\* What a batch does to the run and the rows.
LEMMA BatchTaken ==
    ASSUME CleanupTypeOK, RunBounded, deleteEligible
    PROVE  \E batch \in SUBSET (Eligible \ locked), size \in 0 .. BatchSize :
              /\ size = Cardinality(batch)
              /\ size = BatchSize \/ batch = Eligible \ locked
              /\ rows' = [r \in Row |-> IF r \in batch THEN NoRow ELSE rows[r]]
              /\ run' = [run EXCEPT
                    !.pc = IF LoopEnds(size, run.batches + 1) THEN "reported" ELSE @,
                    !.batches = run.batches + 1,
                    !.rows = run.rows + size,
                    !.limitReached = run.batches + 1 = MaxBatches /\ size = BatchSize,
                    !.skipped = Eligible \cap locked]
    <1>1. PICK batch \in SUBSET (Eligible \ locked) :
              /\ Cardinality(batch) <= BatchSize
              /\ Cardinality(batch) = BatchSize \/ batch = Eligible \ locked
              /\ rows' = [r \in Row |-> IF r \in batch THEN NoRow ELSE rows[r]]
              /\ run' = [run EXCEPT
                    !.pc = IF LoopEnds(Cardinality(batch), run.batches + 1)
                           THEN "reported" ELSE @,
                    !.batches = run.batches + 1,
                    !.rows = run.rows + Cardinality(batch),
                    !.limitReached = run.batches + 1 = MaxBatches
                                        /\ Cardinality(batch) = BatchSize,
                    !.skipped = Eligible \cap locked]
        BY DEF deleteEligible
    <1>2. Cardinality(batch) \in 0 .. BatchSize
        <2>1. batch \in SUBSET Row
            BY EligibleFinite
        <2> QED
            BY <1>1, <2>1, EligibleFinite, CleanupAssumption
    <1> QED
        BY <1>1, <1>2

LEMMA RunnerTypes ==
    ASSUME CleanupTypeOK, RunBounded,
           \/ \E dryRun \in BOOLEAN : runDataCleanup(dryRun)
           \/ Runner
           \/ failRun
    PROVE  CleanupTypeOK' /\ RunBounded'
    <1>0. /\ now \in 0 .. MaxNow /\ 1 \in 1 .. 7
          /\ run \in Run
          /\ run.now \in 0 .. MaxNow /\ run.dryRun \in BOOLEAN
          /\ run.target \in 1 .. 7
          /\ run.batches \in Nat /\ run.rows \in Nat
        BY TargetsKnown DEF CleanupTypeOK, Run
    <1>1. CASE \E dryRun \in BOOLEAN : runDataCleanup(dryRun)
        <2>1. PICK dryRun \in BOOLEAN : run' = NewTarget(dryRun, 1)
                                        /\ UNCHANGED <<now, rows, setting, locked>>
            BY <1>1 DEF runDataCleanup
        <2>2. run' \in Run
            BY <1>0, <2>1, NewTargetTyped
        <2>3. /\ run'.now = now /\ run'.pc = "running" /\ run'.rows = 0
              /\ run'.batches = 0
            BY <2>1 DEF NewTarget
        <2>4. CleanupTypeOK'
            BY <2>1, <2>2 DEF CleanupTypeOK
        <2> QED
            BY <1>0, <2>1, <2>3, <2>4, Bounds DEF RunBounded
    <1>2. CASE previewEligible
        <2>1. PICK count \in 0 .. BatchSize, more \in BOOLEAN :
                 /\ run' = [run EXCEPT !.pc = "reported", !.rows = count,
                                      !.limitReached = more]
                 /\ run.dryRun /\ run.target <= 6
                 /\ UNCHANGED <<now, rows, setting, locked>>
            <3>1. Cardinality(Eligible) \in Nat
                BY EligibleFinite
            <3>2. PICK count :
                    count = IF Cardinality(Eligible) > BatchSize THEN BatchSize
                            ELSE Cardinality(Eligible)
                OBVIOUS
            <3>3. PICK more : more = (Cardinality(Eligible) > BatchSize)
                OBVIOUS
            <3>4. count \in 0 .. BatchSize
                BY <3>1, <3>2, Bounds
            <3>5. more \in BOOLEAN
                BY <3>3
            <3>6. run' = [run EXCEPT !.pc = "reported", !.rows = count,
                                    !.limitReached = more]
                BY <1>2, <3>2, <3>3 DEF previewEligible
            <3>7. run.dryRun /\ run.target <= 6
                  /\ UNCHANGED <<now, rows, setting, locked>>
                BY <1>2, TargetsKnown DEF previewEligible
            <3> QED
                BY <3>4, <3>5, <3>6, <3>7
        <2>2. count \in 0 .. BatchSize * MaxBatches
            <3>1. count <= BatchSize /\ BatchSize <= BatchSize * MaxBatches
                BY Bounds, BatchesBounded
            <3> QED
                BY <3>1, Bounds
        <2>3. run' \in Run
            BY <1>0, <2>1, <2>2 DEF Run
        <2>4. /\ run'.now = run.now /\ run'.pc = "reported" /\ run'.dryRun
              /\ run'.target = run.target
            BY <1>0, <2>1 DEF Run
        <2>5. CleanupTypeOK'
            BY <2>1, <2>3 DEF CleanupTypeOK
        <2> QED
            BY <2>1, <2>4, <2>5, TargetsKnown DEF RunBounded
    <1>3. CASE deleteEligible
        <2>1. PICK batch \in SUBSET (Eligible \ locked), size \in 0 .. BatchSize :
                 /\ rows' = [r \in Row |-> IF r \in batch THEN NoRow ELSE rows[r]]
                 /\ run' = [run EXCEPT
                       !.pc = IF LoopEnds(size, run.batches + 1) THEN "reported" ELSE @,
                       !.batches = run.batches + 1,
                       !.rows = run.rows + size,
                       !.limitReached = run.batches + 1 = MaxBatches
                                            /\ size = BatchSize,
                       !.skipped = Eligible \cap locked]
            BY <1>3, BatchTaken
        <2>2. /\ run.pc = "running" /\ ~run.dryRun /\ run.target <= 6
              /\ UNCHANGED <<now, setting, locked>>
            BY <1>3, TargetsKnown DEF deleteEligible
        <2>3. run.batches < MaxBatches /\ run.rows <= run.batches * BatchSize
              /\ run.now <= now
            BY <2>2 DEF RunBounded
        <2>4. size \in Nat /\ size <= BatchSize
            BY Bounds
        <2>5. /\ run.rows + size \in 0 .. BatchSize * MaxBatches
              /\ run.rows + size <= (run.batches + 1) * BatchSize
            BY <1>0, <2>3, <2>4, BatchesBounded
        <2>6. run.batches + 1 \in 0 .. MaxBatches
            BY <1>0, <2>3, Bounds
        <2>7. Eligible \cap locked \in SUBSET Row
            BY EligibleFinite
        <2>8. run' \in Run
            BY <1>0, <2>1, <2>5, <2>6, <2>7 DEF Run
        <2>9. /\ run'.pc = IF LoopEnds(size, run.batches + 1) THEN "reported"
                          ELSE "running"
              /\ run'.batches = run.batches + 1 /\ run'.rows = run.rows + size
              /\ run'.now = run.now /\ run'.target = run.target
            BY <1>0, <2>1, <2>2 DEF Run
        <2>10. rows' \in [Row -> RowRecord]
               /\ \A r \in Row : rows'[r].isRead => TableOf[r] = "notifications"
            <3>1. NoRow \in RowRecord /\ ~NoRow.isRead
                BY DEF NoRow, RowRecord
            <3> QED
                BY <2>1, <3>1 DEF CleanupTypeOK
        <2>11. CleanupTypeOK'
            BY <2>2, <2>8, <2>10 DEF CleanupTypeOK
        <2>12. run'.pc = "running" => run'.batches < MaxBatches
            BY <1>0, <2>3, <2>9, Bounds DEF LoopEnds
        <2> QED
            BY <2>2, <2>3, <2>5, <2>9, <2>11, <2>12, TargetsKnown DEF RunBounded
    <1>4. CASE nextTarget
        <2>1. run.pc = "reported" /\ run.target <= 6 /\ run.now <= now
            BY <1>4, TargetsKnown DEF nextTarget, RunBounded
        <2>2. run.target + 1 \in 1 .. 7
            BY <1>0, <2>1
        <2>3. run' = [NewTarget(run.dryRun, run.target + 1) EXCEPT !.now = run.now]
              /\ UNCHANGED <<now, rows, setting, locked>>
            BY <1>4 DEF nextTarget
        <2>4. run' \in Run
            BY <1>0, <2>2, <2>3, NewTargetTyped
        <2>5. /\ run'.now = run.now /\ run'.pc = "running" /\ run'.rows = 0
              /\ run'.batches = 0
            BY <2>3 DEF NewTarget
        <2>6. CleanupTypeOK'
            BY <2>3, <2>4 DEF CleanupTypeOK
        <2> QED
            BY <2>1, <2>3, <2>5, <2>6, Bounds DEF RunBounded
    <1>5. CASE completed \/ failRun
        <2>1. run' = NoRun /\ UNCHANGED <<now, rows, setting, locked>>
            BY <1>5 DEF completed, failRun
        <2>2. run' \in Run
            BY <1>0, <2>1, NewTargetTyped
        <2>3. run'.pc = "idle" /\ run'.now = 0 /\ run'.rows = 0 /\ run'.batches = 0
            BY <2>1 DEF NoRun, NewTarget
        <2>4. CleanupTypeOK'
            BY <2>1, <2>2 DEF CleanupTypeOK
        <2> QED
            BY <1>0, <2>1, <2>3, <2>4, Bounds DEF RunBounded
    <1> QED
        BY <1>1, <1>2, <1>3, <1>4, <1>5 DEF Runner

LEMMA UserKeepsRun ==
    ASSUME NEW r \in Row, User(r)
    PROVE  UNCHANGED <<now, run>>
    BY DEF User, create, terminate, updateRead, Change, LockRow, UnlockRow,
           insertCart, insertCartItem, touchCart

LEMMA TypesStep ==
    ASSUME CleanupTypeOK, RunBounded, [CleanupNext]_cleanupVars
    PROVE  CleanupTypeOK' /\ RunBounded'
    <1>1. CASE Tick
        BY <1>1, Bounds DEF Tick, CleanupTypeOK, RunBounded, Run
    <1>2. ASSUME NEW r \in Row, User(r)
          PROVE  CleanupTypeOK' /\ RunBounded'
        BY <1>2, UserTypes, UserKeepsRun DEF RunBounded
    <1>3. CASE UNCHANGED cleanupVars
        BY <1>3 DEF cleanupVars, CleanupTypeOK, RunBounded
    <1> QED
        BY <1>1, <1>2, <1>3, RunnerTypes DEF CleanupNext

-----------------------------------------------------------------------------
\* Reports

\* What is eligible does not grow while rows change: a changed row has a time
\* that is not before the run, or a later one than it had.
LEMMA EligibleShrinks ==
    ASSUME CleanupTypeOK, RunBounded, SettingsForward, NEW r \in Row, User(r),
           run.target \in 1 .. 6
    PROVE  Eligible' \subseteq Eligible
    <1>0. /\ now \in Nat /\ now + Ttl \in Nat /\ run.now \in Nat /\ run.now <= now
          /\ now <= now + Ttl
          /\ cleanupTargets[run.target] \in Target
        <2>1. now \in Nat /\ Ttl \in Nat /\ run.now \in Nat
            BY Bounds DEF CleanupTypeOK, Run
        <2> QED
            BY <2>1, TargetsKnown DEF RunBounded
    <1>1. run' = run /\ rows[r] \in RowRecord
        BY UserKeepsRun DEF CleanupTypeOK
    <1>2. \A s \in Row : rows'[s] = rows[s] => (s \in Eligible' => s \in Eligible)
        BY <1>1 DEF Eligible, Exists, InTarget, cutoffFor
    <1>3. ASSUME rows'[r].at \in Nat, run.now <= rows'[r].at
          PROVE  r \notin Eligible'
        <2>1. ~(rows'[r].at <= run.now - Retention[cleanupTargets[run.target]])
            BY <1>0, <1>3, RecentNotDue
        <2> QED
            BY <1>1, <2>1 DEF Eligible, cutoffFor
    <1>4. ASSUME NEW s \in Row, s # r
          PROVE  rows'[s] = rows[s]
        BY <1>4 DEF CleanupTypeOK, User, create, terminate, updateRead, Change, LockRow,
              UnlockRow, insertCart, insertCartItem, touchCart
    <1>5. SUFFICES r \in Eligible' => r \in Eligible
        <2>1. \A s \in Row : s # r => (s \in Eligible' => s \in Eligible)
            BY <1>2, <1>4
        <2> QED
            BY <2>1, <1>5 DEF Eligible
    <1>6. ASSUME NEW row, Change(r, row), row.at \in Nat, run.now <= row.at
          PROVE  r \notin Eligible'
        <2>1. rows'[r] = row
            BY <1>6 DEF Change, CleanupTypeOK
        <2> QED
            BY <1>3, <1>6, <2>1
    <1>7. CASE create(r) \/ terminate(r)
        <2>1. PICK time \in {now, now + Ttl} : Change(r, RowAt(time))
            BY <1>7 DEF create, terminate
        <2>2. RowAt(time).at \in Nat /\ run.now <= RowAt(time).at
            BY <1>0, <2>1 DEF RowAt
        <2> QED
            BY <1>6, <2>1, <2>2
    <1>8. ASSUME NEW isRead \in BOOLEAN, updateRead(r, isRead)
          PROVE  r \notin Eligible'
        <2>1. /\ Exists(r)
              /\ Change(r, [rows[r] EXCEPT !.isRead = isRead, !.at = now])
            BY <1>8 DEF updateRead
        <2>2. rows[r] \in [at: Time, isRead: BOOLEAN]
            BY <1>1, <2>1, RowsTyped DEF Exists
        <2>3. [rows[r] EXCEPT !.isRead = isRead, !.at = now].at = now
            BY <2>2
        <2> QED
            BY <1>0, <1>6, <2>1, <2>3
    <1>9. CASE LockRow(r) \/ UnlockRow(r) \/ insertCartItem(r)
        BY <1>2, <1>9 DEF LockRow, UnlockRow, insertCartItem
    <1>10. CASE insertCart(r)
        <2>1. CASE Exists(r)
            BY <1>2, <1>10, <2>1 DEF insertCart, CleanupTypeOK
        <2>2. CASE ~Exists(r)
            <3>1. rows'[r] = RowAt(now)
                BY <1>10, <2>2 DEF insertCart, CleanupTypeOK
            <3> QED
                BY <1>0, <1>3, <3>1 DEF RowAt
        <2> QED
            BY <2>1, <2>2
    <1>11. CASE touchCart(r)
        <2>1. CASE ~Exists(r)
            BY <1>2, <1>11, <2>1 DEF touchCart, CleanupTypeOK
        <2>2. CASE Exists(r)
            <3>1. rows[r] \in [at: Time, isRead: BOOLEAN]
                BY <1>1, <2>2, RowsTyped DEF Exists
            <3>2. rows'[r] = [rows[r] EXCEPT !.at = setting[r].since]
                BY <1>11, <2>2 DEF touchCart, CleanupTypeOK
            <3>3. rows'[r].at = setting[r].since /\ rows'[r].isRead = rows[r].isRead
                BY <3>1, <3>2
            <3>4. rows[r].at <= setting[r].since
                BY <1>11, <2>2 DEF touchCart, SettingsForward
            <3>5. rows[r].at \in Nat /\ setting[r].since \in Nat
                <4>1. setting[r].since \in 0 .. MaxNow
                    BY DEF CleanupTypeOK
                <4> QED
                    BY <3>1, <4>1, Bounds DEF Time
            <3>6. PICK cutoff \in Int :
                    cutoff = run.now - Retention[cleanupTargets[run.target]]
                BY <1>0, CleanupAssumption
            <3>7. setting[r].since <= cutoff => rows[r].at <= cutoff
                BY <3>4, <3>5, <3>6
            <3> QED
                BY <1>1, <2>2, <3>3, <3>6, <3>7 DEF Eligible, InTarget, cutoffFor
        <2> QED
            BY <2>1, <2>2
    <1> QED
        BY <1>7, <1>8, <1>9, <1>10, <1>11 DEF User

LEMMA ReportsStep ==
    ASSUME CleanupTypeOK, RunBounded, SettingsForward, BacklogReported,
           [CleanupNext]_cleanupVars
    PROVE  BacklogReported'
    <1>1. CASE Tick \/ UNCHANGED cleanupVars
        BY <1>1 DEF Tick, cleanupVars, BacklogReported, Eligible, Exists, InTarget,
                    cutoffFor
    <1>2. ASSUME NEW r \in Row, User(r)
          PROVE  BacklogReported'
        <2>1. CASE run.pc = "reported"
            <3>1. run.target \in 1 .. 6
                BY <2>1, TargetsKnown DEF CleanupTypeOK, RunBounded, Run
            <3> QED
                BY <1>2, <3>1, EligibleShrinks, UserKeepsRun DEF BacklogReported
        <2>2. CASE run.pc # "reported"
            BY <1>2, <2>2, UserKeepsRun DEF BacklogReported
        <2> QED
            BY <2>1, <2>2
    <1>3. CASE \E dryRun \in BOOLEAN : runDataCleanup(dryRun)
        BY <1>3 DEF runDataCleanup, NewTarget, BacklogReported
    <1>4. CASE previewEligible
        BY <1>4 DEF previewEligible, CleanupTypeOK, Run, BacklogReported
    <1>5. CASE deleteEligible
        <2>1. PICK batch \in SUBSET (Eligible \ locked), size \in 0 .. BatchSize :
                 /\ size = BatchSize \/ batch = Eligible \ locked
                 /\ rows' = [r \in Row |-> IF r \in batch THEN NoRow ELSE rows[r]]
                 /\ run' = [run EXCEPT
                       !.pc = IF LoopEnds(size, run.batches + 1) THEN "reported" ELSE @,
                       !.batches = run.batches + 1,
                       !.rows = run.rows + size,
                       !.limitReached = run.batches + 1 = MaxBatches
                                            /\ size = BatchSize,
                       !.skipped = Eligible \cap locked]
            BY <1>5, BatchTaken
        <2>2. SUFFICES ASSUME run'.pc = "reported", ~run'.limitReached
                       PROVE  Eligible' \subseteq run'.skipped
            BY DEF BacklogReported
        <2>3. run \in Run /\ run.pc = "running"
            BY <1>5 DEF CleanupTypeOK, deleteEligible
        <2>4. /\ run'.skipped = Eligible \cap locked
              /\ run'.target = run.target /\ run'.now = run.now
              /\ run'.limitReached = (run.batches + 1 = MaxBatches /\ size = BatchSize)
              /\ run'.pc = IF LoopEnds(size, run.batches + 1) THEN "reported"
                           ELSE "running"
            BY <2>1, <2>3 DEF Run
        <2>5. LoopEnds(size, run.batches + 1)
            BY <2>2, <2>4
        <2>6. size # BatchSize
            <3> SUFFICES ASSUME size = BatchSize
                         PROVE  FALSE
                OBVIOUS
            <3>1. ~(size < BatchSize)
                BY Bounds
            <3>2. run.batches + 1 = MaxBatches
                BY <2>5, <3>1 DEF LoopEnds
            <3> QED
                BY <2>2, <2>4, <3>2
        <2>7. batch = Eligible \ locked
            BY <2>1, <2>6
        <2>8. ASSUME NEW r \in Eligible'
              PROVE  r \in Eligible \ batch
            <3>1. r \in Row /\ rows'[r] # NoRow
                BY <2>8 DEF Eligible, Exists
            <3>2. r \notin batch /\ rows'[r] = rows[r]
                BY <2>1, <3>1
            <3> QED
                BY <2>4, <2>8, <3>1, <3>2 DEF Eligible, Exists, InTarget, cutoffFor
        <2> QED
            BY <2>4, <2>7, <2>8
    <1>6. CASE nextTarget
        BY <1>6 DEF nextTarget, NewTarget, BacklogReported
    <1>7. CASE completed \/ failRun
        BY <1>7 DEF completed, failRun, NoRun, NewTarget, BacklogReported
    <1> QED
        BY <1>1, <1>2, <1>3, <1>4, <1>5, <1>6, <1>7 DEF CleanupNext, Runner

-----------------------------------------------------------------------------
\* Carts

\* No cart is touched with an older time than it has, because only the setting
\* that is under way sets it.
LEMMA CartsStep ==
    ASSUME CleanupTypeOK, RunBounded, SettingsForward, CartsPast,
           [CleanupNext]_cleanupVars
    PROVE  SettingsForward' /\ CartsPast'
    <1>0. now \in Nat /\ Ttl \in Nat
        BY Bounds DEF CleanupTypeOK
    <1>1. CASE Tick
        <2>1. ASSUME NEW r \in Row, rows[r] \in RowRecord, Exists(r)
              PROVE  rows[r].at \in Nat
            <3>1. rows[r] \in [at: Time, isRead: BOOLEAN]
                BY <2>1, RowsTyped DEF Exists
            <3> QED
                BY <3>1, Bounds DEF Time
        <2>2. \A r \in Row : setting[r].since \in Nat
            BY Bounds DEF CleanupTypeOK
        <2>3. CartsPast'
            BY <1>0, <1>1, <2>1 DEF Tick, CartsPast, Exists, CleanupTypeOK
        <2>4. SettingsForward'
            BY <1>0, <1>1, <2>2 DEF Tick, SettingsForward, Exists
        <2> QED
            BY <2>3, <2>4
    <1>2. ASSUME NEW r \in Row, User(r)
          PROVE  SettingsForward' /\ CartsPast'
        <2>1. now' = now
            BY <1>2, UserKeepsRun
        <2>2. CASE create(r) \/ terminate(r) \/ \E isRead \in BOOLEAN : updateRead(r, isRead)
            <3>1. TableOf[r] # "carts" /\ UNCHANGED setting
                BY <2>2 DEF create, terminate, updateRead, Change
            <3>2. \A s \in Row : s # r => rows'[s] = rows[s]
                BY <2>2 DEF create, terminate, updateRead, Change, CleanupTypeOK
            <3> QED
                BY <2>1, <3>1, <3>2 DEF SettingsForward, CartsPast, Exists
        <2>3. CASE LockRow(r) \/ UnlockRow(r)
            BY <2>3 DEF LockRow, UnlockRow, SettingsForward, CartsPast, Exists
        <2>4. CASE insertCart(r)
            <3>1. /\ TableOf[r] = "carts"
                  /\ rows'[r] = IF Exists(r) THEN rows[r] ELSE RowAt(now)
                  /\ setting'[r] = [pc |-> "item", since |-> now]
                  /\ \A s \in Row : s # r => rows'[s] = rows[s] /\ setting'[s] = setting[s]
                BY <2>4 DEF insertCart, CleanupTypeOK
            <3>2. Exists(r)' => rows'[r].at <= now
                BY <1>0, <3>1 DEF CartsPast, Exists, RowAt
            <3>3. setting'[r].since = now
                BY <3>1
            <3> QED
                BY <1>0, <2>1, <3>1, <3>2, <3>3 DEF SettingsForward, CartsPast, Exists
        <2>5. CASE insertCartItem(r)
            <3>1. rows' = rows
                BY <2>5 DEF insertCartItem
            <3>2. /\ setting[r].pc # "no"
                  /\ setting'[r].pc # "no" => setting'[r].since = setting[r].since
                  /\ \A s \in Row : s # r => setting'[s] = setting[s]
                BY <2>5 DEF insertCartItem, CleanupTypeOK, NoSetting
            <3> QED
                BY <2>1, <3>1, <3>2 DEF SettingsForward, CartsPast, Exists
        <2>6. CASE touchCart(r)
            <3>1. /\ setting[r].pc # "no" /\ setting'[r].pc = "no"
                  /\ \A s \in Row : s # r => rows'[s] = rows[s] /\ setting'[s] = setting[s]
                BY <2>6 DEF touchCart, CleanupTypeOK, NoSetting
            <3>2. ASSUME Exists(r)'
                  PROVE  rows'[r].at <= now
                <4>1. Exists(r) /\ rows'[r] = [rows[r] EXCEPT !.at = setting[r].since]
                    BY <2>6, <3>2 DEF touchCart, CleanupTypeOK, Exists
                <4>2. rows[r] \in [at: Time, isRead: BOOLEAN]
                    BY <4>1, RowsTyped DEF CleanupTypeOK, Exists
                <4>3. rows'[r].at = setting[r].since
                    BY <4>1, <4>2
                <4> QED
                    BY <3>1, <4>3 DEF SettingsForward
            <3> QED
                BY <2>1, <3>1, <3>2 DEF SettingsForward, CartsPast, Exists
        <2> QED
            BY <1>2, <2>2, <2>3, <2>4, <2>5, <2>6 DEF User
    <1>3. CASE deleteEligible
        <2>1. PICK batch \in SUBSET (Eligible \ locked) :
                 rows' = [r \in Row |-> IF r \in batch THEN NoRow ELSE rows[r]]
            BY <1>3, BatchTaken
        <2>2. UNCHANGED <<now, setting>>
            BY <1>3 DEF deleteEligible
        <2>3. \A r \in Row : Exists(r)' => Exists(r) /\ rows'[r] = rows[r]
            BY <2>1 DEF Exists
        <2> QED
            BY <2>2, <2>3 DEF SettingsForward, CartsPast
    <1>4. CASE \/ \E dryRun \in BOOLEAN : runDataCleanup(dryRun)
               \/ previewEligible \/ nextTarget \/ completed \/ failRun
               \/ UNCHANGED cleanupVars
        <2>1. UNCHANGED <<now, rows, setting>>
            BY <1>4 DEF runDataCleanup, previewEligible, nextTarget, completed, failRun,
                        cleanupVars
        <2> QED
            BY <2>1 DEF SettingsForward, CartsPast, Exists
    <1> QED
        BY <1>1, <1>2, <1>3, <1>4 DEF CleanupNext, Runner

LEMMA CleanupStarts ==
    ASSUME CleanupInit
    PROVE  CleanupInductive
    <1>0. now = 0 /\ 0 \in 0 .. MaxNow /\ 1 \in 1 .. 7
        BY Bounds DEF CleanupInit
    <1>1. run \in Run
        BY <1>0, NewTargetTyped DEF CleanupInit
    <1>2. rows \in [Row -> RowRecord] /\ \A r \in Row : ~rows[r].isRead /\ ~Exists(r)
        BY DEF CleanupInit, RowRecord, NoRow, Exists
    <1>3. /\ setting \in [Row -> [pc: {"no", "item", "touch"}, since: 0 .. MaxNow]]
          /\ \A r \in Row : setting[r].pc = "no"
        BY <1>0 DEF CleanupInit, NoSetting
    <1>4. CleanupTypeOK
        BY <1>0, <1>1, <1>2, <1>3 DEF CleanupInit, CleanupTypeOK
    <1>5. run.pc = "idle" /\ run.now = 0 /\ run.rows = 0 /\ run.batches = 0
        BY DEF CleanupInit, NoRun, NewTarget
    <1>6. RunBounded /\ BacklogReported
        BY <1>0, <1>5, Bounds DEF RunBounded, BacklogReported
    <1>7. SettingsForward /\ CartsPast
        BY <1>2, <1>3 DEF SettingsForward, CartsPast
    <1> QED
        BY <1>4, <1>6, <1>7 DEF CleanupInductive, CleanupInv

LEMMA CleanupStep ==
    ASSUME CleanupInductive, [CleanupNext]_cleanupVars
    PROVE  CleanupInductive'
    BY TypesStep, ReportsStep, CartsStep DEF CleanupInductive, CleanupInv

\* Types, reports that tell whether something was left, runs that stay within
\* their batches, and carts whose time only moves forward.
THEOREM CleanupInductiveHolds == CleanupSpec => []CleanupInductive
    BY CleanupStarts, CleanupStep, PTL DEF CleanupSpec

\* A report without limitReached is true: nothing that was due at the time of the
\* run is left but what users held (dataCleanupService.ts, runDataCleanup).
THEOREM CleanupSafe == CleanupSpec => []CleanupInv
    <1>1. CleanupInductive => CleanupInv
        BY DEF CleanupInductive
    <1> QED
        BY <1>1, CleanupInductiveHolds, PTL

-----------------------------------------------------------------------------
\* Retention

\* A target's rows have the retention that the target has.
LEMMA RetentionOfTarget ==
    ASSUME NEW r \in Row, NEW target \in Target, InTarget(r, target)
    PROVE  RetentionOf(r) = Retention[target]
    <1>1. TableOf[r] \in Table
        BY CleanupAssumption
    <1>2. CASE target \in {"readNotifications", "unreadNotifications"}
        BY <1>2 DEF InTarget, RetentionOf
    <1>3. CASE target \in {"sessions", "accountTokens", "pendingEmailChanges", "carts"}
        BY <1>3 DEF InTarget, RetentionOf
    <1> QED
        BY <1>2, <1>3, TargetsKnown

LEMMA RetentionStep ==
    ASSUME CleanupInductive, [CleanupNext]_cleanupVars,
           NEW r \in Row, Exists(r), ~Exists(r)'
    PROVE  rows[r].at + RetentionOf(r) <= now
    <1>0. /\ CleanupTypeOK /\ RunBounded
          /\ now \in Time /\ now + Ttl \in Time
        BY TimesTyped DEF CleanupInductive, CleanupInv, CleanupTypeOK
    <1>1. ASSUME NEW s \in Row, User(s)
          PROVE  FALSE
        <2>1. rows'[r] = NoRow /\ rows[r] # NoRow
            BY DEF Exists
        <2>2. ASSUME NEW row, row # NoRow, Change(s, row)
              PROVE  FALSE
            BY <1>0, <2>1, <2>2 DEF Change, CleanupTypeOK
        <2>3. CASE create(s) \/ terminate(s)
            <3>1. PICK time \in Time : Change(s, RowAt(time))
                BY <1>0, <2>3 DEF create, terminate
            <3>2. RowAt(time) # NoRow
                BY <3>1, RowsTyped
            <3> QED
                BY <2>2, <3>1, <3>2
        <2>4. ASSUME NEW isRead \in BOOLEAN, updateRead(s, isRead)
              PROVE  FALSE
            <3>1. rows[s] \in RowRecord /\ rows[s] # NoRow
                BY <1>0, <2>4 DEF updateRead, Exists, CleanupTypeOK
            <3>2. [rows[s] EXCEPT !.isRead = isRead, !.at = now] # NoRow
                BY <1>0, <3>1, RowsTyped
            <3> QED
                BY <2>2, <2>4, <3>2 DEF updateRead
        <2>5. CASE LockRow(s) \/ UnlockRow(s) \/ insertCartItem(s)
            BY <2>1, <2>5 DEF LockRow, UnlockRow, insertCartItem
        <2>6. CASE insertCart(s)
            <3>1. RowAt(now) # NoRow
                BY <1>0, RowsTyped
            <3> QED
                BY <1>0, <2>1, <2>6, <3>1 DEF insertCart, CleanupTypeOK
        <2>7. CASE touchCart(s)
            <3>1. setting[s].since \in Time
                <4>1. setting[s].since \in 0 .. MaxNow
                    BY <1>0 DEF CleanupTypeOK
                <4> QED
                    BY <4>1, Bounds DEF Time
            <3>2. s = r /\ rows'[r] = [rows[r] EXCEPT !.at = setting[s].since]
                BY <1>0, <2>1, <2>7 DEF touchCart, CleanupTypeOK, Exists
            <3>3. rows[r] \in RowRecord
                BY <1>0 DEF CleanupTypeOK
            <3>4. rows'[r] # NoRow
                BY <2>1, <3>1, <3>2, <3>3, RowsTyped
            <3> QED
                BY <2>1, <3>4
        <2> QED
            BY <1>1, <2>3, <2>4, <2>5, <2>6, <2>7 DEF User
    <1>2. CASE deleteEligible
        <2>1. PICK batch \in SUBSET (Eligible \ locked) :
                 rows' = [s \in Row |-> IF s \in batch THEN NoRow ELSE rows[s]]
            BY <1>0, <1>2, BatchTaken
        <2>2. r \in Eligible
            BY <2>1 DEF Exists
        <2>3. PICK target \in Target : target = cleanupTargets[run.target]
            BY <1>0, <1>2, TargetsKnown DEF deleteEligible, CleanupTypeOK, Run
        <2>4. /\ InTarget(r, target)
              /\ rows[r].at <= run.now - Retention[target]
            BY <2>2, <2>3 DEF Eligible, cutoffFor
        <2>5. RetentionOf(r) = Retention[target]
            BY <2>4, RetentionOfTarget
        <2>6. Retention[target] \in Nat
            BY CleanupAssumption
        <2>7. rows[r].at \in Nat
            <3>1. rows[r] \in [at: Time, isRead: BOOLEAN]
                BY <1>0, RowsTyped DEF CleanupTypeOK, Exists
            <3> QED
                BY <3>1, Bounds DEF Time
        <2>8. run.now \in Nat /\ now \in Nat /\ run.now <= now
            BY <1>0, Bounds DEF CleanupTypeOK, Run, RunBounded
        <2> QED
            BY <2>4, <2>5, <2>6, <2>7, <2>8
    <1>3. CASE \/ \E dryRun \in BOOLEAN : runDataCleanup(dryRun)
               \/ previewEligible \/ nextTarget \/ completed \/ failRun
               \/ Tick \/ UNCHANGED cleanupVars
        <2>1. UNCHANGED rows
            BY <1>3 DEF runDataCleanup, previewEligible, nextTarget, completed, failRun,
                        Tick, cleanupVars
        <2> QED
            BY <2>1 DEF Exists
    <1> QED
        BY <1>1, <1>2, <1>3 DEF CleanupNext, Runner

\* No row is deleted before its retention has passed since its time, as its read
\* state is then, whatever users do between the batches of a run
\* (dataCleanupRepository.ts, deleteEligible).
THEOREM RetentionIsKept == CleanupSpec => RetentionKept
    <1>1. CleanupInductive /\ [CleanupNext]_cleanupVars =>
             [\A r \in Row : Exists(r) /\ ~Exists(r)' =>
                    rows[r].at + RetentionOf(r) <= now]_cleanupVars
        BY RetentionStep
    <1> QED
        BY <1>1, CleanupInductiveHolds, PTL DEF CleanupSpec, RetentionKept

=============================================================================
