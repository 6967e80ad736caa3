------------------------------ MODULE Session -------------------------------
(***************************************************************************)
(* The sessions of one account (backend/src/services/sessionService.ts,     *)
(* authService.ts, accountManagementService.ts, middleware/auth.ts) as      *)
(* PostgreSQL runs them at READ COMMITTED: requests log in, refresh, check   *)
(* an access token, revoke, log out everywhere and change the password, one *)
(* statement per step, on connections that may die between statements.      *)
(*                                                                         *)
(* A refresh token is named by its generation: generation g of a session is *)
(* the token issued by its g-th rotation (0: by the login). The row keeps   *)
(* the hash of generation "counter" and of the one before it.               *)
(***************************************************************************)
EXTENDS Naturals, Sequences, FiniteSetsExt

CONSTANTS
    SessionId,    \* session ids
    Password,     \* passwords the account may have
    Conn,         \* database connections, one request each
    Window,       \* refreshConcurrencyWindowMs
    IdleTtl,      \* refreshIdleTtlMs
    AbsoluteTtl,  \* absoluteTtlMs
    MaxNow,       \* bound on the clock
    MaxVersion,   \* bound on the account's token version
    MaxCounter,   \* bound on the rotations of a session
    None          \* nobody: a free lock, an unused field

ASSUME TimeAssumption ==
    /\ Window \in Nat /\ IdleTtl \in Nat /\ AbsoluteTtl \in Nat
    /\ MaxNow \in Nat /\ MaxVersion \in Nat /\ MaxCounter \in Nat
ASSUME NobodyAssumption == None \notin Conn \cup SessionId \cup Password

VARIABLES
    password,      \* the password whose hash the user row holds
    tokenVersion,  \* the user row's token_version
    userLock,      \* the connection holding the user row
    sessions,      \* sessions[s]: the session row
    rotations,     \* rotations[s]: the session.rotated audit events of s
    now,           \* the clock of the server
    tx             \* tx[c]: the request the connection is executing

vars == <<password, tokenVersion, userLock, sessions, rotations, now, tx>>
user == <<password, tokenVersion, userLock>>

\* proof is the password the session was opened with, which no table stores.
SessionRow ==
    [state: {"unused", "live", "deleted"}, version: Nat,
     proof: Password \cup {None}, counter: Nat, rotatedAt: Nat,
     expiresAt: Nat, absoluteExpiresAt: Nat, revoked: BOOLEAN]
BlankRow ==
    [state |-> "unused", version |-> 0, proof |-> None, counter |-> 0,
     rotatedAt |-> 0, expiresAt |-> 0, absoluteExpiresAt |-> 0,
     revoked |-> FALSE]

Check == {"session", "user"}
Reply == {"none", "rotated", "alreadyRotated", "invalid", "reused", "granted",
          "denied"}
\* time is the request's "now"; left holds the queries an access check still
\* waits for; ended says that the token's rights had ended when it was sent.
Tx == [pc: {"idle", "create", "version", "rotate", "previous", "revokeAll",
            "replace", "revoke", "commit", "check"},
       id: SessionId \cup {None}, generation: Nat, row: SessionRow, time: Nat,
       version: Nat, password: Password \cup {None},
       next: Password \cup {None}, victims: SUBSET SessionId,
       left: SUBSET Check, ended: BOOLEAN, reply: Reply]
Idle(reply) ==
    [pc |-> "idle", id |-> None, generation |-> 0, row |-> BlankRow,
     time |-> 0, version |-> 0, password |-> None, next |-> None,
     victims |-> {}, left |-> {}, ended |-> FALSE, reply |-> reply]

isSessionActive(row, time) ==
    /\ row.state = "live"
    /\ ~row.revoked
    /\ row.expiresAt > time
    /\ row.absoluteExpiresAt > time

\* Rows that a password change in progress has updated are locked.
Locked(s) == \E c \in Conn : s \in tx[c].victims

revoke(ids) ==
    [s \in SessionId |->
        IF s \in ids /\ sessions[s].state = "live"
        THEN [sessions[s] EXCEPT !.revoked = TRUE] ELSE sessions[s]]

Active == {s \in SessionId : sessions[s].state = "live" /\ ~sessions[s].revoked}

Init ==
    /\ password \in Password
    /\ tokenVersion = 0
    /\ userLock = None
    /\ sessions = [s \in SessionId |-> BlankRow]
    /\ rotations = [s \in SessionId |-> <<>>]
    /\ now = 0
    /\ tx = [c \in Conn |-> Idle("none")]

-----------------------------------------------------------------------------

Start(c, request) ==
    /\ tx[c].pc = "idle"
    /\ tx' = [tx EXCEPT ![c] = request]

Finish(c, reply) ==
    tx' = [tx EXCEPT ![c] = Idle(reply)]

Tick ==
    /\ now < MaxNow
    /\ now' = now + 1
    /\ UNCHANGED <<user, sessions, rotations, tx>>

\* The connection dies and its open transaction, if any, is rolled back.
Abort(c) ==
    /\ tx[c].pc # "idle"
    /\ userLock' = IF userLock = c THEN None ELSE userLock
    /\ Finish(c, "none")
    /\ UNCHANGED <<password, tokenVersion, sessions, rotations, now>>

-----------------------------------------------------------------------------
(* POST /auth: the user row is read, the password compared, and a session    *)
(* created in a transaction of its own                                      *)

findForAuthentication(c, guess) ==
    /\ guess = password
    /\ Start(c, [Idle("none") EXCEPT !.pc = "create", !.password = guess,
                                     !.version = tokenVersion])
    /\ UNCHANGED <<user, sessions, rotations, now>>

getInitialSessionExpiry(time) == Min({time + IdleTtl, time + AbsoluteTtl})

\* Mutant: the token version is read when the session is created.
createSession_FreshVersion(c, s) ==
    /\ tx[c].pc = "create"
    /\ sessions[s].state = "unused"
    /\ sessions' = [sessions EXCEPT ![s] =
          [BlankRow EXCEPT !.state = "live", !.version = tokenVersion,
             !.proof = tx[c].password,
             !.expiresAt = getInitialSessionExpiry(now),
             !.absoluteExpiresAt = now + AbsoluteTtl]]
    /\ Finish(c, "none")
    /\ UNCHANGED <<user, rotations, now>>

createSession(c, s) ==
    /\ tx[c].pc = "create"
    /\ sessions[s].state = "unused"
    /\ sessions' = [sessions EXCEPT ![s] =
          [BlankRow EXCEPT !.state = "live", !.version = tx[c].version,
             !.proof = tx[c].password,
             !.expiresAt = getInitialSessionExpiry(now),
             !.absoluteExpiresAt = now + AbsoluteTtl]]
    /\ Finish(c, "none")
    /\ UNCHANGED <<user, rotations, now>>

-----------------------------------------------------------------------------
(* POST /auth/refresh: one transaction                                      *)

\* The client presents any refresh token it was ever given. An inactive session
\* is refused here, with no effect.
findRefreshById(c, s, generation) ==
    /\ generation <= sessions[s].counter
    /\ isSessionActive(sessions[s], now)
    /\ Start(c, [Idle("none") EXCEPT !.pc = "version", !.id = s,
            !.generation = generation, !.row = sessions[s], !.time = now])
    /\ UNCHANGED <<user, sessions, rotations, now>>

\* The account's token version has moved on: the session is revoked, and that
\* commits although the request fails.
RevokeOutdated(c) ==
    /\ tx[c].pc = "version"
    /\ tx[c].row.version # tokenVersion
    /\ ~Locked(tx[c].id)
    /\ sessions' = revoke({tx[c].id})
    /\ Finish(c, "invalid")
    /\ UNCHANGED <<user, rotations, now>>

findTokenVersion(c) ==
    /\ tx[c].pc = "version"
    /\ tx[c].row.version = tokenVersion
    /\ tx' = [tx EXCEPT ![c].pc =
          IF tx[c].generation = tx[c].row.counter THEN "rotate" ELSE "previous"]
    /\ UNCHANGED <<user, sessions, rotations, now>>

getRotatedSessionExpiry(row, time) ==
    Min({time + IdleTtl, row.absoluteExpiresAt})

\* Mutant: the update is not conditional on the session's state.
StillCurrent_AnyState(c) ==
    /\ sessions[tx[c].id].counter = tx[c].row.counter
    /\ sessions[tx[c].id].state = "live"

\* The WHERE clause of the conditional update: no other request has replaced
\* the hash, revoked or deleted the session.
StillCurrent(c) ==
    /\ sessions[tx[c].id].counter = tx[c].row.counter
    /\ isSessionActive(sessions[tx[c].id], tx[c].time)

Rotated(row, time, expiresAt) ==
    [row EXCEPT !.counter = row.counter + 1, !.rotatedAt = time,
                !.expiresAt = expiresAt]

rotateCurrent(c) ==
    LET s == tx[c].id
        row == tx[c].row
    IN  /\ tx[c].pc = "rotate"
        /\ ~Locked(s)
        /\ StillCurrent(c)
        /\ row.counter < MaxCounter
        /\ sessions' = [sessions EXCEPT ![s] =
              Rotated(@, tx[c].time, getRotatedSessionExpiry(row, tx[c].time))]
        /\ rotations' = [rotations EXCEPT ![s] =
              Append(@, [counter |-> row.counter + 1, at |-> tx[c].time])]
        /\ Finish(c, "rotated")
        /\ UNCHANGED <<user, now>>

\* The update hits no row: the session is read again.
ReloadSession(c) ==
    /\ tx[c].pc = "rotate"
    /\ ~Locked(tx[c].id)
    /\ ~StillCurrent(c)
    /\ tx' = [tx EXCEPT ![c].pc = "previous", ![c].row = sessions[tx[c].id]]
    /\ UNCHANGED <<user, sessions, rotations, now>>

\* handlePreviousRefreshToken: the row that was read last decides.
PresentsPrevious(c) ==
    /\ tx[c].row.state = "live"
    /\ tx[c].row.counter = tx[c].generation + 1

\* Mutant: the last instant of the window is outside.
isInsideConcurrencyWindow_Strict(c) == tx[c].time < tx[c].row.rotatedAt + Window

\* The difference may be negative, when a later request rotated first.
isInsideConcurrencyWindow(c) == tx[c].time <= tx[c].row.rotatedAt + Window

RejectRefresh(c) ==
    /\ tx[c].pc = "previous"
    /\ \/ ~PresentsPrevious(c) /\ Finish(c, "invalid")
       \/ /\ PresentsPrevious(c)
          /\ isInsideConcurrencyWindow(c)
          /\ Finish(c, "alreadyRotated")
    /\ UNCHANGED <<user, sessions, rotations, now>>

\* Revokes the row as it is by now, and commits with the error.
revokeReusedFamily(c) ==
    /\ tx[c].pc = "previous"
    /\ PresentsPrevious(c)
    /\ ~isInsideConcurrencyWindow(c)
    /\ ~Locked(tx[c].id)
    /\ sessions' = revoke({tx[c].id})
    /\ Finish(c, "reused")
    /\ UNCHANGED <<user, rotations, now>>

-----------------------------------------------------------------------------
(* Revoking one session; cleaning up                                        *)

revokeOwned(s) ==
    /\ s \in Active
    /\ ~Locked(s)
    /\ sessions' = revoke({s})
    /\ UNCHANGED <<user, rotations, now, tx>>

\* The cleanup job skips locked rows. The days it waits after the end of a
\* session are left out: it may come at any time from then on.
deleteEligible(s) ==
    /\ sessions[s].state = "live"
    /\ sessions[s].revoked \/ sessions[s].expiresAt <= now
    /\ ~Locked(s)
    /\ sessions' = [sessions EXCEPT ![s].state = "deleted"]
    /\ UNCHANGED <<user, rotations, now, tx>>

-----------------------------------------------------------------------------
(* POST /auth/logout: two transactions                                      *)

incrementTokenVersion(c) ==
    /\ \E s \in SessionId : sessions[s].state # "unused"
    /\ userLock = None
    /\ tokenVersion < MaxVersion
    /\ tokenVersion' = tokenVersion + 1
    /\ Start(c, [Idle("none") EXCEPT !.pc = "revokeAll"])
    /\ UNCHANGED <<password, userLock, sessions, rotations, now>>

revokeAllSessions(c) ==
    /\ tx[c].pc = "revokeAll"
    /\ \A s \in Active : ~Locked(s)
    /\ sessions' = revoke(Active)
    /\ Finish(c, "none")
    /\ UNCHANGED <<user, rotations, now>>

-----------------------------------------------------------------------------
(* POST /account/password-changes: a read, the hashing, and a transaction   *)

findAccountSecurityById(c, current, new) ==
    /\ current = password
    /\ new # current
    /\ Start(c, [Idle("none") EXCEPT !.pc = "replace", !.password = current,
                             !.version = tokenVersion, !.next = new])
    /\ UNCHANGED <<user, sessions, rotations, now>>

\* Mutant: only the password hash is compared.
AccountUnchanged_AnyVersion(c) == password = tx[c].password

\* The WHERE clause: the account is as it was when the password was compared.
AccountUnchanged(c) ==
    password = tx[c].password /\ tokenVersion = tx[c].version

replaceAccountPassword(c) ==
    /\ tx[c].pc = "replace"
    /\ userLock = None
    /\ tokenVersion < MaxVersion
    /\ \/ /\ AccountUnchanged(c)
          /\ userLock' = c
          /\ tx' = [tx EXCEPT ![c].pc = "revoke"]
       \/ ~AccountUnchanged(c) /\ Finish(c, "denied") /\ UNCHANGED userLock
    /\ UNCHANGED <<password, tokenVersion, sessions, rotations, now>>

\* revokeAll sees, and locks, the sessions committed so far.
revokeAll(c) ==
    /\ tx[c].pc = "revoke"
    /\ \A s \in Active : ~Locked(s)
    /\ tx' = [tx EXCEPT ![c].pc = "commit", ![c].victims = Active]
    /\ UNCHANGED <<user, sessions, rotations, now>>

CommitPassword(c) ==
    /\ tx[c].pc = "commit"
    /\ password' = tx[c].next
    /\ tokenVersion' = tokenVersion + 1
    /\ userLock' = None
    /\ sessions' = revoke(tx[c].victims)
    /\ Finish(c, "none")
    /\ UNCHANGED <<rotations, now>>

-----------------------------------------------------------------------------
(* The access check of every protected request: two concurrent queries       *)

TokenEnded(s) ==
    \/ sessions[s].state = "deleted"
    \/ sessions[s].revoked
    \/ sessions[s].version # tokenVersion

authenticateCookie(c, s) ==
    /\ sessions[s].state # "unused"
    /\ Start(c, [Idle("none") EXCEPT !.pc = "check", !.id = s, !.time = now,
            !.version = sessions[s].version, !.left = Check,
            !.ended = TokenEnded(s)])
    /\ UNCHANGED <<user, sessions, rotations, now>>

\* Mutant: the account's token version is not consulted.
Passes_SessionOnly(c, query) ==
    query = "session" => isSessionActive(sessions[tx[c].id], tx[c].time)

\* The two queries, which repeat the version of the token.
Passes(c, query) ==
    IF query = "session" THEN isSessionActive(sessions[tx[c].id], tx[c].time)
    ELSE tokenVersion = tx[c].version

Answer(c, query) ==
    /\ tx[c].pc = "check"
    /\ query \in tx[c].left
    /\ \/ ~Passes(c, query) /\ Finish(c, "denied")
       \/ /\ Passes(c, query)
          /\ IF tx[c].left = {query} THEN Finish(c, "granted")
             ELSE tx' = [tx EXCEPT ![c].left = @ \ {query}]
    /\ UNCHANGED <<user, sessions, rotations, now>>

-----------------------------------------------------------------------------

RefreshStep(c) ==
    \/ RevokeOutdated(c)
    \/ findTokenVersion(c)
    \/ rotateCurrent(c)
    \/ ReloadSession(c)
    \/ RejectRefresh(c)
    \/ revokeReusedFamily(c)

PasswordStep(c) ==
    replaceAccountPassword(c) \/ revokeAll(c) \/ CommitPassword(c)

Begin(c) ==
    \/ \E guess \in Password : findForAuthentication(c, guess)
    \/ \E s \in SessionId : \E generation \in 0..sessions[s].counter :
          findRefreshById(c, s, generation)
    \/ incrementTokenVersion(c)
    \/ \E current, new \in Password : findAccountSecurityById(c, current, new)
    \/ \E s \in SessionId : authenticateCookie(c, s)

Next ==
    \/ Tick
    \/ \E c \in Conn :
          \/ Begin(c)
          \/ \E s \in SessionId : createSession(c, s)
          \/ RefreshStep(c)
          \/ revokeAllSessions(c)
          \/ PasswordStep(c)
          \/ \E query \in Check : Answer(c, query)
          \/ Abort(c)
    \/ \E s \in SessionId : revokeOwned(s) \/ deleteEligible(s)

Spec == Init /\ [][Next]_vars

-----------------------------------------------------------------------------
(* Properties *)

\* Types of the rows, the row lock and the requests in progress.
TypeOK ==
    /\ password \in Password
    /\ tokenVersion \in Nat
    /\ userLock \in Conn \cup {None}
    /\ sessions \in [SessionId -> SessionRow]
    /\ rotations \in [SessionId -> Seq([counter: Nat, at: Nat])]
    /\ now \in Nat
    /\ tx \in [Conn -> Tx]

\* Each refresh token has one successor, however many requests present it at
\* once: the audited rotations of a session are 1, 2, ... up to its counter,
\* the last one at rotated_at (ADR 0001, "Concurrent refreshes").
OneSuccessor ==
    \A s \in SessionId :
        LET log == rotations[s]
        IN  /\ Len(log) = sessions[s].counter
            /\ \A i \in DOMAIN log : log[i].counter = i
            /\ log # <<>> => log[Len(log)].at = sessions[s].rotatedAt

\* A session whose token version is the account's was opened with the account's
\* password: a login that compared an old password while it was being changed
\* gets a session that no check accepts (authService.ts lines 26-48).
CurrentSessionsKnowPassword ==
    \A s \in SessionId :
        sessions[s].state = "live" /\ sessions[s].version = tokenVersion
            => sessions[s].proof = password

\* What is over is over: a request sent after its session was revoked or
\* deleted, or after the token version moved on, is not served, whatever
\* logins, refreshes and password changes do between the two queries.
EndedTokensRefused ==
    [][\A c \in Conn :
          tx[c].pc = "check" /\ tx'[c] = Idle("granted") => ~tx[c].ended]_vars

\* A revoked session is never rotated or revived.
RevokedForGood ==
    [][\A s \in SessionId : sessions[s].revoked =>
          /\ sessions'[s].revoked
          /\ sessions'[s].counter = sessions[s].counter
          /\ rotations'[s] = rotations[s]]_vars

\* A client that loses a refresh race keeps its session: it is revoked for
\* reuse only if the request came more than Window after the rotation that
\* replaced the presented token, whichever row version the request had read.
RaceLoserSpared ==
    [][\A c \in Conn :
          tx[c].pc # "idle" /\ tx'[c] = Idle("reused") =>
             /\ tx[c].generation < Len(rotations[tx[c].id])
             /\ tx[c].time >
                  rotations[tx[c].id][tx[c].generation + 1].at + Window]_vars

\* Who changes the password knew the one that is replaced, at the version that
\* is replaced: of two concurrent changes one fails, and none survives a logout
\* everywhere that came between.
PasswordChangedKnowingly ==
    [][password' # password =>
          \E c \in Conn :
             /\ tx[c].pc = "commit"
             /\ tx[c].password = password
             /\ tx[c].version = tokenVersion]_vars

\* The inductive invariant behind the properties above. A refresh knows a row
\* version that the session had; a login knows the password if the version it
\* read is still the account's; a password change holds the account's row; and
\* a check of an ended token has not passed the query that ends it.
RefreshOK(c) ==
    tx[c].pc \in {"version", "rotate", "previous"} =>
        /\ tx[c].id \in SessionId
        /\ tx[c].row.counter <= Len(rotations[tx[c].id])
        /\ tx[c].row.counter > 0 =>
              rotations[tx[c].id][tx[c].row.counter].at = tx[c].row.rotatedAt
LoginOK(c) ==
    tx[c].pc = "create" =>
        /\ tx[c].version <= tokenVersion
        /\ tx[c].version = tokenVersion => tx[c].password = password
ChangeOK(c) ==
    /\ tx[c].pc \in {"replace", "revoke", "commit"} => tx[c].next \in Password
    /\ tx[c].pc \in {"revoke", "commit"} => userLock = c /\ AccountUnchanged(c)
CheckOK(c) ==
    tx[c].pc = "check" =>
        /\ tx[c].id \in SessionId
        /\ sessions[tx[c].id].state # "unused"
        /\ tx[c].version = sessions[tx[c].id].version
        /\ tx[c].ended =>
              /\ TokenEnded(tx[c].id)
              /\ "session" \notin tx[c].left => tx[c].version # tokenVersion
              /\ "user" \notin tx[c].left =>
                    \/ sessions[tx[c].id].revoked
                    \/ sessions[tx[c].id].state = "deleted"
SessionInv ==
    /\ TypeOK
    /\ OneSuccessor
    /\ CurrentSessionsKnowPassword
    /\ \A s \in SessionId :
          /\ sessions[s].version <= tokenVersion
          /\ sessions[s].state = "unused" =>
                sessions[s].counter = 0 /\ ~sessions[s].revoked
    /\ \A c \in Conn : RefreshOK(c) /\ LoginOK(c) /\ ChangeOK(c) /\ CheckOK(c)
=============================================================================
