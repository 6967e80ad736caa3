--------------------------- MODULE SessionProofs ----------------------------
(***************************************************************************)
(* Theorems of Session for every set of sessions, passwords and connections *)
(* and every choice of the times and bounds. The argument: token versions   *)
(* only grow, a session keeps its version, and what has ended stays ended;  *)
(* so what a request has read stays true in the form SessionInv gives it.   *)
(***************************************************************************)
EXTENDS Session, TLAPS

LEMMA IdleType ==
    ASSUME NEW reply \in Reply
    PROVE  /\ Idle(reply) \in Tx
           /\ Idle(reply).pc = "idle"
           /\ Idle(reply).reply = reply
  <1>1. BlankRow \in SessionRow
    BY DEF BlankRow, SessionRow
  <1> QED
    BY <1>1 DEF Idle, Tx

LEMMA MinOfTwo ==
    ASSUME NEW a \in Nat, NEW b \in Nat
    PROVE  Min({a, b}) \in Nat
  <1>1. \E x \in {a, b} : \A y \in {a, b} : x <= y
    OBVIOUS
  <1>2. Min({a, b}) \in {a, b}
    BY <1>1 DEF Min
  <1> QED
    BY <1>2

\* Revoking changes nothing of a row but the mark.
LEMMA RevokeKeeps ==
    ASSUME sessions \in [SessionId -> SessionRow], NEW ids
    PROVE  /\ revoke(ids) \in [SessionId -> SessionRow]
           /\ \A s \in SessionId :
                 /\ revoke(ids)[s].state = sessions[s].state
                 /\ revoke(ids)[s].version = sessions[s].version
                 /\ revoke(ids)[s].proof = sessions[s].proof
                 /\ revoke(ids)[s].counter = sessions[s].counter
                 /\ revoke(ids)[s].rotatedAt = sessions[s].rotatedAt
                 /\ sessions[s].revoked => revoke(ids)[s].revoked
                 /\ sessions[s].state # "live" =>
                       revoke(ids)[s].revoked = sessions[s].revoked
  BY DEF revoke, SessionRow

-----------------------------------------------------------------------------
(* Types *)

LEMMA RotatedType ==
    ASSUME NEW row \in SessionRow, NEW time \in Nat, NEW expiresAt \in Nat
    PROVE  Rotated(row, time, expiresAt) \in SessionRow
  <1>1. row.counter + 1 \in Nat
    BY DEF SessionRow
  <1> QED
    BY <1>1 DEF Rotated, SessionRow

LEMMA MovedType ==
    ASSUME NEW t \in Tx
    PROVE  /\ \A row \in SessionRow : [t EXCEPT !.pc = "previous", !.row = row] \in Tx
           /\ \A ids \in SUBSET SessionId :
                 [t EXCEPT !.pc = "commit", !.victims = ids] \in Tx
  <1>1. ASSUME NEW row \in SessionRow
        PROVE  [t EXCEPT !.pc = "previous", !.row = row] \in Tx
    BY DEF Tx
  <1>2. ASSUME NEW ids \in SUBSET SessionId
        PROVE  [t EXCEPT !.pc = "commit", !.victims = ids] \in Tx
    BY DEF Tx
  <1> QED
    BY <1>1, <1>2

LEMMA TypeInit == Init => TypeOK
  BY IdleType DEF Init, TypeOK, SessionRow, BlankRow, Reply

\* A request that only moves on keeps the types.
LEMMA TypeMove ==
    ASSUME TypeOK, NEW c \in Conn, NEW t \in Tx, tx' = [tx EXCEPT ![c] = t]
    PROVE  tx' \in [Conn -> Tx]
  BY DEF TypeOK

LEMMA TypeNext == SessionInv /\ [Next]_vars => TypeOK'
  <1> SUFFICES ASSUME SessionInv, [Next]_vars PROVE TypeOK'
    OBVIOUS
  <1> TypeOK
    BY DEF SessionInv
  <1>1. /\ sessions \in [SessionId -> SessionRow]
        /\ tx \in [Conn -> Tx]
        /\ \A c \in Conn : tx[c].row \in SessionRow /\ tx[c].time \in Nat
        /\ now \in Nat /\ tokenVersion \in Nat /\ password \in Password
    BY DEF TypeOK, Tx
  <1>2. ASSUME NEW c \in Conn, NEW reply \in Reply, Finish(c, reply)
        PROVE  tx' \in [Conn -> Tx]
    BY <1>2, IdleType, TypeMove DEF Finish
  <1>3. \A ids : revoke(ids) \in [SessionId -> SessionRow]
    BY <1>1, RevokeKeeps
  <1>4. Idle("none") \in Tx /\ {"none", "rotated", "invalid", "reused",
                               "alreadyRotated", "denied", "granted"} \subseteq Reply
    BY IdleType DEF Reply
  <1>5. CASE UNCHANGED vars
    BY <1>5 DEF vars, TypeOK
  <1>6. CASE Tick
    BY <1>6 DEF Tick, TypeOK, user
  <1>7. ASSUME NEW c \in Conn, NEW guess \in Password,
               findForAuthentication(c, guess)
        PROVE  TypeOK'
    <2>1. [Idle("none") EXCEPT !.pc = "create", !.password = guess,
                               !.version = tokenVersion] \in Tx
      BY <1>1, <1>4 DEF Tx
    <2> QED
      BY <1>7, <2>1, TypeMove DEF findForAuthentication, Start, TypeOK, user
  <1>8. ASSUME NEW c \in Conn, NEW s \in SessionId, createSession(c, s)
        PROVE  TypeOK'
    <2>1. getInitialSessionExpiry(now) \in Nat /\ now + AbsoluteTtl \in Nat
      BY <1>1, TimeAssumption, MinOfTwo DEF getInitialSessionExpiry
    <2>2. [BlankRow EXCEPT !.state = "live", !.version = tx[c].version,
             !.proof = tx[c].password,
             !.expiresAt = getInitialSessionExpiry(now),
             !.absoluteExpiresAt = now + AbsoluteTtl] \in SessionRow
      BY <1>1, <2>1 DEF BlankRow, SessionRow, Tx
    <2>3. sessions' \in [SessionId -> SessionRow]
      BY <1>1, <1>8, <2>2 DEF createSession
    <2> QED
      BY <1>2, <1>4, <1>8, <2>3 DEF createSession, TypeOK, user
  <1>9. ASSUME NEW c \in Conn, NEW s \in SessionId,
               NEW generation \in 0..sessions[s].counter,
               findRefreshById(c, s, generation)
        PROVE  TypeOK'
    <2>1. sessions[s] \in SessionRow /\ generation \in Nat
      BY <1>1 DEF SessionRow
    <2>2. [Idle("none") EXCEPT !.pc = "version", !.id = s,
             !.generation = generation, !.row = sessions[s], !.time = now] \in Tx
      BY <1>1, <1>4, <2>1 DEF Tx
    <2> QED
      BY <1>9, <2>2, TypeMove DEF findRefreshById, Start, TypeOK, user
  <1>10. ASSUME NEW c \in Conn,
                \/ RevokeOutdated(c)
                \/ revokeReusedFamily(c)
                \/ revokeAllSessions(c)
                \/ RejectRefresh(c)
         PROVE  TypeOK'
    BY <1>1, <1>2, <1>3, <1>4, <1>10
    DEF RevokeOutdated, revokeReusedFamily, revokeAllSessions, RejectRefresh,
        TypeOK, user
  <1>11. ASSUME NEW c \in Conn, findTokenVersion(c) \/ ReloadSession(c) \/ revokeAll(c)
         PROVE  TypeOK'
    <2>1. CASE findTokenVersion(c)
      <3>1. ASSUME NEW pc \in {"rotate", "previous"}
            PROVE  [tx EXCEPT ![c].pc = pc] \in [Conn -> Tx]
        BY <1>1 DEF Tx
      <3>2. tx' = [tx EXCEPT ![c].pc = "rotate"]
              \/ tx' = [tx EXCEPT ![c].pc = "previous"]
        BY <2>1 DEF findTokenVersion
      <3> QED
        BY <2>1, <3>1, <3>2 DEF findTokenVersion, TypeOK, user
    <2>2. CASE ReloadSession(c)
      <3>1. tx[c].id \in SessionId
        BY <2>2 DEF ReloadSession, SessionInv, RefreshOK
      <3>2. sessions[tx[c].id] \in SessionRow
        BY <1>1, <3>1
      <3>3. tx' \in [Conn -> Tx]
        <4>1. tx' = [tx EXCEPT ![c] =
                 [tx[c] EXCEPT !.pc = "previous", !.row = sessions[tx[c].id]]]
          BY <1>1, <2>2 DEF ReloadSession
        <4> QED
          BY <1>1, <3>2, <4>1, MovedType, TypeMove
      <3> QED
        BY <2>2, <3>3 DEF ReloadSession, TypeOK, user
    <2>3. CASE revokeAll(c)
      <3>1. Active \in SUBSET SessionId
        BY DEF Active
      <3>2. tx' \in [Conn -> Tx]
        <4>1. tx' = [tx EXCEPT ![c] =
                 [tx[c] EXCEPT !.pc = "commit", !.victims = Active]]
          BY <1>1, <2>3 DEF revokeAll
        <4> QED
          BY <1>1, <3>1, <4>1, MovedType, TypeMove
      <3> QED
        BY <2>3, <3>2 DEF revokeAll, TypeOK, user
    <2> QED
      BY <1>11, <2>1, <2>2, <2>3
  <1>12. ASSUME NEW c \in Conn, rotateCurrent(c) PROVE TypeOK'
    <2> DEFINE s == tx[c].id
               row == tx[c].row
    <2>1. s \in SessionId
      BY <1>12 DEF rotateCurrent, SessionInv, RefreshOK
    <2>2. /\ sessions[s] \in SessionRow /\ row.counter \in Nat
          /\ tx[c].time \in Nat /\ rotations[s] \in Seq([counter: Nat, at: Nat])
      BY <1>1, <2>1 DEF SessionRow, TypeOK
    <2>3. getRotatedSessionExpiry(row, tx[c].time) \in Nat
      <3>1. tx[c].time + IdleTtl \in Nat /\ row.absoluteExpiresAt \in Nat
        BY <1>1, <2>2, TimeAssumption DEF SessionRow
      <3> QED
        BY <3>1, MinOfTwo DEF getRotatedSessionExpiry
    <2>4. sessions' \in [SessionId -> SessionRow]
      <3> DEFINE next ==
            Rotated(sessions[s], tx[c].time, getRotatedSessionExpiry(row, tx[c].time))
      <3>1. next \in SessionRow
        BY <2>2, <2>3, RotatedType
      <3>2. sessions' = [sessions EXCEPT ![s] = next]
        BY <1>12 DEF rotateCurrent
      <3> HIDE DEF next
      <3> QED
        BY <1>1, <3>1, <3>2
    <2>5. [counter |-> row.counter + 1, at |-> tx[c].time] \in [counter: Nat, at: Nat]
      BY <2>2
    <2>6. rotations' \in [SessionId -> Seq([counter: Nat, at: Nat])]
      BY <1>12, <2>1, <2>2, <2>5 DEF rotateCurrent, TypeOK
    <2> QED
      BY <1>2, <1>4, <1>12, <2>4, <2>6 DEF rotateCurrent, TypeOK, user
  <1>13. ASSUME NEW s \in SessionId, revokeOwned(s) \/ deleteEligible(s)
         PROVE  TypeOK'
    <2>1. sessions' \in [SessionId -> SessionRow]
      BY <1>1, <1>3, <1>13 DEF revokeOwned, deleteEligible, SessionRow
    <2> QED
      BY <1>13, <2>1 DEF revokeOwned, deleteEligible, TypeOK, user
  <1>14. ASSUME NEW c \in Conn, incrementTokenVersion(c) PROVE TypeOK'
    <2>1. [Idle("none") EXCEPT !.pc = "revokeAll"] \in Tx
      BY <1>4 DEF Tx
    <2> QED
      BY <1>1, <1>14, <2>1, TypeMove DEF incrementTokenVersion, Start, TypeOK
  <1>15. ASSUME NEW c \in Conn, NEW current \in Password, NEW new \in Password,
                findAccountSecurityById(c, current, new)
         PROVE  TypeOK'
    <2>1. [Idle("none") EXCEPT !.pc = "replace", !.password = current,
             !.version = tokenVersion, !.next = new] \in Tx
      BY <1>1, <1>4 DEF Tx
    <2> QED
      BY <1>15, <2>1, TypeMove DEF findAccountSecurityById, Start, TypeOK, user
  <1>16. ASSUME NEW c \in Conn, replaceAccountPassword(c) PROVE TypeOK'
    <2>1. tx' \in [Conn -> Tx]
      <3>1. CASE tx' = [tx EXCEPT ![c].pc = "revoke"]
        BY <1>1, <3>1 DEF Tx
      <3> QED
        BY <1>2, <1>4, <1>16, <3>1 DEF replaceAccountPassword
    <2> QED
      BY <1>16, <2>1 DEF replaceAccountPassword, TypeOK
  <1>17. ASSUME NEW c \in Conn, CommitPassword(c) PROVE TypeOK'
    <2>1. tx[c].next \in Password
      BY <1>17 DEF CommitPassword, SessionInv, ChangeOK
    <2> QED
      BY <1>1, <1>2, <1>3, <1>4, <1>17, <2>1 DEF CommitPassword, TypeOK
  <1>18. ASSUME NEW c \in Conn, NEW s \in SessionId, authenticateCookie(c, s)
         PROVE  TypeOK'
    <2>1. /\ sessions[s].version \in Nat
          /\ TokenEnded(s) \in BOOLEAN
      BY <1>1 DEF SessionRow, TokenEnded
    <2>2. [Idle("none") EXCEPT !.pc = "check", !.id = s, !.time = now,
             !.version = sessions[s].version, !.left = Check,
             !.ended = TokenEnded(s)] \in Tx
      BY <1>1, <1>4, <2>1 DEF Tx
    <2> QED
      BY <1>18, <2>2, TypeMove DEF authenticateCookie, Start, TypeOK, user
  <1>19. ASSUME NEW c \in Conn, NEW query \in Check, Answer(c, query)
         PROVE  TypeOK'
    <2>1. tx' \in [Conn -> Tx]
      <3>1. CASE tx' = [tx EXCEPT ![c].left = @ \ {query}]
        BY <1>1, <3>1 DEF Tx
      <3> QED
        BY <1>2, <1>4, <1>19, <3>1 DEF Answer
    <2> QED
      BY <1>19, <2>1 DEF Answer, TypeOK, user
  <1>20. ASSUME NEW c \in Conn, Abort(c) PROVE TypeOK'
    BY <1>2, <1>4, <1>20 DEF Abort, TypeOK
  <1> QED
    BY <1>5, <1>6, <1>7, <1>8, <1>9, <1>10, <1>11, <1>12, <1>13, <1>14, <1>15,
       <1>16, <1>17, <1>18, <1>19, <1>20
    DEF Next, Begin, RefreshStep, PasswordStep

-----------------------------------------------------------------------------
(* The inductive invariant *)

LEMMA SessionInit == Init => SessionInv
  BY TypeInit, IdleType
  DEF Init, SessionInv, OneSuccessor, CurrentSessionsKnowPassword, RefreshOK,
      LoginOK, ChangeOK, CheckOK, BlankRow, Reply

\* What a step of one request leaves to the others: sessions keep their version
\* and stay ended, logs only grow, token versions only grow and name one
\* password each, and whoever holds the user row finds it unchanged.
SessionsSteady ==
    \A s \in SessionId : sessions[s].state # "unused" =>
        /\ sessions'[s].state # "unused"
        /\ sessions'[s].version = sessions[s].version
        /\ sessions[s].revoked => sessions'[s].revoked
        /\ sessions[s].state = "deleted" => sessions'[s].state = "deleted"
LogsSteady ==
    \A s \in SessionId :
        /\ Len(rotations[s]) <= Len(rotations'[s])
        /\ \A i \in 1..Len(rotations[s]) : rotations'[s][i] = rotations[s][i]
VersionsSteady ==
    /\ tokenVersion <= tokenVersion'
    /\ tokenVersion' = tokenVersion => password' = password
OthersSteady(c) ==
    \A d \in Conn \ {c} :
        /\ tx'[d] = tx[d]
        /\ userLock = d => UNCHANGED user
Steady(c) == SessionsSteady /\ LogsSteady /\ VersionsSteady /\ OthersSteady(c)

RequestOK(c) == RefreshOK(c) /\ LoginOK(c) /\ ChangeOK(c) /\ CheckOK(c)

LEMMA OthersKeepTheirFacts ==
    ASSUME SessionInv, NEW c, Steady(c), TypeOK', NEW d \in Conn \ {c}
    PROVE  RequestOK(d)'
  <1>1. /\ tx'[d] = tx[d]
        /\ RequestOK(d)
        /\ TypeOK
        /\ \A s \in SessionId : sessions[s].version <= tokenVersion
    BY DEF Steady, OthersSteady, SessionInv, RequestOK
  <1>2. RefreshOK(d)'
    <2>1. SUFFICES ASSUME tx[d].pc \in {"version", "rotate", "previous"}
                   PROVE  /\ tx[d].id \in SessionId
                          /\ tx[d].row.counter <= Len(rotations'[tx[d].id])
                          /\ tx[d].row.counter > 0 =>
                                rotations'[tx[d].id][tx[d].row.counter].at
                                  = tx[d].row.rotatedAt
      BY <1>1 DEF RefreshOK
    <2>2. /\ tx[d].id \in SessionId
          /\ tx[d].row.counter <= Len(rotations[tx[d].id])
          /\ tx[d].row.counter > 0 =>
                rotations[tx[d].id][tx[d].row.counter].at = tx[d].row.rotatedAt
      BY <1>1, <2>1 DEF RequestOK, RefreshOK
    <2>3. /\ tx[d].row.counter \in Nat
          /\ Len(rotations[tx[d].id]) \in Nat /\ Len(rotations'[tx[d].id]) \in Nat
      <3>1. tx[d] \in Tx
        BY <1>1 DEF TypeOK
      <3>2. tx[d].row \in SessionRow
        BY <3>1 DEF Tx
      <3>3. tx[d].row.counter \in Nat
        BY <3>2 DEF SessionRow
      <3>4. /\ rotations[tx[d].id] \in Seq([counter: Nat, at: Nat])
            /\ rotations'[tx[d].id] \in Seq([counter: Nat, at: Nat])
        BY <1>1, <2>2 DEF TypeOK
      <3> QED
        BY <3>3, <3>4
    <2>4. /\ Len(rotations[tx[d].id]) <= Len(rotations'[tx[d].id])
          /\ \A i \in 1..Len(rotations[tx[d].id]) :
                rotations'[tx[d].id][i] = rotations[tx[d].id][i]
      BY <2>2 DEF Steady, LogsSteady
    <2> QED
      BY <2>2, <2>3, <2>4
  <1>3. LoginOK(d)'
    <2>1. tx[d].version \in Nat /\ tokenVersion \in Nat /\ tokenVersion' \in Nat
      BY <1>1 DEF TypeOK, Tx
    <2> QED
      BY <1>1, <2>1 DEF RequestOK, LoginOK, Steady, VersionsSteady
  <1>4. ChangeOK(d)'
    BY <1>1 DEF RequestOK, ChangeOK, AccountUnchanged, Steady, OthersSteady, user
  <1>5. CheckOK(d)'
    <2> DEFINE s == tx[d].id
    <2>1. SUFFICES ASSUME tx[d].pc = "check"
                   PROVE  CheckOK(d)'
      BY <1>1 DEF CheckOK
    <2>2. /\ s \in SessionId
          /\ sessions[s].state # "unused"
          /\ tx[d].version = sessions[s].version
      BY <1>1, <2>1 DEF RequestOK, CheckOK
    <2>3. /\ sessions'[s].state # "unused"
          /\ sessions'[s].version = sessions[s].version
          /\ sessions[s].revoked => sessions'[s].revoked
          /\ sessions[s].state = "deleted" => sessions'[s].state = "deleted"
      BY <2>2 DEF Steady, SessionsSteady
    <2>4. sessions[s].version # tokenVersion => sessions[s].version # tokenVersion'
      <3>1. /\ sessions[s].version \in Nat /\ tokenVersion \in Nat
            /\ tokenVersion' \in Nat /\ sessions[s].version <= tokenVersion
        BY <1>1, <2>2 DEF TypeOK, SessionRow
      <3> QED
        BY <3>1 DEF Steady, VersionsSteady
    <2> QED
      BY <1>1, <2>1, <2>2, <2>3, <2>4 DEF RequestOK, CheckOK, TokenEnded
  <1> QED
    BY <1>2, <1>3, <1>4, <1>5 DEF RequestOK

\* A step that leaves the logs and the account alone and changes session rows
\* only in their state and marks.
LEMMA RowsKeepFacts ==
    ASSUME SessionInv, TypeOK', NEW c,
           UNCHANGED <<user, rotations>>,
           \A s \in SessionId :
              /\ sessions'[s].version = sessions[s].version
              /\ sessions'[s].proof = sessions[s].proof
              /\ sessions'[s].counter = sessions[s].counter
              /\ sessions'[s].rotatedAt = sessions[s].rotatedAt
              /\ sessions[s].revoked => sessions'[s].revoked
              /\ sessions'[s].state = "live" => sessions[s].state = "live"
              /\ sessions'[s].state = "unused" =>
                    sessions[s].state = "unused" /\ sessions'[s].revoked = sessions[s].revoked,
           \A d \in Conn \ {c} : tx'[d] = tx[d],
           c \in Conn => RequestOK(c)'
    PROVE  SessionInv'
  <1>1. /\ TypeOK
        /\ OneSuccessor
        /\ CurrentSessionsKnowPassword
        /\ \A s \in SessionId :
              /\ sessions[s].version <= tokenVersion
              /\ sessions[s].state = "unused" =>
                    sessions[s].counter = 0 /\ ~sessions[s].revoked
    BY DEF SessionInv
  <1>2. SessionsSteady
    <2>1. \A s \in SessionId : /\ sessions[s].state \in {"unused", "live", "deleted"}
                               /\ sessions'[s].state \in {"unused", "live", "deleted"}
      BY <1>1 DEF TypeOK, SessionRow
    <2> QED
      BY <2>1 DEF SessionsSteady
  <1>3. LogsSteady
    <2>1. \A s \in SessionId : Len(rotations[s]) \in Nat
      BY <1>1 DEF TypeOK
    <2> QED
      BY <2>1 DEF LogsSteady
  <1>4. VersionsSteady /\ OthersSteady(c)
    <2>1. tokenVersion \in Nat
      BY <1>1 DEF TypeOK
    <2> QED
      BY <2>1 DEF VersionsSteady, OthersSteady, user
  <1>5. \A d \in Conn : RequestOK(d)'
    BY <1>2, <1>3, <1>4, OthersKeepTheirFacts DEF Steady
  <1>6. OneSuccessor'
    BY <1>1 DEF OneSuccessor
  <1>7. CurrentSessionsKnowPassword'
    BY <1>1 DEF CurrentSessionsKnowPassword, user
  <1>8. \A s \in SessionId :
           /\ sessions'[s].version <= tokenVersion'
           /\ sessions'[s].state = "unused" =>
                 sessions'[s].counter = 0 /\ ~sessions'[s].revoked
    BY <1>1 DEF user
  <1> QED
    BY <1>5, <1>6, <1>7, <1>8 DEF SessionInv, RequestOK

LEMMA SessionNext == SessionInv /\ [Next]_vars => SessionInv'
  <1> SUFFICES ASSUME SessionInv, [Next]_vars PROVE SessionInv'
    OBVIOUS
  <1>1. TypeOK'
    BY TypeNext
  <1>2. /\ TypeOK
        /\ OneSuccessor
        /\ CurrentSessionsKnowPassword
        /\ \A s \in SessionId :
              /\ sessions[s].version <= tokenVersion
              /\ sessions[s].state = "unused" =>
                    sessions[s].counter = 0 /\ ~sessions[s].revoked
        /\ \A c \in Conn : RequestOK(c)
    BY DEF SessionInv, RequestOK
  <1>3. None \notin Conn
    BY NobodyAssumption
  <1>4. ASSUME NEW c \in Conn, NEW reply \in Reply, Finish(c, reply)
        PROVE  RequestOK(c)' /\ \A d \in Conn \ {c} : tx'[d] = tx[d]
    <2>1. tx'[c].pc = "idle" /\ \A d \in Conn \ {c} : tx'[d] = tx[d]
      BY <1>2, <1>4, IdleType DEF Finish, TypeOK
    <2> QED
      BY <2>1 DEF RequestOK, RefreshOK, LoginOK, ChangeOK, CheckOK
  <1>5. ASSUME NEW c \in Conn, NEW reply \in Reply, NEW ids, Finish(c, reply),
               sessions' = revoke(ids), UNCHANGED <<user, rotations>>
        PROVE  SessionInv'
    <2>1. \A s \in SessionId :
              /\ sessions'[s].version = sessions[s].version
              /\ sessions'[s].proof = sessions[s].proof
              /\ sessions'[s].counter = sessions[s].counter
              /\ sessions'[s].rotatedAt = sessions[s].rotatedAt
              /\ sessions[s].revoked => sessions'[s].revoked
              /\ sessions'[s].state = "live" => sessions[s].state = "live"
              /\ sessions'[s].state = "unused" =>
                    sessions[s].state = "unused" /\ sessions'[s].revoked = sessions[s].revoked
      BY <1>2, <1>5, RevokeKeeps DEF TypeOK
    <2> QED
      BY <1>1, <1>4, <1>5, <2>1, RowsKeepFacts
  <1>6. ASSUME NEW c \in Conn, UNCHANGED <<user, sessions, rotations>>,
               \A d \in Conn \ {c} : tx'[d] = tx[d], RequestOK(c)'
        PROVE  SessionInv'
    BY <1>1, <1>6, RowsKeepFacts
  <1>7. \A c \in Conn : Idle("none") \in Tx /\ "none" \in Reply
    BY IdleType DEF Reply
  <1>8. ASSUME NEW c \in Conn, NEW t, Start(c, t)
        PROVE  tx'[c] = t /\ \A d \in Conn \ {c} : tx'[d] = tx[d]
    BY <1>2, <1>8 DEF Start, TypeOK
  <1>9. /\ {"none", "invalid", "reused", "alreadyRotated", "denied", "granted",
            "rotated"} \subseteq Reply
        /\ tokenVersion \in Nat
    BY <1>2 DEF Reply, TypeOK
  <1>10. CASE UNCHANGED vars
    <2>1. \A c \in Conn : RequestOK(c)'
      BY <1>2, <1>10
      DEF vars, RequestOK, RefreshOK, LoginOK, ChangeOK, CheckOK,
          AccountUnchanged, TokenEnded
    <2>2. OneSuccessor' /\ CurrentSessionsKnowPassword'
      BY <1>2, <1>10 DEF vars, OneSuccessor, CurrentSessionsKnowPassword
    <2> QED
      BY <1>1, <1>2, <1>10, <2>1, <2>2 DEF vars, SessionInv, RequestOK
  <1>11. CASE Tick \/ \E s \in SessionId : revokeOwned(s) \/ deleteEligible(s)
    <2>1. UNCHANGED <<user, rotations, tx>>
      BY <1>11 DEF Tick, revokeOwned, deleteEligible
    <2> DEFINE Kept ==
            \A s \in SessionId :
              /\ sessions'[s].version = sessions[s].version
              /\ sessions'[s].proof = sessions[s].proof
              /\ sessions'[s].counter = sessions[s].counter
              /\ sessions'[s].rotatedAt = sessions[s].rotatedAt
              /\ sessions[s].revoked => sessions'[s].revoked
              /\ sessions'[s].state = "live" => sessions[s].state = "live"
              /\ sessions'[s].state = "unused" =>
                    sessions[s].state = "unused" /\ sessions'[s].revoked = sessions[s].revoked
    <2>2. Kept
      <3>1. CASE Tick
        BY <3>1 DEF Tick
      <3>2. ASSUME NEW r \in SessionId, revokeOwned(r) PROVE Kept
        BY <1>2, <3>2, RevokeKeeps DEF revokeOwned, TypeOK
      <3>3. ASSUME NEW r \in SessionId, deleteEligible(r) PROVE Kept
        BY <1>2, <3>3 DEF deleteEligible, TypeOK, SessionRow
      <3> QED
        BY <1>11, <3>1, <3>2, <3>3
    <2> QED
      BY <1>1, <1>3, <2>1, <2>2, RowsKeepFacts
  <1>12. ASSUME NEW c \in Conn, NEW guess \in Password,
                findForAuthentication(c, guess)
         PROVE  SessionInv'
    <2> DEFINE t == [Idle("none") EXCEPT !.pc = "create", !.password = guess,
                                         !.version = tokenVersion]
    <2>1. Start(c, t) /\ UNCHANGED <<user, sessions, rotations>> /\ guess = password
      BY <1>12 DEF findForAuthentication
    <2>2. t.pc = "create" /\ t.version = tokenVersion /\ t.password = password
      BY <1>7, <2>1 DEF Tx
    <2> HIDE DEF t
    <2>3. tx'[c] = t /\ \A d \in Conn \ {c} : tx'[d] = tx[d]
      BY <1>8, <2>1
    <2>4. RequestOK(c)'
      BY <1>9, <2>1, <2>2, <2>3
      DEF RequestOK, RefreshOK, LoginOK, ChangeOK, CheckOK, user
    <2> QED
      BY <1>6, <2>1, <2>3, <2>4
  <1>13. ASSUME NEW c \in Conn, NEW s \in SessionId, createSession(c, s)
         PROVE  SessionInv'
    <2>1. /\ tx[c].pc = "create" /\ sessions[s].state = "unused"
          /\ Finish(c, "none") /\ UNCHANGED <<user, rotations>>
          /\ \A r \in SessionId \ {s} : sessions'[r] = sessions[r]
          /\ sessions'[s].state = "live"
          /\ sessions'[s].version = tx[c].version
          /\ sessions'[s].proof = tx[c].password
          /\ sessions'[s].counter = 0
          /\ sessions'[s].rotatedAt = 0
      BY <1>2, <1>13 DEF createSession, TypeOK, BlankRow
    <2>2. /\ tx[c].version <= tokenVersion
          /\ tx[c].version = tokenVersion => tx[c].password = password
      BY <1>2, <2>1 DEF RequestOK, LoginOK
    <2>3. UNCHANGED <<password, tokenVersion, userLock, rotations>>
      BY <2>1 DEF user
    <2>4. Len(rotations[s]) = 0 /\ rotations[s] = <<>>
      <3>1. Len(rotations[s]) = 0
        BY <1>2, <2>1 DEF OneSuccessor
      <3> QED
        BY <1>2, <3>1 DEF TypeOK
    <2>5. OneSuccessor'
      BY <1>2, <2>1, <2>3, <2>4 DEF OneSuccessor
    <2>6. CurrentSessionsKnowPassword'
      BY <1>2, <2>1, <2>2, <2>3 DEF CurrentSessionsKnowPassword
    <2>7. \A r \in SessionId :
             /\ sessions'[r].version <= tokenVersion'
             /\ sessions'[r].state = "unused" =>
                   sessions'[r].counter = 0 /\ ~sessions'[r].revoked
      BY <1>2, <2>1, <2>2, <2>3
    <2>8. RequestOK(c)' /\ \A d \in Conn \ {c} : tx'[d] = tx[d]
      BY <1>4, <1>9, <2>1
    <2>9. Steady(c)
      <3>1. SessionsSteady
        BY <2>1 DEF SessionsSteady
      <3>2. \A r \in SessionId : Len(rotations[r]) \in Nat
        BY <1>2 DEF TypeOK
      <3> QED
        BY <1>9, <2>1, <2>3, <2>8, <3>1, <3>2
        DEF Steady, LogsSteady, VersionsSteady, OthersSteady, user
    <2> QED
      BY <1>1, <2>5, <2>6, <2>7, <2>8, <2>9, OthersKeepTheirFacts
      DEF SessionInv, RequestOK
  <1>14. ASSUME NEW c \in Conn, NEW s \in SessionId,
                NEW generation \in 0..sessions[s].counter,
                findRefreshById(c, s, generation)
         PROVE  SessionInv'
    <2> DEFINE t == [Idle("none") EXCEPT !.pc = "version", !.id = s,
             !.generation = generation, !.row = sessions[s], !.time = now]
    <2>1. Start(c, t) /\ UNCHANGED <<user, sessions, rotations>>
      BY <1>14 DEF findRefreshById
    <2>2. t.pc = "version" /\ t.id = s /\ t.row = sessions[s]
      BY <1>7 DEF Tx
    <2> HIDE DEF t
    <2>3. tx'[c] = t /\ \A d \in Conn \ {c} : tx'[d] = tx[d]
      BY <1>8, <2>1
    <2>4. RefreshOK(c)'
      <3>1. /\ sessions[s].counter = Len(rotations[s])
            /\ sessions[s].counter > 0 =>
                  rotations[s][sessions[s].counter].at = sessions[s].rotatedAt
            /\ Len(rotations[s]) \in Nat
        <4>1. Len(rotations[s]) \in Nat /\ Len(rotations[s]) = sessions[s].counter
          BY <1>2 DEF TypeOK, OneSuccessor
        <4>2. rotations[s] # <<>> =>
                 rotations[s][Len(rotations[s])].at = sessions[s].rotatedAt
          BY <1>2 DEF OneSuccessor
        <4>3. sessions[s].counter > 0 => rotations[s] # <<>>
          BY <4>1
        <4> QED
          BY <4>1, <4>2, <4>3
      <3> QED
        BY <2>1, <2>2, <2>3, <3>1 DEF RefreshOK
    <2>5. RequestOK(c)'
      BY <2>2, <2>3, <2>4 DEF RequestOK, LoginOK, ChangeOK, CheckOK
    <2> QED
      BY <1>6, <2>1, <2>3, <2>5
  <1>15. ASSUME NEW c \in Conn,
                RevokeOutdated(c) \/ revokeReusedFamily(c) \/ revokeAllSessions(c)
         PROVE  SessionInv'
    <2>1. \E reply \in Reply : Finish(c, reply)
      BY <1>9, <1>15 DEF RevokeOutdated, revokeReusedFamily, revokeAllSessions
    <2>2. \E ids : sessions' = revoke(ids)
      BY <1>15 DEF RevokeOutdated, revokeReusedFamily, revokeAllSessions
    <2>3. UNCHANGED <<user, rotations>>
      BY <1>15 DEF RevokeOutdated, revokeReusedFamily, revokeAllSessions
    <2> QED
      BY <1>5, <2>1, <2>2, <2>3
  <1>16. ASSUME NEW c \in Conn, RejectRefresh(c) PROVE SessionInv'
    <2>1. \E reply \in Reply : Finish(c, reply)
      BY <1>9, <1>16 DEF RejectRefresh
    <2>2. UNCHANGED <<user, sessions, rotations>>
      BY <1>16 DEF RejectRefresh
    <2> QED
      BY <1>4, <1>6, <2>1, <2>2
  <1>17. ASSUME NEW c \in Conn, findTokenVersion(c) PROVE SessionInv'
    <2>1. /\ tx[c].pc = "version"
          /\ tx'[c].pc \in {"rotate", "previous"}
          /\ tx'[c].id = tx[c].id /\ tx'[c].row = tx[c].row
          /\ \A d \in Conn \ {c} : tx'[d] = tx[d]
          /\ UNCHANGED <<user, sessions, rotations>>
      BY <1>2, <1>17 DEF findTokenVersion, TypeOK, Tx
    <2>2. RequestOK(c)'
      BY <1>2, <2>1 DEF RequestOK, RefreshOK, LoginOK, ChangeOK, CheckOK
    <2> QED
      BY <1>6, <2>1, <2>2
  <1>18. ASSUME NEW c \in Conn, ReloadSession(c) PROVE SessionInv'
    <2> DEFINE s == tx[c].id
    <2>1. /\ tx[c].pc = "rotate"
          /\ tx'[c].pc = "previous"
          /\ tx'[c].id = s /\ tx'[c].row = sessions[s]
          /\ \A d \in Conn \ {c} : tx'[d] = tx[d]
          /\ UNCHANGED <<user, sessions, rotations>>
      BY <1>2, <1>18 DEF ReloadSession, TypeOK, Tx
    <2>2. s \in SessionId
      BY <1>2, <2>1 DEF RequestOK, RefreshOK
    <2>3. /\ Len(rotations[s]) \in Nat /\ Len(rotations[s]) = sessions[s].counter
          /\ rotations[s] # <<>> =>
                rotations[s][Len(rotations[s])].at = sessions[s].rotatedAt
      BY <1>2, <2>2 DEF TypeOK, OneSuccessor
    <2>4. sessions[s].counter > 0 => rotations[s] # <<>>
      BY <2>3
    <2>5. RefreshOK(c)'
      BY <2>1, <2>2, <2>3, <2>4 DEF RefreshOK
    <2>6. RequestOK(c)'
      BY <2>1, <2>5 DEF RequestOK, LoginOK, ChangeOK, CheckOK
    <2> QED
      BY <1>6, <2>1, <2>6
  <1>19. ASSUME NEW c \in Conn, Steady(c), RequestOK(c)',
                OneSuccessor', CurrentSessionsKnowPassword',
                \A s \in SessionId :
                   /\ sessions'[s].version <= tokenVersion'
                   /\ sessions'[s].state = "unused" =>
                         sessions'[s].counter = 0 /\ ~sessions'[s].revoked
         PROVE  SessionInv'
    BY <1>1, <1>19, OthersKeepTheirFacts DEF SessionInv, RequestOK
  <1>20. ASSUME UNCHANGED <<sessions, rotations>>
         PROVE  SessionsSteady /\ LogsSteady /\ OneSuccessor'
    <2>1. \A s \in SessionId : Len(rotations[s]) \in Nat
      BY <1>2 DEF TypeOK
    <2> QED
      BY <1>2, <1>20, <2>1 DEF SessionsSteady, LogsSteady, OneSuccessor
  <1>21. ASSUME NEW c \in Conn, rotateCurrent(c) PROVE SessionInv'
    <2> DEFINE s == tx[c].id
               entry == [counter |-> tx[c].row.counter + 1, at |-> tx[c].time]
    <2>1. s \in SessionId
      BY <1>2, <1>21 DEF RequestOK, RefreshOK, rotateCurrent
    <2>2. /\ sessions[s] \in SessionRow
          /\ rotations[s] \in Seq([counter: Nat, at: Nat])
      BY <1>2, <2>1 DEF TypeOK
    <2>3. /\ tx[c].row.counter = sessions[s].counter
          /\ sessions[s].state = "live"
          /\ sessions[s].counter \in Nat
          /\ Len(rotations[s]) \in Nat
          /\ Len(rotations[s]) = sessions[s].counter
          /\ \A i \in 1..Len(rotations[s]) : rotations[s][i].counter = i
      <3>1. /\ tx[c].row.counter = sessions[s].counter
            /\ sessions[s].state = "live"
        BY <1>21 DEF rotateCurrent, StillCurrent, isSessionActive
      <3>2. sessions[s].counter \in Nat
        BY <2>2 DEF SessionRow
      <3>3. DOMAIN rotations[s] = 1..Len(rotations[s]) /\ Len(rotations[s]) \in Nat
        BY <2>2
      <3>4. /\ Len(rotations[s]) = sessions[s].counter
            /\ \A i \in DOMAIN rotations[s] : rotations[s][i].counter = i
        BY <1>2, <2>1 DEF OneSuccessor
      <3> QED
        BY <3>1, <3>2, <3>3, <3>4
    <2>4. /\ Finish(c, "rotated")
          /\ UNCHANGED user
          /\ \A r \in SessionId \ {s} : /\ sessions'[r] = sessions[r]
                                        /\ rotations'[r] = rotations[r]
      BY <1>2, <1>21 DEF rotateCurrent, TypeOK
    <2>5. /\ sessions'[s].counter = sessions[s].counter + 1
          /\ sessions'[s].rotatedAt = tx[c].time
          /\ sessions'[s].state = sessions[s].state
          /\ sessions'[s].version = sessions[s].version
          /\ sessions'[s].proof = sessions[s].proof
          /\ sessions'[s].revoked = sessions[s].revoked
      BY <1>2, <1>21, <2>1, <2>2 DEF rotateCurrent, Rotated, TypeOK, SessionRow
    <2>6. rotations'[s] = Append(rotations[s], entry)
      BY <1>2, <1>21, <2>1 DEF rotateCurrent, TypeOK
    <2>7. /\ entry \in [counter: Nat, at: Nat]
          /\ entry.counter = sessions[s].counter + 1
          /\ entry.at = tx[c].time
      BY <1>2, <2>3 DEF TypeOK, Tx
    <2> HIDE DEF entry
    <2>8. /\ Len(rotations'[s]) = Len(rotations[s]) + 1
          /\ rotations'[s][Len(rotations[s]) + 1] = entry
          /\ \A i \in 1..Len(rotations[s]) : rotations'[s][i] = rotations[s][i]
          /\ DOMAIN rotations'[s] = 1..(Len(rotations[s]) + 1)
      BY <2>2, <2>6, <2>7
    <2> HIDE DEF s
    <2>9. ASSUME NEW r \in SessionId
          PROVE  /\ Len(rotations'[r]) = sessions'[r].counter
                 /\ \A i \in DOMAIN rotations'[r] : rotations'[r][i].counter = i
                 /\ rotations'[r] # <<>> =>
                       rotations'[r][Len(rotations'[r])].at = sessions'[r].rotatedAt
      <3>1. CASE r = s
        <4>1. \A i \in 1..(Len(rotations[s]) + 1) :
                 i = Len(rotations[s]) + 1 \/ i \in 1..Len(rotations[s])
          BY <2>3
        <4> QED
          BY <2>3, <2>5, <2>7, <2>8, <3>1, <4>1
      <3>2. CASE r # s
        BY <1>2, <2>4, <3>2 DEF OneSuccessor
      <3> QED
        BY <3>1, <3>2
    <2>10. OneSuccessor'
      BY <2>9 DEF OneSuccessor
    <2>11. UNCHANGED <<password, tokenVersion, userLock>>
      BY <2>4 DEF user
    <2>12. \A r \in SessionId : /\ sessions'[r].version = sessions[r].version
                                /\ sessions'[r].proof = sessions[r].proof
                                /\ sessions'[r].state = sessions[r].state
                                /\ sessions'[r].revoked = sessions[r].revoked
      BY <2>4, <2>5
    <2>13. CurrentSessionsKnowPassword'
      BY <1>2, <2>11, <2>12 DEF CurrentSessionsKnowPassword
    <2>14. \A r \in SessionId :
             /\ sessions'[r].version <= tokenVersion'
             /\ sessions'[r].state = "unused" =>
                   sessions'[r].counter = 0 /\ ~sessions'[r].revoked
      BY <1>2, <2>3, <2>4, <2>11, <2>12
    <2>15. RequestOK(c)' /\ \A d \in Conn \ {c} : tx'[d] = tx[d]
      BY <1>4, <1>9, <2>4
    <2>16. LogsSteady
      <3>1. \A r \in SessionId : Len(rotations[r]) \in Nat
        BY <1>2 DEF TypeOK
      <3> QED
        BY <2>3, <2>4, <2>8, <3>1 DEF LogsSteady
    <2>17. Steady(c)
      BY <1>9, <2>4, <2>11, <2>12, <2>15, <2>16
      DEF Steady, SessionsSteady, VersionsSteady, OthersSteady
    <2> QED
      BY <1>19, <2>10, <2>13, <2>14, <2>15, <2>17
  <1>22. ASSUME tokenVersion' = tokenVersion + 1
         PROVE  \A s \in SessionId : sessions[s].version # tokenVersion'
                                      /\ sessions[s].version <= tokenVersion'
    <2>1. \A s \in SessionId : sessions[s].version \in Nat
      BY <1>2 DEF TypeOK, SessionRow
    <2> QED
      BY <1>2, <1>9, <1>22, <2>1
  <1>23. ASSUME NEW c \in Conn, incrementTokenVersion(c) PROVE SessionInv'
    <2> DEFINE t == [Idle("none") EXCEPT !.pc = "revokeAll"]
    <2>1. Start(c, t) /\ UNCHANGED <<password, userLock, sessions, rotations>>
          /\ userLock = None /\ tokenVersion' = tokenVersion + 1
      BY <1>23 DEF incrementTokenVersion
    <2>2. t.pc = "revokeAll"
      BY <1>7 DEF Tx
    <2> HIDE DEF t
    <2>3. tx'[c] = t /\ \A d \in Conn \ {c} : tx'[d] = tx[d]
      BY <1>8, <2>1
    <2>4. RequestOK(c)'
      BY <2>2, <2>3 DEF RequestOK, RefreshOK, LoginOK, ChangeOK, CheckOK
    <2>5. CurrentSessionsKnowPassword'
      BY <1>22, <2>1 DEF CurrentSessionsKnowPassword
    <2>6. VersionsSteady /\ OthersSteady(c)
      BY <1>3, <1>9, <2>1, <2>3 DEF VersionsSteady, OthersSteady
    <2> QED
      BY <1>2, <1>19, <1>20, <1>22, <2>1, <2>4, <2>5, <2>6 DEF Steady
  <1>24. ASSUME NEW c \in Conn, NEW current \in Password, NEW new \in Password,
                findAccountSecurityById(c, current, new)
         PROVE  SessionInv'
    <2> DEFINE t == [Idle("none") EXCEPT !.pc = "replace", !.password = current,
                        !.version = tokenVersion, !.next = new]
    <2>1. Start(c, t) /\ UNCHANGED <<user, sessions, rotations>>
      BY <1>24 DEF findAccountSecurityById
    <2>2. t.pc = "replace" /\ t.next = new
      BY <1>7 DEF Tx
    <2> HIDE DEF t
    <2>3. tx'[c] = t /\ \A d \in Conn \ {c} : tx'[d] = tx[d]
      BY <1>8, <2>1
    <2>4. RequestOK(c)'
      BY <2>2, <2>3 DEF RequestOK, RefreshOK, LoginOK, ChangeOK, CheckOK
    <2> QED
      BY <1>6, <2>1, <2>3, <2>4
  <1>25. ASSUME NEW c \in Conn, replaceAccountPassword(c) PROVE SessionInv'
    <2>1. /\ tx[c].pc = "replace" /\ userLock = None
          /\ UNCHANGED <<password, tokenVersion, sessions, rotations>>
      BY <1>25 DEF replaceAccountPassword
    <2>2. RequestOK(c)' /\ \A d \in Conn \ {c} : tx'[d] = tx[d]
      <3>1. CASE AccountUnchanged(c) /\ userLock' = c
                 /\ tx' = [tx EXCEPT ![c].pc = "revoke"]
        <4>1. /\ tx'[c].pc = "revoke" /\ tx'[c].password = tx[c].password
              /\ tx'[c].version = tx[c].version /\ tx'[c].next = tx[c].next
              /\ \A d \in Conn \ {c} : tx'[d] = tx[d]
          BY <1>2, <3>1 DEF TypeOK, Tx
        <4>2. tx[c].next \in Password
          BY <1>2, <2>1 DEF RequestOK, ChangeOK
        <4> QED
          BY <2>1, <3>1, <4>1, <4>2
          DEF RequestOK, RefreshOK, LoginOK, ChangeOK, CheckOK, AccountUnchanged
      <3>2. CASE Finish(c, "denied")
        BY <1>4, <1>9, <3>2
      <3> QED
        BY <1>25, <3>1, <3>2 DEF replaceAccountPassword
    <2>3. CurrentSessionsKnowPassword'
      BY <1>2, <2>1 DEF CurrentSessionsKnowPassword
    <2>4. VersionsSteady /\ OthersSteady(c)
      BY <1>3, <1>9, <2>1, <2>2 DEF VersionsSteady, OthersSteady
    <2> QED
      BY <1>2, <1>19, <1>20, <2>1, <2>2, <2>3, <2>4 DEF Steady
  <1>26. ASSUME NEW c \in Conn, revokeAll(c) PROVE SessionInv'
    <2>1. /\ tx[c].pc = "revoke" /\ tx'[c].pc = "commit"
          /\ tx'[c].password = tx[c].password
          /\ tx'[c].version = tx[c].version /\ tx'[c].next = tx[c].next
          /\ \A d \in Conn \ {c} : tx'[d] = tx[d]
          /\ UNCHANGED <<user, sessions, rotations>>
      BY <1>2, <1>26 DEF revokeAll, TypeOK, Tx
    <2>2. RequestOK(c)'
      BY <1>2, <2>1
      DEF RequestOK, RefreshOK, LoginOK, ChangeOK, CheckOK, AccountUnchanged, user
    <2> QED
      BY <1>6, <2>1, <2>2
  <1>27. ASSUME NEW c \in Conn, CommitPassword(c) PROVE SessionInv'
    <2>1. /\ tx[c].pc = "commit" /\ tokenVersion' = tokenVersion + 1
          /\ Finish(c, "none") /\ sessions' = revoke(tx[c].victims)
          /\ UNCHANGED rotations
      BY <1>27 DEF CommitPassword
    <2>2. userLock = c
      BY <1>2, <2>1 DEF RequestOK, ChangeOK
    <2>3. \A s \in SessionId :
             /\ sessions'[s].state = sessions[s].state
             /\ sessions'[s].version = sessions[s].version
             /\ sessions'[s].counter = sessions[s].counter
             /\ sessions'[s].rotatedAt = sessions[s].rotatedAt
             /\ sessions[s].revoked => sessions'[s].revoked
             /\ sessions[s].state = "unused" =>
                   sessions'[s].revoked = sessions[s].revoked
      BY <1>2, <2>1, RevokeKeeps DEF TypeOK
    <2>4. RequestOK(c)' /\ \A d \in Conn \ {c} : tx'[d] = tx[d]
      BY <1>4, <1>9, <2>1
    <2>5. OneSuccessor'
      BY <1>2, <2>1, <2>3 DEF OneSuccessor
    <2>6. CurrentSessionsKnowPassword'
      BY <1>22, <2>1, <2>3 DEF CurrentSessionsKnowPassword
    <2>7. \A s \in SessionId :
             /\ sessions'[s].version <= tokenVersion'
             /\ sessions'[s].state = "unused" =>
                   sessions'[s].counter = 0 /\ ~sessions'[s].revoked
      BY <1>2, <1>22, <2>1, <2>3
    <2>8. SessionsSteady /\ LogsSteady
      <3>1. \A s \in SessionId : Len(rotations[s]) \in Nat
        BY <1>2 DEF TypeOK
      <3> QED
        BY <2>1, <2>3, <3>1 DEF SessionsSteady, LogsSteady
    <2>9. VersionsSteady /\ OthersSteady(c)
      BY <1>9, <2>1, <2>2, <2>4 DEF VersionsSteady, OthersSteady
    <2> QED
      BY <1>19, <2>4, <2>5, <2>6, <2>7, <2>8, <2>9 DEF Steady
  <1>28. ASSUME NEW c \in Conn, NEW s \in SessionId, authenticateCookie(c, s)
         PROVE  SessionInv'
    <2> DEFINE t == [Idle("none") EXCEPT !.pc = "check", !.id = s, !.time = now,
            !.version = sessions[s].version, !.left = Check,
            !.ended = TokenEnded(s)]
    <2>1. /\ Start(c, t) /\ UNCHANGED <<user, sessions, rotations>>
          /\ sessions[s].state # "unused"
      BY <1>28 DEF authenticateCookie
    <2>2. /\ t.pc = "check" /\ t.id = s /\ t.version = sessions[s].version
          /\ t.left = Check /\ t.ended = TokenEnded(s)
      BY <1>7 DEF Tx
    <2> HIDE DEF t
    <2>3. tx'[c] = t /\ \A d \in Conn \ {c} : tx'[d] = tx[d]
      BY <1>8, <2>1
    <2>4. CheckOK(c)'
      <3>1. TokenEnded(s)' = TokenEnded(s)
        BY <2>1 DEF TokenEnded, user
      <3>2. {"session", "user"} \subseteq t.left
        BY <2>2 DEF Check
      <3> QED
        BY <2>1, <2>2, <2>3, <3>1, <3>2 DEF CheckOK, TokenEnded, user
    <2>5. RequestOK(c)'
      BY <2>2, <2>3, <2>4 DEF RequestOK, RefreshOK, LoginOK, ChangeOK
    <2> QED
      BY <1>6, <2>1, <2>3, <2>5
  <1>29. ASSUME NEW c \in Conn, NEW query \in Check, Answer(c, query)
         PROVE  SessionInv'
    <2>1. /\ tx[c].pc = "check" /\ UNCHANGED <<user, sessions, rotations>>
      BY <1>29 DEF Answer
    <2>2. CASE \E reply \in Reply : Finish(c, reply)
      BY <1>4, <1>6, <2>1, <2>2
    <2>3. CASE Passes(c, query) /\ tx' = [tx EXCEPT ![c].left = @ \ {query}]
      <3>1. /\ tx'[c].pc = "check" /\ tx'[c].id = tx[c].id
            /\ tx'[c].version = tx[c].version /\ tx'[c].ended = tx[c].ended
            /\ tx'[c].left = tx[c].left \ {query}
            /\ \A d \in Conn \ {c} : tx'[d] = tx[d]
        BY <1>2, <2>1, <2>3 DEF TypeOK, Tx
      <3>2. CheckOK(c)
        BY <1>2 DEF RequestOK
      <3>3. /\ query = "session" =>
                  /\ ~sessions[tx[c].id].revoked
                  /\ sessions[tx[c].id].state # "deleted"
            /\ query = "user" => tokenVersion = tx[c].version
            /\ query \in {"session", "user"}
        BY <2>3 DEF Passes, isSessionActive, Check
      <3>4. CheckOK(c)'
        BY <2>1, <3>1, <3>2, <3>3 DEF CheckOK, TokenEnded, user
      <3>5. RequestOK(c)'
        BY <2>1, <3>1, <3>4 DEF RequestOK, RefreshOK, LoginOK, ChangeOK
      <3> QED
        BY <1>6, <2>1, <3>1, <3>5
    <2> QED
      BY <1>9, <1>29, <2>2, <2>3 DEF Answer
  <1>30. ASSUME NEW c \in Conn, Abort(c) PROVE SessionInv'
    <2>1. /\ Finish(c, "none")
          /\ UNCHANGED <<password, tokenVersion, sessions, rotations>>
          /\ userLock' = IF userLock = c THEN None ELSE userLock
      BY <1>30 DEF Abort
    <2>2. RequestOK(c)' /\ \A d \in Conn \ {c} : tx'[d] = tx[d]
      BY <1>4, <1>9, <2>1
    <2>3. CurrentSessionsKnowPassword'
      BY <1>2, <2>1 DEF CurrentSessionsKnowPassword
    <2>4. VersionsSteady /\ OthersSteady(c)
      BY <1>9, <2>1, <2>2 DEF VersionsSteady, OthersSteady, user
    <2> QED
      BY <1>2, <1>19, <1>20, <2>1, <2>2, <2>3, <2>4 DEF Steady
  <1> QED
    BY <1>10, <1>11, <1>12, <1>13, <1>14, <1>15, <1>16, <1>17, <1>18, <1>21,
       <1>23, <1>24, <1>25, <1>26, <1>27, <1>28, <1>29, <1>30
    DEF Next, Begin, RefreshStep, PasswordStep

-----------------------------------------------------------------------------
(* Theorems *)

\* Row versions that refreshes know, passwords that logins know, and ended tokens
\* that checks know stay known, whatever transactions commit in between.
THEOREM SessionSafe == Spec => []SessionInv
  BY SessionInit, SessionNext, PTL DEF Spec

\* The rows, the row lock and the requests keep their types.
THEOREM SessionTypes == Spec => []TypeOK
  <1>1. SessionInv => TypeOK
    BY DEF SessionInv
  <1> QED
    BY <1>1, SessionSafe, PTL

\* A refresh token is rotated once, however many requests present it at once.
THEOREM SuccessorsAreUnique == Spec => []OneSuccessor
  <1>1. SessionInv => OneSuccessor
    BY DEF SessionInv
  <1> QED
    BY <1>1, SessionSafe, PTL

\* A session that checks still accept was opened with today's password.
THEOREM OldPasswordsOpenNothing == Spec => []CurrentSessionsKnowPassword
  <1>1. SessionInv => CurrentSessionsKnowPassword
    BY DEF SessionInv
  <1> QED
    BY <1>1, SessionSafe, PTL

\* Only a password change at its commit replaces the password, and it still
\* holds the account as it read it.
THEOREM ChangesAreKnowing == Spec => PasswordChangedKnowingly
  <1> DEFINE Knowing == password' # password =>
                          \E c \in Conn : /\ tx[c].pc = "commit"
                                          /\ tx[c].password = password
                                          /\ tx[c].version = tokenVersion
  <1>1. SessionInv /\ [Next]_vars => [Knowing]_vars
    <2> SUFFICES ASSUME SessionInv, Next PROVE Knowing
      BY DEF vars
    <2>1. CASE \E c \in Conn : CommitPassword(c)
      <3>1. PICK c \in Conn : CommitPassword(c)
        BY <2>1
      <3> QED
        BY <3>1 DEF CommitPassword, SessionInv, ChangeOK, AccountUnchanged
    <2>2. CASE \A c \in Conn : ~CommitPassword(c)
      BY <2>2
      DEF Next, Begin, RefreshStep, PasswordStep, Tick, revokeOwned,
          deleteEligible, findForAuthentication, createSession, findRefreshById,
          incrementTokenVersion, findAccountSecurityById, authenticateCookie,
          RevokeOutdated, findTokenVersion, rotateCurrent, ReloadSession,
          RejectRefresh, revokeReusedFamily, revokeAllSessions,
          replaceAccountPassword, revokeAll, Answer, Abort, user
    <2> QED
      BY <2>1, <2>2
  <1> QED
    BY <1>1, SessionSafe, PTL DEF Spec, PasswordChangedKnowingly

\* A request in progress is moved on only by its own steps.
LEMMA OwnSteps ==
    ASSUME TypeOK, Next, NEW c \in Conn, tx[c].pc # "idle", tx'[c] # tx[c]
    PROVE  \/ \E s \in SessionId : createSession(c, s)
           \/ RefreshStep(c)
           \/ revokeAllSessions(c)
           \/ PasswordStep(c)
           \/ \E query \in Check : Answer(c, query)
           \/ Abort(c)
  <1>1. tx \in [Conn -> Tx]
    BY DEF TypeOK
  <1>2. ASSUME NEW d \in Conn, NEW t, tx' = [tx EXCEPT ![d] = t] PROVE d = c
    BY <1>1, <1>2
  <1>3. ASSUME NEW d \in Conn, Begin(d) PROVE FALSE
    <2>1. tx[d].pc = "idle" /\ \E t : tx' = [tx EXCEPT ![d] = t]
      BY <1>3 DEF Begin, findForAuthentication, findRefreshById,
                  incrementTokenVersion, findAccountSecurityById,
                  authenticateCookie, Start
    <2> QED
      BY <1>2, <2>1
  <1>4. ASSUME NEW d \in Conn,
               \/ \E s \in SessionId : createSession(d, s)
               \/ revokeAllSessions(d)
               \/ Abort(d)
        PROVE  d = c
    BY <1>2, <1>4 DEF createSession, revokeAllSessions, Abort, Finish
  <1>5. ASSUME NEW d \in Conn, RefreshStep(d) PROVE d = c
    BY <1>1, <1>5 DEF RefreshStep, RevokeOutdated, findTokenVersion, rotateCurrent,
       ReloadSession, RejectRefresh, revokeReusedFamily, Finish
  <1>6. ASSUME NEW d \in Conn, PasswordStep(d) PROVE d = c
    BY <1>1, <1>6
    DEF PasswordStep, replaceAccountPassword, revokeAll, CommitPassword, Finish
  <1>7. ASSUME NEW d \in Conn, NEW query \in Check, Answer(d, query) PROVE d = c
    BY <1>1, <1>7 DEF Answer, Finish
  <1>8. UNCHANGED tx => FALSE
    OBVIOUS
  <1> QED
    BY <1>3, <1>4, <1>5, <1>6, <1>7, <1>8 DEF Next, Tick, revokeOwned, deleteEligible

\* A check is granted by the query that is left when the other has passed; the
\* one that ends the token is left or would have refused it.
THEOREM EndedTokensAreRefused == Spec => EndedTokensRefused
  <1> DEFINE Refused == \A c \in Conn :
          tx[c].pc = "check" /\ tx'[c] = Idle("granted") => ~tx[c].ended
  <1>1. SessionInv /\ [Next]_vars => [Refused]_vars
    <2> SUFFICES ASSUME SessionInv, Next, NEW c \in Conn, tx[c].pc = "check",
                        tx'[c] = Idle("granted"), tx[c].ended
                 PROVE  FALSE
      BY DEF vars
    <2>1. /\ tx \in [Conn -> Tx]
          /\ Idle("granted").pc = "idle" /\ Idle("granted").reply = "granted"
          /\ Idle("none").reply = "none" /\ Idle("denied").reply = "denied"
      BY IdleType DEF SessionInv, TypeOK, Reply
    <2>2. tx'[c].pc = "idle" /\ tx'[c].reply = "granted"
      BY <2>1
    <2>3. tx'[c] # tx[c]
      BY <2>2
    <2>4. \E query \in Check : Answer(c, query)
      <3>1. ~Abort(c)
        BY <2>1, <2>2 DEF Abort, Finish
      <3> QED
        BY <2>3, <3>1, OwnSteps
        DEF SessionInv, RefreshStep, PasswordStep, createSession, RevokeOutdated,
            findTokenVersion, rotateCurrent, ReloadSession, RejectRefresh,
            revokeReusedFamily, revokeAllSessions, replaceAccountPassword,
            revokeAll, CommitPassword
    <2>5. PICK query \in Check : Answer(c, query)
      BY <2>4
    <2>6. tx[c].left = {query} /\ Passes(c, query)
      <3>1. CASE tx' = [tx EXCEPT ![c].left = @ \ {query}]
        BY <2>1, <2>2, <3>1 DEF Tx
      <3>2. CASE Finish(c, "denied")
        BY <2>1, <2>2, <3>2 DEF Finish
      <3> QED
        BY <2>5, <3>1, <3>2 DEF Answer
    <2>7. /\ TokenEnded(tx[c].id)
          /\ tx[c].version = sessions[tx[c].id].version
          /\ "session" \notin tx[c].left => tx[c].version # tokenVersion
          /\ "user" \notin tx[c].left =>
                \/ sessions[tx[c].id].revoked
                \/ sessions[tx[c].id].state = "deleted"
      BY DEF SessionInv, CheckOK
    <2> QED
      BY <2>6, <2>7 DEF Passes, isSessionActive, Check
  <1> QED
    BY <1>1, SessionSafe, PTL DEF Spec, EndedTokensRefused

\* A rotation requires a session that is not revoked, a login an unused row.
THEOREM RevokedStaysRevoked == Spec => RevokedForGood
  <1> DEFINE Good == \A s \in SessionId : sessions[s].revoked =>
                        /\ sessions'[s].revoked
                        /\ sessions'[s].counter = sessions[s].counter
                        /\ rotations'[s] = rotations[s]
  <1>1. SessionInv /\ [Next]_vars => [Good]_vars
    <2> SUFFICES ASSUME SessionInv, Next PROVE Good
      BY DEF vars
    <2>1. /\ sessions \in [SessionId -> SessionRow]
          /\ rotations \in [SessionId -> Seq([counter: Nat, at: Nat])]
          /\ \A s \in SessionId :
                sessions[s].state = "unused" => ~sessions[s].revoked
      BY DEF SessionInv, TypeOK
    <2>2. ASSUME UNCHANGED rotations, NEW ids, sessions' = revoke(ids)
          PROVE  Good
      BY <2>1, <2>2, RevokeKeeps
    <2>3. CASE \E c \in Conn : rotateCurrent(c)
      BY <2>1, <2>3 DEF rotateCurrent, StillCurrent, isSessionActive
    <2>4. CASE \E c \in Conn : \E s \in SessionId : createSession(c, s)
      BY <2>1, <2>4 DEF createSession
    <2>5. CASE \E s \in SessionId : deleteEligible(s)
      BY <2>1, <2>5 DEF deleteEligible, SessionRow
    <2>6. CASE UNCHANGED <<sessions, rotations>>
      BY <2>6
    <2>7. CASE \/ \E s \in SessionId : revokeOwned(s)
               \/ \E c \in Conn : \/ RevokeOutdated(c) \/ revokeReusedFamily(c)
                                  \/ revokeAllSessions(c) \/ CommitPassword(c)
      <3>1. UNCHANGED rotations /\ \E ids : sessions' = revoke(ids)
        BY <2>7 DEF revokeOwned, RevokeOutdated, revokeReusedFamily,
                    revokeAllSessions, CommitPassword
      <3> QED
        BY <2>2, <3>1
    <2> QED
      BY <2>3, <2>4, <2>5, <2>6, <2>7
      DEF Next, Begin, RefreshStep, PasswordStep, Tick, findForAuthentication,
          findRefreshById, incrementTokenVersion, findAccountSecurityById,
          authenticateCookie, findTokenVersion, ReloadSession, RejectRefresh,
          replaceAccountPassword, revokeAll, Answer, Abort
  <1> QED
    BY <1>1, SessionSafe, PTL DEF Spec, RevokedForGood

\* The row a reuse is judged by is one the session had: its rotated_at is the
\* time of the rotation that replaced the presented token.
THEOREM RaceLosersAreSpared == Spec => RaceLoserSpared
  <1> DEFINE Spared == \A c \in Conn :
          tx[c].pc # "idle" /\ tx'[c] = Idle("reused") =>
             /\ tx[c].generation < Len(rotations[tx[c].id])
             /\ tx[c].time >
                  rotations[tx[c].id][tx[c].generation + 1].at + Window
  <1>1. SessionInv /\ [Next]_vars => [Spared]_vars
    <2> SUFFICES ASSUME SessionInv, Next, NEW c \in Conn, tx[c].pc # "idle",
                        tx'[c] = Idle("reused")
                 PROVE  /\ tx[c].generation < Len(rotations[tx[c].id])
                        /\ tx[c].time >
                             rotations[tx[c].id][tx[c].generation + 1].at + Window
      BY DEF vars
    <2>1. /\ tx \in [Conn -> Tx]
          /\ Idle("reused").pc = "idle"
          /\ \A reply \in Reply : Idle(reply).reply = reply
          /\ Reply = {"none", "rotated", "alreadyRotated", "invalid", "reused",
                      "granted", "denied"}
      BY IdleType DEF SessionInv, TypeOK, Reply
    <2>2. tx'[c].pc = "idle" /\ tx'[c].reply = "reused"
      BY <2>1
    <2>3. tx'[c] # tx[c]
      BY <2>2
    <2>4. revokeReusedFamily(c)
      <3>1. ASSUME NEW reply \in Reply \ {"reused"}, Finish(c, reply) PROVE FALSE
        BY <2>1, <2>2, <3>1 DEF Finish
      <3>2. {"none", "rotated", "alreadyRotated", "invalid", "granted", "denied"}
               \subseteq Reply \ {"reused"}
        BY <2>1
      <3>3. ~(\E s \in SessionId : createSession(c, s)) /\ ~revokeAllSessions(c)
               /\ ~Abort(c)
        BY <3>1, <3>2 DEF createSession, revokeAllSessions, Abort
      <3>4. /\ ~RevokeOutdated(c) /\ ~rotateCurrent(c) /\ ~RejectRefresh(c)
        BY <3>1, <3>2 DEF RevokeOutdated, rotateCurrent, RejectRefresh
      <3>5. ~findTokenVersion(c) /\ ~ReloadSession(c) /\ ~revokeAll(c)
        BY <2>1, <2>2 DEF findTokenVersion, ReloadSession, revokeAll, Tx
      <3>6. ~replaceAccountPassword(c) /\ ~CommitPassword(c)
        <4>1. tx' # [tx EXCEPT ![c].pc = "revoke"]
          BY <2>1, <2>2 DEF Tx
        <4> QED
          BY <3>1, <3>2, <4>1 DEF replaceAccountPassword, CommitPassword
      <3>7. ~(\E query \in Check : Answer(c, query))
        <4>1. ASSUME NEW query, tx' = [tx EXCEPT ![c].left = @ \ {query}],
                     tx[c].pc = "check"
              PROVE  FALSE
          BY <2>1, <2>2, <4>1 DEF Tx
        <4> QED
          BY <3>1, <3>2, <4>1 DEF Answer
      <3> QED
        BY <2>3, <3>3, <3>4, <3>5, <3>6, <3>7, OwnSteps
        DEF SessionInv, RefreshStep, PasswordStep
    <2>5. /\ tx[c].pc = "previous"
          /\ tx[c].row.counter = tx[c].generation + 1
          /\ ~(tx[c].time <= tx[c].row.rotatedAt + Window)
      BY <2>4 DEF revokeReusedFamily, PresentsPrevious, isInsideConcurrencyWindow
    <2>6. /\ tx[c].row.counter <= Len(rotations[tx[c].id])
          /\ tx[c].row.counter > 0 =>
                rotations[tx[c].id][tx[c].row.counter].at = tx[c].row.rotatedAt
          /\ tx[c].id \in SessionId
      BY <2>5 DEF SessionInv, RefreshOK
    <2>7. /\ tx[c].generation \in Nat /\ tx[c].time \in Nat /\ Window \in Nat
          /\ tx[c].row.rotatedAt \in Nat
          /\ Len(rotations[tx[c].id]) \in Nat
      <3>1. tx[c] \in Tx
        BY <2>1
      <3>2. tx[c].row \in SessionRow /\ tx[c].generation \in Nat /\ tx[c].time \in Nat
        BY <3>1 DEF Tx
      <3>3. rotations[tx[c].id] \in Seq([counter: Nat, at: Nat])
        BY <2>6 DEF SessionInv, TypeOK
      <3> QED
        BY <3>2, <3>3, TimeAssumption DEF SessionRow
    <2>8. /\ tx[c].generation < Len(rotations[tx[c].id])
          /\ rotations[tx[c].id][tx[c].generation + 1].at = tx[c].row.rotatedAt
      BY <2>5, <2>6, <2>7
    <2> QED
      BY <2>5, <2>7, <2>8
  <1> QED
    BY <1>1, SessionSafe, PTL DEF Spec, RaceLoserSpared
=============================================================================
