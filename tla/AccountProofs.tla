---------------------------- MODULE AccountProofs ----------------------------
(***************************************************************************)
(* Theorems of Account for every set of connections, addresses and          *)
(* passwords and every bound: tokens prove the address they act on, sessions *)
(* at the account's version knew the account, a deactivation is final, and  *)
(* mailed tokens keep their limits.                                          *)
(* The argument: whoever is past a lock on the account's row, or past the   *)
(* consumption of a token, is alone there, so what it found stays true until *)
(* its commit; every writer of the account invalidates the tokens that its   *)
(* commit would falsify, or waits for those that are being consumed.        *)
(***************************************************************************)
EXTENDS Account, FiniteSetTheorems, TLAPS

LEMMA IdleType == Idle \in Tx /\ Idle.pc = "idle"
  BY DEF Idle, Tx

LEMMA InitInv == Init => AccountInv
  <1> SUFFICES ASSUME Init PROVE AccountInv
    OBVIOUS
  <1>1. \A c \in Conn : tx[c] = Idle
    BY DEF Init
  <1>2. /\ user \in UserRow /\ user.password \in Password
        /\ ~user.deactivated
    BY DEF Init, UserRow
  <1>3. NoPending \in PendingRow
    BY DEF NoPending, PendingRow
  <1>4. tokens \in Seq(Token) /\ DOMAIN tokens = {} /\ inbox = {}
    BY DEF Init
  <1>5. TypeOK
    BY <1>2, <1>3, <1>4, IdleType DEF Init, TypeOK
  <1>6. OneWriter
    BY <1>1, IdleType DEF OneWriter, Writers, UserLockers
  <1>7. \A c \in Conn : RequestOK(c)
    BY <1>1, <1>2, IdleType DEF RequestOK
  <1>8. OneActiveToken /\ TokensFit
    BY <1>4 DEF OneActiveToken, TokensFit, Active
  <1>9. LoginsKnow /\ SessionsKnow /\ CurrentSessionsProved
    BY <1>1, IdleType DEF Init, LoginsKnow, SessionsKnow, CurrentSessionsProved
  <1> QED
    BY <1>2, <1>5, <1>6, <1>7, <1>8, <1>9 DEF AccountInv

-----------------------------------------------------------------------------
(* Steps that write neither the account nor its tokens *)

\* A request that moves on keeps the invariant if its own part holds and what it
\* has come to hold was nobody else's.
LEMMA MoveKeeps ==
    ASSUME AccountInv, UNCHANGED <<user, tokens, pending, sessions>>,
           inbox' \subseteq DOMAIN tokens, listing' \in {"active", "archived"},
           ordered' \in BOOLEAN, now' \in Nat,
           NEW c \in Conn, NEW r \in Tx, tx' = [tx EXCEPT ![c] = r],
           RequestOK(c)',
           ordered' => ordered \/ \A d \in Conn \ {c} : tx[d].pc # "deactivate",
           r.pc \in Writers => \A d \in Conn \ {c} : tx[d].pc \notin Writers,
           r.pc \in {"verify", "reset"} =>
              \A d \in Conn \ {c} : tx[d].pc \in {"verify", "reset"} =>
                                      tx[d].token # r.token,
           r.pc = "login" =>
              KnownAt(r.seen.tokenVersion, r.seen.password, r.seen.email)
    PROVE  AccountInv'
  <1>1. tx \in [Conn -> Tx]
    BY DEF AccountInv, TypeOK
  <1>2. tx'[c] = r /\ \A d \in Conn \ {c} : tx'[d] = tx[d]
    BY <1>1
  <1>3. TypeOK'
    BY <1>1 DEF AccountInv, TypeOK
  <1>4. OneWriter'
    BY <1>2 DEF AccountInv, OneWriter, Writers, UserLockers
  <1>5. ASSUME NEW d \in Conn \ {c} PROVE RequestOK(d)'
    BY <1>2 DEF AccountInv, RequestOK, HoldsToken
  <1>6. LoginsKnow'
    BY <1>2 DEF AccountInv, LoginsKnow, KnownAt
  <1>7. OneActiveToken' /\ TokensFit' /\ SessionsKnow' /\ CurrentSessionsProved'
    BY DEF AccountInv, OneActiveToken, TokensFit, SessionsKnow, KnownAt,
           CurrentSessionsProved, Active
  <1>8. /\ user'.deactivated => pending' = NoPending
        /\ ~user'.deactivated => user'.password \in Password
    BY DEF AccountInv
  <1> QED
    BY <1>3, <1>4, <1>5, <1>6, <1>7, <1>8 DEF AccountInv

LEMMA FinishKeeps ==
    ASSUME AccountInv, UNCHANGED <<user, tokens, pending, sessions>>,
           inbox' \subseteq DOMAIN tokens, listing' \in {"active", "archived"},
           ordered' \in BOOLEAN, now' \in Nat, NEW c \in Conn, Finish(c),
           ordered' => ordered \/ \A d \in Conn \ {c} : tx[d].pc # "deactivate"
    PROVE  AccountInv'
  <1>1. tx' = [tx EXCEPT ![c] = Idle]
    BY DEF Finish
  <1>2. tx'[c] = Idle
    BY <1>1 DEF AccountInv, TypeOK
  <1>3. RequestOK(c)'
    BY <1>2, IdleType DEF RequestOK
  <1>4. Idle.pc \notin Writers
    BY IdleType DEF Writers, UserLockers
  <1> QED
    BY <1>1, <1>3, <1>4, IdleType, MoveKeeps

\* A request that starts with r, which holds nothing yet but a token at most.
LEMMA StartKeeps ==
    ASSUME AccountInv, NEW c \in Conn, NEW r \in Tx, Start(c, r),
           UNCHANGED <<user, tokens, pending, sessions, inbox, goods, now>>,
           RequestOK(c)', r.pc \notin Writers \cup {"verify", "reset", "login"}
    PROVE  AccountInv'
  <1>1. /\ tx' = [tx EXCEPT ![c] = r] /\ ordered' = ordered
        /\ listing' = listing /\ inbox' = inbox /\ now' = now
    BY DEF Start, goods
  <1>2. /\ inbox' \subseteq DOMAIN tokens /\ listing' \in {"active", "archived"}
        /\ ordered' \in BOOLEAN /\ now' \in Nat
    BY <1>1 DEF AccountInv, TypeOK
  <1> QED
    BY <1>1, <1>2, MoveKeeps

LEMMA ReadKeeps ==
    ASSUME AccountInv, NEW c \in Conn,
           \/ \E purpose \in Mailed : requestToken(c, purpose)
           \/ \E t \in inbox, new \in Password : confirmPasswordReset(c, t, new)
           \/ \E email \in Email : requestEmailChange(c, email)
           \/ \E new \in Password : changePassword(c, new)
           \/ deactivateAccount(c)
           \/ findForCheckout(c)
           \/ ownedProduct(c)
    PROVE  AccountInv'
  <1>1. /\ user.email \in Email /\ user.tokenVersion \in Nat
        /\ user.password \in Password \cup {None} /\ now \in Nat
        /\ inbox \subseteq DOMAIN tokens /\ tx \in [Conn -> Tx]
        /\ DOMAIN tokens \subseteq Nat
    BY DEF AccountInv, TypeOK, UserRow
  <1>2. TakeSnapshot \in Snapshot
    BY <1>1 DEF TakeSnapshot, Snapshot
  <1>3. ASSUME NEW pc \in {"change", "replacing", "deactivating"},
               NEW next \in Password \cup Email \cup {None}
        PROVE  /\ BySnapshot(pc, next) \in Tx
               /\ BySnapshot(pc, next).pc = pc
               /\ BySnapshot(pc, next).next = next
               /\ BySnapshot(pc, next).seen = TakeSnapshot
    BY <1>1, <1>2 DEF BySnapshot, Idle, Tx
  <1>4. ASSUME NEW purpose \in Mailed, requestToken(c, purpose) PROVE AccountInv'
    <2> DEFINE r == [Idle EXCEPT !.pc = "request", !.purpose = purpose,
                                 !.next = user.email, !.time = now]
    <2>1. r \in Tx /\ r.pc = "request" /\ r.purpose = purpose
      BY <1>1 DEF Idle, Tx, AccountTokenPurpose
    <2>2. Start(c, r)
          /\ UNCHANGED <<user, tokens, pending, sessions, inbox, goods, now>>
      BY <1>4 DEF requestToken
    <2>3. tx'[c] = r
      BY <1>1, <2>2 DEF Start
    <2>4. RequestOK(c)'
      BY <2>1, <2>3 DEF RequestOK
    <2> HIDE DEF r
    <2> QED
      BY <2>1, <2>2, <2>4, StartKeeps DEF Writers, UserLockers
  <1>5. ASSUME NEW t \in inbox, NEW new \in Password,
               confirmPasswordReset(c, t, new)
        PROVE  AccountInv'
    <2> DEFINE r == [Idle EXCEPT !.pc = "resetting", !.token = t, !.next = new,
                                 !.time = now]
    <2>1. r \in Tx /\ r.pc = "resetting" /\ r.token = t /\ r.next = new
      BY <1>1 DEF Idle, Tx
    <2>2. /\ Start(c, r) /\ ~user.deactivated
          /\ UNCHANGED <<user, tokens, pending, sessions, inbox, goods, now>>
      BY <1>5 DEF confirmPasswordReset
    <2>3. tx'[c] = r
      BY <1>1, <2>2 DEF Start
    <2>4. RequestOK(c)'
      BY <1>1, <2>1, <2>2, <2>3 DEF RequestOK
    <2> HIDE DEF r
    <2> QED
      BY <2>1, <2>2, <2>4, StartKeeps DEF Writers, UserLockers
  <1>6. ASSUME NEW pc \in {"change", "replacing", "deactivating"},
               NEW next \in Password \cup Email \cup {None},
               pc = "change" => next \in Email,
               pc = "replacing" => next \in Password,
               Start(c, BySnapshot(pc, next)),
               UNCHANGED <<user, tokens, pending, sessions, inbox, goods, now>>
        PROVE  AccountInv'
    <2>1. tx'[c] = BySnapshot(pc, next)
      BY <1>1, <1>6 DEF Start
    <2>2. RequestOK(c)'
      BY <1>2, <1>3, <1>6, <2>1 DEF RequestOK
    <2> QED
      BY <1>3, <1>6, <2>2, StartKeeps DEF Writers, UserLockers
  <1>7. ASSUME NEW pc \in {"order", "relist"},
               Start(c, [Idle EXCEPT !.pc = pc]),
               UNCHANGED <<user, tokens, pending, sessions, inbox, goods, now>>
        PROVE  AccountInv'
    <2> DEFINE r == [Idle EXCEPT !.pc = pc]
    <2>1. r \in Tx /\ r.pc = pc
      BY DEF Idle, Tx
    <2>2. tx'[c] = r
      BY <1>1, <1>7 DEF Start
    <2>3. RequestOK(c)'
      BY <2>1, <2>2 DEF RequestOK
    <2>4. Start(c, r)
      BY <1>7
    <2> HIDE DEF r
    <2> QED
      BY <1>7, <2>1, <2>3, <2>4, StartKeeps DEF Writers, UserLockers
  <1>8. ASSUME NEW email \in Email, requestEmailChange(c, email)
        PROVE  AccountInv'
    BY <1>6, <1>8 DEF requestEmailChange
  <1>9. ASSUME NEW new \in Password, changePassword(c, new) PROVE AccountInv'
    BY <1>6, <1>9 DEF changePassword
  <1>10. CASE deactivateAccount(c)
    BY <1>6, <1>10 DEF deactivateAccount
  <1>11. CASE findForCheckout(c) \/ ownedProduct(c)
    BY <1>7, <1>11 DEF findForCheckout, ownedProduct
  <1> QED
    BY <1>4, <1>5, <1>8, <1>9, <1>10, <1>11

-----------------------------------------------------------------------------
(* Steps that take a lock *)

\* Whoever takes the account's row found nobody writing it.
LEMMA FreeRow ==
    ASSUME UserFree
    PROVE  \A d \in Conn : tx[d].pc \notin Writers
  BY DEF UserFree, ReferableUser, Writers

\* A token that is not locked is not yet consumed by anybody.
LEMMA FreeToken ==
    ASSUME NEW t, ~TokenLocked(t), NEW d \in Conn, tx[d].pc \in {"verify", "reset"}
    PROVE  tx[d].token # t
  BY DEF TokenLocked

LEMMA VerifyKeeps ==
    ASSUME AccountInv, NEW c \in Conn, NEW t \in inbox,
           confirmEmailVerification(c, t)
    PROVE  AccountInv'
  <1> DEFINE r == [Idle EXCEPT !.pc = "verify", !.token = t]
  <1>1. /\ t \in DOMAIN tokens /\ t \in Nat /\ tx \in [Conn -> Tx]
        /\ inbox \subseteq DOMAIN tokens /\ listing \in {"active", "archived"}
        /\ ordered \in BOOLEAN /\ now \in Nat
    BY DEF AccountInv, TypeOK
  <1>2. r \in Tx /\ r.pc = "verify" /\ r.token = t
    BY <1>1 DEF Idle, Tx
  <1>3. /\ tx' = [tx EXCEPT ![c] = r] /\ UNCHANGED <<user, tokens, pending, sessions>>
        /\ inbox' = inbox /\ listing' = listing /\ ordered' = ordered /\ now' = now
        /\ ~TokenLocked(t)
        /\ tokens[t].state = "active" /\ tokens[t].purpose = "email_verification"
    BY DEF confirmEmailVerification, Start, goods, Consumable
  <1>4. tx'[c] = r
    BY <1>1, <1>3
  <1>5. RequestOK(c)'
    BY <1>1, <1>2, <1>3, <1>4 DEF RequestOK, HoldsToken
  <1>6. \A d \in Conn \ {c} : tx[d].pc \in {"verify", "reset"} => tx[d].token # t
    BY <1>3, FreeToken
  <1> HIDE DEF r
  <1> QED
    BY <1>1, <1>2, <1>3, <1>5, <1>6, MoveKeeps DEF Writers, UserLockers

LEMMA ConsumeKeeps ==
    ASSUME AccountInv, NEW c \in Conn, consumeReset(c)
    PROVE  AccountInv'
  <1> DEFINE r == [tx[c] EXCEPT !.pc = "reset"]
  <1>1. /\ tx \in [Conn -> Tx]
        /\ inbox \subseteq DOMAIN tokens /\ listing \in {"active", "archived"}
        /\ ordered \in BOOLEAN /\ now \in Nat
    BY DEF AccountInv, TypeOK
  <1>2. /\ r \in Tx /\ r.pc = "reset" /\ r.token = tx[c].token
        /\ r.next = tx[c].next
    BY <1>1 DEF Tx
  <1>3. /\ tx' = [tx EXCEPT ![c] = r] /\ UNCHANGED <<user, tokens, pending, sessions>>
        /\ inbox' = inbox /\ listing' = listing /\ ordered' = ordered /\ now' = now
        /\ tx[c].pc = "resetting" /\ ~TokenLocked(tx[c].token)
        /\ tokens[tx[c].token].state = "active"
        /\ tokens[tx[c].token].purpose = "password_reset"
    BY <1>1 DEF consumeReset, Continue, goods, Consumable
  <1>4. tx'[c] = r
    BY <1>1, <1>3
  <1>5. RequestOK(c)
    BY DEF AccountInv
  <1>6. RequestOK(c)'
    BY <1>2, <1>3, <1>4, <1>5 DEF RequestOK, HoldsToken
  <1>7. \A d \in Conn \ {c} :
           tx[d].pc \in {"verify", "reset"} => tx[d].token # tx[c].token
    BY <1>3, FreeToken
  <1> HIDE DEF r
  <1> QED
    BY <1>1, <1>2, <1>3, <1>6, <1>7, MoveKeeps DEF Writers, UserLockers

LEMMA PromoteLockKeeps ==
    ASSUME AccountInv, NEW c \in Conn, NEW t \in inbox, confirmEmailChange(c, t)
    PROVE  AccountInv'
  <1> DEFINE r == [Idle EXCEPT !.pc = "promote", !.token = t, !.time = now]
  <1>1. /\ t \in DOMAIN tokens /\ t \in Nat /\ tx \in [Conn -> Tx]
        /\ inbox \subseteq DOMAIN tokens /\ listing \in {"active", "archived"}
        /\ ordered \in BOOLEAN /\ now \in Nat
    BY DEF AccountInv, TypeOK
  <1>2. r \in Tx /\ r.pc = "promote" /\ r.token = t
    BY <1>1 DEF Idle, Tx
  <1>3. /\ tx' = [tx EXCEPT ![c] = r] /\ UNCHANGED <<user, tokens, pending, sessions>>
        /\ inbox' = inbox /\ listing' = listing /\ ordered' = ordered /\ now' = now
        /\ UserFree /\ ~user.deactivated
        /\ tokens[t].state = "active" /\ tokens[t].purpose = "email_change"
    BY DEF confirmEmailChange, Start, goods, Consumable
  <1>4. tx'[c] = r
    BY <1>1, <1>3
  <1>5. RequestOK(c)'
    BY <1>1, <1>2, <1>3, <1>4 DEF RequestOK, HoldsToken
  <1> HIDE DEF r
  <1> QED
    BY <1>1, <1>2, <1>3, <1>5, FreeRow, MoveKeeps

\* A request of the account that takes its row: a password change, or a
\* deactivation that found no active order.
LEMMA LockKeeps ==
    ASSUME AccountInv, NEW c \in Conn, NEW pc \in Writers \ {"promote"},
           UserFree, Continue(c, pc),
           UNCHANGED <<user, tokens, pending, sessions, inbox, goods, now>>,
           pc = "issue" => tx[c].purpose \in Mailed,
           pc # "issue" => ~user.deactivated,
           pc = "replace" => tx[c].next \in Password,
           pc = "deactivate" => ~ordered
    PROVE  AccountInv'
  <1> DEFINE r == [tx[c] EXCEPT !.pc = pc]
  <1>1. /\ tx \in [Conn -> Tx]
        /\ inbox \subseteq DOMAIN tokens /\ listing \in {"active", "archived"}
        /\ ordered \in BOOLEAN /\ now \in Nat
    BY DEF AccountInv, TypeOK
  <1>2. /\ r \in Tx /\ r.pc = pc /\ r.next = tx[c].next
        /\ r.purpose = tx[c].purpose
    BY <1>1 DEF Tx, Writers, UserLockers
  <1>3. /\ tx' = [tx EXCEPT ![c] = r]
        /\ inbox' = inbox /\ listing' = listing /\ ordered' = ordered /\ now' = now
    BY <1>1 DEF Continue, goods
  <1>4. tx'[c] = r
    BY <1>1, <1>3
  <1>5. pc \in {"issue", "replace", "deactivate"}
    BY DEF Writers, UserLockers
  <1>6. RequestOK(c)'
    BY <1>2, <1>3, <1>4, <1>5 DEF RequestOK
  <1> HIDE DEF r
  <1> QED
    BY <1>1, <1>2, <1>3, <1>5, <1>6, FreeRow, MoveKeeps

LEMMA AccountLockKeeps ==
    ASSUME AccountInv, NEW c \in Conn,
           \/ findForAccountSecurityForUpdate(c)
           \/ replaceAccountPassword(c)
           \/ hasActiveOrders(c)
    PROVE  AccountInv'
  <1>1. RequestOK(c)
    BY DEF AccountInv
  <1>2. {"issue", "replace", "deactivate"} \subseteq Writers \ {"promote"}
    BY DEF Writers, UserLockers
  <1>3. CASE findForAccountSecurityForUpdate(c)
    BY <1>1, <1>2, <1>3, LockKeeps DEF findForAccountSecurityForUpdate, RequestOK
  <1>4. CASE replaceAccountPassword(c)
    BY <1>1, <1>2, <1>4, LockKeeps
    DEF replaceAccountPassword, RequestOK, SameAccount
  <1>5. CASE hasActiveOrders(c)
    BY <1>1, <1>2, <1>5, LockKeeps DEF hasActiveOrders, SameAccount
  <1> QED
    BY <1>3, <1>4, <1>5

-----------------------------------------------------------------------------
(* Logins, and requests that end without a trace in the account *)

LEMMA LoginKeeps ==
    ASSUME AccountInv, NEW c \in Conn, findForAuthentication(c)
    PROVE  AccountInv'
  <1> DEFINE r == [Idle EXCEPT !.pc = "login", !.seen = TakeSnapshot]
  <1>1. /\ tx \in [Conn -> Tx] /\ user \in UserRow
        /\ inbox \subseteq DOMAIN tokens /\ listing \in {"active", "archived"}
        /\ ordered \in BOOLEAN /\ now \in Nat
        /\ ~user.deactivated => user.password \in Password
    BY DEF AccountInv, TypeOK
  <1>2. /\ TakeSnapshot \in Snapshot
        /\ TakeSnapshot.tokenVersion = user.tokenVersion
        /\ TakeSnapshot.password = user.password
        /\ TakeSnapshot.email = user.email
        /\ user.tokenVersion \in Nat
    BY <1>1 DEF TakeSnapshot, Snapshot, UserRow
  <1>3. r \in Tx /\ r.pc = "login" /\ r.seen = TakeSnapshot
    BY <1>2 DEF Idle, Tx
  <1>4. /\ tx' = [tx EXCEPT ![c] = r] /\ UNCHANGED <<user, tokens, pending, sessions>>
        /\ inbox' = inbox /\ listing' = listing /\ ordered' = ordered /\ now' = now
        /\ ~user.deactivated
    BY DEF findForAuthentication, Start, goods
  <1>5. tx'[c] = r
    BY <1>1, <1>4
  <1>6. RequestOK(c)'
    BY <1>1, <1>2, <1>3, <1>4, <1>5 DEF RequestOK
  <1>7. KnownAt(r.seen.tokenVersion, r.seen.password, r.seen.email)
    BY <1>2, <1>3 DEF KnownAt
  <1> HIDE DEF r
  <1> QED
    BY <1>1, <1>3, <1>4, <1>6, <1>7, MoveKeeps DEF Writers, UserLockers

LEMMA EndKeeps ==
    ASSUME AccountInv, NEW c \in Conn,
           \/ Abort(c)
           \/ dispatchAccountMessage(c)
           \/ createPlaced(c)
           \/ updateProductStatus(c)
    PROVE  AccountInv'
  <1>1. /\ inbox \subseteq DOMAIN tokens /\ listing \in {"active", "archived"}
        /\ ordered \in BOOLEAN /\ now \in Nat
    BY DEF AccountInv, TypeOK
  <1>2. CASE Abort(c)
    BY <1>1, <1>2, FinishKeeps DEF Abort, goods
  <1>3. CASE dispatchAccountMessage(c)
    <2>1. RequestOK(c)
      BY DEF AccountInv
    <2>2. tx[c].token \in DOMAIN tokens
      BY <1>3, <2>1 DEF dispatchAccountMessage, RequestOK
    <2> QED
      BY <1>1, <1>3, <2>2, FinishKeeps DEF dispatchAccountMessage, goods
  <1>4. CASE createPlaced(c)
    <2>1. \A d \in Conn : tx[d].pc # "deactivate"
      BY <1>4 DEF createPlaced, ReferableUser, UserLockers
    <2> QED
      BY <1>1, <1>4, <2>1, FinishKeeps DEF createPlaced
  <1>5. CASE updateProductStatus(c)
    BY <1>1, <1>5, FinishKeeps DEF updateProductStatus
  <1> QED
    BY <1>2, <1>3, <1>4, <1>5

LEMMA NoRequestKeeps ==
    ASSUME AccountInv, Tick \/ EndOrder \/ UNCHANGED vars
    PROVE  AccountInv'
  <1>1. /\ UNCHANGED <<user, tokens, pending, sessions, inbox, listing, tx>>
        /\ now' \in Nat /\ ordered' \in BOOLEAN /\ (ordered' => ordered)
    <2>1. now \in Nat /\ ordered \in BOOLEAN
      BY DEF AccountInv, TypeOK
    <2>2. CASE Tick
      BY <2>1, <2>2 DEF Tick, goods
    <2>3. CASE EndOrder
      BY <2>1, <2>3 DEF EndOrder
    <2>4. CASE UNCHANGED vars
      BY <2>1, <2>4 DEF vars
    <2> QED
      BY <2>2, <2>3, <2>4
  <1>2. TypeOK'
    BY <1>1 DEF AccountInv, TypeOK
  <1>3. \A c \in Conn : RequestOK(c)'
    BY <1>1 DEF AccountInv, RequestOK, HoldsToken
  <1>4. OneWriter' /\ LoginsKnow'
    BY <1>1 DEF AccountInv, OneWriter, LoginsKnow, KnownAt
  <1>5. OneActiveToken' /\ TokensFit' /\ SessionsKnow' /\ CurrentSessionsProved'
    BY <1>1 DEF AccountInv, OneActiveToken, TokensFit, SessionsKnow, KnownAt,
                CurrentSessionsProved, Active
  <1>6. /\ user'.deactivated => pending' = NoPending
        /\ ~user'.deactivated => user'.password \in Password
    BY <1>1 DEF AccountInv
  <1> QED
    BY <1>2, <1>3, <1>4, <1>5, <1>6 DEF AccountInv

\* A session carries what its login knew at the version it read.
LEMMA SessionKeeps ==
    ASSUME AccountInv, NEW c \in Conn, createSession(c)
    PROVE  AccountInv'
  <1> DEFINE s == [version |-> tx[c].seen.tokenVersion,
                   password |-> tx[c].seen.password, email |-> tx[c].seen.email]
  <1>1. /\ tx \in [Conn -> Tx] /\ tx' = [tx EXCEPT ![c] = Idle]
        /\ UNCHANGED <<user, tokens, pending, inbox, listing, ordered, now>>
        /\ sessions' = sessions \cup {s} /\ tx[c].pc = "login"
    BY DEF AccountInv, TypeOK, createSession, Finish, goods
  <1>2. tx'[c] = Idle /\ \A d \in Conn \ {c} : tx'[d] = tx[d]
    BY <1>1
  <1>3. /\ tx[c].seen \in Snapshot /\ tx[c].seen.password \in Password
        /\ KnownAt(tx[c].seen.tokenVersion, tx[c].seen.password, tx[c].seen.email)
    BY <1>1 DEF AccountInv, RequestOK, LoginsKnow
  <1>4. s \in SessionRow /\ KnownAt(s.version, s.password, s.email)
    BY <1>3 DEF SessionRow, Snapshot
  <1>5. TypeOK'
    BY <1>1, <1>4, IdleType DEF AccountInv, TypeOK
  <1>6. OneWriter'
    BY <1>2, IdleType DEF AccountInv, OneWriter, Writers, UserLockers
  <1>7. \A d \in Conn : RequestOK(d)'
    BY <1>1, <1>2, IdleType DEF AccountInv, RequestOK, HoldsToken
  <1>8. LoginsKnow'
    BY <1>1, <1>2, IdleType DEF AccountInv, LoginsKnow, KnownAt
  <1>9. SessionsKnow' /\ CurrentSessionsProved'
    BY <1>1, <1>4 DEF AccountInv, SessionsKnow, CurrentSessionsProved, KnownAt
  <1>10. OneActiveToken' /\ TokensFit'
    BY <1>1 DEF AccountInv, OneActiveToken, TokensFit, Active
  <1>11. /\ user'.deactivated => pending' = NoPending
         /\ ~user'.deactivated => user'.password \in Password
    BY <1>1 DEF AccountInv
  <1> QED
    BY <1>5, <1>6, <1>7, <1>8, <1>9, <1>10, <1>11 DEF AccountInv

-----------------------------------------------------------------------------
(* Steps that write the account or its tokens *)

LEMMA AppendProperties ==
    ASSUME NEW S, NEW s \in Seq(S), NEW e \in S
    PROVE  /\ Append(s, e) \in Seq(S)
           /\ DOMAIN Append(s, e) = DOMAIN s \cup {Len(s) + 1}
           /\ \A i \in DOMAIN s : Append(s, e)[i] = s[i]
           /\ Append(s, e)[Len(s) + 1] = e
           /\ Len(s) + 1 \notin DOMAIN s /\ Len(s) \in Nat
  OBVIOUS

LEMMA ElementType ==
    ASSUME NEW S, NEW s \in Seq(S), NEW i \in DOMAIN s PROVE s[i] \in S
  OBVIOUS

LEMMA ReplacedElement ==
    ASSUME NEW S, NEW s \in Seq(S), NEW i \in DOMAIN s, NEW e \in S, NEW r,
           r = [s EXCEPT ![i] = e]
    PROVE  r \in Seq(S) /\ DOMAIN r = DOMAIN s
  OBVIOUS

\* Invalidation touches the active tokens of its purposes and no other.
LEMMA Invalidated ==
    ASSUME tokens \in Seq(Token), NEW P
    PROVE  LET N == invalidateActive(P)
           IN  /\ N \in Seq(Token) /\ DOMAIN N = DOMAIN tokens
               /\ Len(N) = Len(tokens)
               /\ \A t \in DOMAIN tokens :
                     /\ N[t].purpose = tokens[t].purpose
                     /\ N[t].address = tokens[t].address
                     /\ N[t].state = "active" <=>
                           tokens[t].state = "active" /\ tokens[t].purpose \notin P
                     /\ N[t].state = "consumed" <=> tokens[t].state = "consumed"
                     /\ tokens[t].purpose \notin P => N[t] = tokens[t]
  <1> DEFINE N == invalidateActive(P)
  <1>1. \A t \in DOMAIN tokens : tokens[t] \in Token
    BY ElementType
  <1>2. DOMAIN N = DOMAIN tokens
    BY DEF invalidateActive
  <1>3. ASSUME NEW t \in DOMAIN tokens
        PROVE  N[t] = IF t \in Active(P)
                      THEN [tokens[t] EXCEPT !.state = "invalidated"]
                      ELSE tokens[t]
    BY <1>3 DEF invalidateActive
  <1>4. ASSUME NEW t \in DOMAIN tokens
        PROVE  /\ N[t] \in Token
               /\ N[t].purpose = tokens[t].purpose
               /\ N[t].address = tokens[t].address
               /\ N[t].state = "active" <=>
                     tokens[t].state = "active" /\ tokens[t].purpose \notin P
               /\ N[t].state = "consumed" <=> tokens[t].state = "consumed"
               /\ tokens[t].purpose \notin P => N[t] = tokens[t]
    BY <1>1, <1>3, <1>4 DEF Active, Token
  <1>5. N = [t \in 1..Len(tokens) |-> N[t]] /\ Len(tokens) \in Nat
    <2>1. DOMAIN tokens = 1..Len(tokens) /\ Len(tokens) \in Nat
      OBVIOUS
    <2>2. N = [t \in DOMAIN tokens |-> N[t]]
      BY DEF invalidateActive
    <2> QED
      BY <2>1, <2>2
  <1>6. N \in Seq(Token) /\ Len(N) = Len(tokens)
    <2> DEFINE f == [t \in 1..Len(tokens) |-> N[t]]
    <2>1. DOMAIN tokens = 1..Len(tokens) /\ Len(tokens) \in Nat
      OBVIOUS
    <2>2. \A t \in 1..Len(tokens) : N[t] \in Token
      BY <1>4, <2>1
    <2> HIDE DEF N
    <2>3. f \in Seq(Token) /\ Len(f) = Len(tokens)
      BY <2>1, <2>2
    <2> QED
      BY <1>5, <2>3
  <1> QED
    BY <1>2, <1>4, <1>6

\* A commit keeps the invariant if it moves the version with the account,
\* leaves the tokens that other requests have consumed, reactivates none, and
\* an end of the account meets no other writer.
LEMMA CommitKeeps ==
    ASSUME AccountInv, NEW c \in Conn, NEW r \in Tx,
           tx' = [tx EXCEPT ![c] = r], r.pc \in {"idle", "send"},
           r.pc = "send" => r.token \in DOMAIN tokens',
           user' \in UserRow, tokens' \in Seq(Token), pending' \in PendingRow,
           UNCHANGED <<inbox, ordered, now>>, listing' \in {"active", "archived"},
           DOMAIN tokens \subseteq DOMAIN tokens',
           \A t \in DOMAIN tokens :
              /\ tokens'[t].purpose = tokens[t].purpose
              /\ tokens[t].state # "active" => tokens'[t].state # "active",
           \A d \in Conn \ {c} : tx[d].pc \in {"verify", "reset", "promote"} =>
              tokens'[tx[d].token].state = "active",
           \/ /\ user'.tokenVersion = user.tokenVersion
              /\ user'.email = user.email /\ user'.password = user.password
              /\ user'.deactivated = user.deactivated /\ sessions' = sessions
           \/ user'.tokenVersion = user.tokenVersion + 1 /\ sessions' = {},
           user.deactivated => user'.deactivated,
           user'.deactivated =>
              \/ user.deactivated
              \/ \A d \in Conn \ {c} :
                    /\ tx[d].pc \notin {"reset", "promote", "replace", "deactivate"}
                    /\ tx[d].pc = "resetting" =>
                          tokens'[tx[d].token].state # "active",
           user'.deactivated => pending' = NoPending,
           ~user'.deactivated => user'.password \in Password,
           OneActiveToken', TokensFit'
    PROVE  AccountInv'
  <1>1. tx \in [Conn -> Tx] /\ user \in UserRow /\ sessions \subseteq SessionRow
    BY DEF AccountInv, TypeOK
  <1>2. tx'[c] = r /\ \A d \in Conn \ {c} : tx'[d] = tx[d]
    BY <1>1
  <1>3. TypeOK'
    <2>1. sessions' \subseteq SessionRow
      BY <1>1
    <2>2. inbox' \subseteq DOMAIN tokens'
      BY DEF AccountInv, TypeOK
    <2> QED
      BY <1>1, <2>1, <2>2 DEF AccountInv, TypeOK
  <1>4. OneWriter'
    BY <1>2 DEF AccountInv, OneWriter, Writers, UserLockers
  <1>5. RequestOK(c)'
    BY <1>2 DEF RequestOK
  <1>6. ASSUME NEW d \in Conn \ {c} PROVE RequestOK(d)'
    <2>1. RequestOK(d) /\ tx'[d] = tx[d]
      BY <1>2 DEF AccountInv
    <2>2. user'.deactivated =>
             /\ tx[d].pc \notin {"reset", "promote", "replace", "deactivate"}
             /\ tx[d].pc = "resetting" => tokens'[tx[d].token].state # "active"
      BY <2>1 DEF RequestOK
    <2>3. \A purpose : HoldsToken(d, purpose) /\ tx[d].pc \in {"verify", "reset", "promote"}
                         => HoldsToken(d, purpose)'
      BY <2>1 DEF HoldsToken
    <2> QED
      BY <2>1, <2>2, <2>3 DEF RequestOK
  <1>7. \A version \in Nat : \A password, email :
           KnownAt(version, password, email) => KnownAt(version, password, email)'
    BY <1>1 DEF KnownAt, UserRow
  <1>8. LoginsKnow'
    <2>1. ASSUME NEW d \in Conn, tx'[d].pc = "login"
          PROVE  /\ d # c /\ tx[d].pc = "login" /\ tx'[d].seen = tx[d].seen
                 /\ tx[d].seen.tokenVersion \in Nat
                 /\ KnownAt(tx[d].seen.tokenVersion, tx[d].seen.password,
                            tx[d].seen.email)
      <3>1. d # c /\ tx'[d] = tx[d]
        BY <1>2, <2>1
      <3>2. tx[d].seen \in Snapshot
        BY <2>1, <3>1 DEF AccountInv, RequestOK
      <3> QED
        BY <2>1, <3>1, <3>2 DEF AccountInv, LoginsKnow, Snapshot
    <2> QED
      BY <1>7, <2>1 DEF LoginsKnow
  <1>9. SessionsKnow'
    BY <1>1, <1>7 DEF AccountInv, SessionsKnow, SessionRow
  <1>10. CurrentSessionsProved'
    BY <1>9 DEF SessionsKnow, KnownAt, CurrentSessionsProved
  <1> QED
    BY <1>3, <1>4, <1>5, <1>6, <1>8, <1>9, <1>10 DEF AccountInv

\* What a new token of a purpose leaves of the others.
LEMMA TokenAdded ==
    ASSUME AccountInv, NEW p \in AccountTokenPurpose, NEW token \in Token,
           token.purpose = p, token.state = "active",
           tokens' = Append(invalidateActive({p}), token)
    PROVE  /\ tokens' \in Seq(Token)
           /\ DOMAIN tokens' = DOMAIN tokens \cup {Len(tokens) + 1}
           /\ tokens'[Len(tokens) + 1] = token /\ Len(tokens) + 1 \in Nat
           /\ \A t \in DOMAIN tokens :
                 /\ tokens'[t].purpose = tokens[t].purpose
                 /\ tokens'[t].address = tokens[t].address
                 /\ tokens'[t].state = "active" <=>
                       tokens[t].state = "active" /\ tokens[t].purpose # p
                 /\ tokens'[t].state = "consumed" <=> tokens[t].state = "consumed"
           /\ OneActiveToken'
  <1> DEFINE N == invalidateActive({p})
  <1>1. tokens \in Seq(Token)
    BY DEF AccountInv, TypeOK
  <1>2. /\ N \in Seq(Token) /\ DOMAIN N = DOMAIN tokens /\ Len(N) = Len(tokens)
        /\ \A t \in DOMAIN tokens :
              /\ N[t].purpose = tokens[t].purpose
              /\ N[t].address = tokens[t].address
              /\ N[t].state = "active" <=>
                    tokens[t].state = "active" /\ tokens[t].purpose # p
              /\ N[t].state = "consumed" <=> tokens[t].state = "consumed"
    BY <1>1, Invalidated
  <1> HIDE DEF N
  <1>3. /\ Append(N, token) \in Seq(Token)
        /\ DOMAIN Append(N, token) = DOMAIN N \cup {Len(N) + 1}
        /\ \A i \in DOMAIN N : Append(N, token)[i] = N[i]
        /\ Append(N, token)[Len(N) + 1] = token
        /\ Len(N) + 1 \notin DOMAIN N /\ Len(N) \in Nat
    BY <1>2, AppendProperties
  <1>4. tokens' = Append(N, token)
    BY DEF N
  <1>5. ASSUME NEW purpose \in AccountTokenPurpose,
               NEW t \in Active({purpose})', NEW u \in Active({purpose})'
        PROVE  t = u
    <2>1. ASSUME NEW i \in DOMAIN tokens, i \in Active({purpose})'
          PROVE  i \in Active({purpose}) /\ purpose # p
      <3>1. tokens'[i] = N[i] /\ tokens'[i].state = "active" /\ N[i].purpose = purpose
        BY <1>2, <1>3, <1>4, <2>1 DEF Active
      <3>2. tokens[i].state = "active" /\ tokens[i].purpose = purpose /\ purpose # p
        BY <1>2, <3>1
      <3> QED
        BY <3>2 DEF Active
    <2>2. Len(tokens) + 1 \in Active({purpose})' => purpose = p
      BY <1>2, <1>3, <1>4 DEF Active
    <2>3. {t, u} \subseteq DOMAIN tokens \cup {Len(tokens) + 1}
      BY <1>2, <1>3, <1>4 DEF Active
    <2> QED
      BY <1>5, <2>1, <2>2, <2>3 DEF AccountInv, OneActiveToken
  <1>6. OneActiveToken'
    BY <1>5 DEF OneActiveToken
  <1>7. /\ tokens' \in Seq(Token)
        /\ DOMAIN tokens' = DOMAIN tokens \cup {Len(tokens) + 1}
        /\ tokens'[Len(tokens) + 1] = token /\ Len(tokens) + 1 \in Nat
    <2>1. Len(N) = Len(tokens) /\ DOMAIN N = DOMAIN tokens
      BY <1>2
    <2>2. Len(tokens) + 1 \in Nat
      BY <1>3, <2>1
    <2>3. tokens' \in Seq(Token) /\ tokens'[Len(tokens) + 1] = token
      BY <1>3, <1>4, <2>1
    <2>4. DOMAIN tokens' = DOMAIN tokens \cup {Len(tokens) + 1}
      BY <1>3, <1>4, <2>1
    <2> QED
      BY <2>2, <2>3, <2>4
  <1>8. ASSUME NEW t \in DOMAIN tokens
        PROVE  /\ tokens'[t].purpose = tokens[t].purpose
               /\ tokens'[t].address = tokens[t].address
               /\ tokens'[t].state = "active" <=>
                     tokens[t].state = "active" /\ tokens[t].purpose # p
               /\ tokens'[t].state = "consumed" <=> tokens[t].state = "consumed"
    <2>1. tokens'[t] = N[t]
      BY <1>2, <1>3, <1>4
    <2> QED
      BY <1>2, <2>1
  <1> QED
    BY <1>6, <1>7, <1>8

\* A token somebody has consumed is not invalidated by who waits for it.
LEMMA HeldTokens ==
    ASSUME AccountInv, NEW d \in Conn, tx[d].pc \in {"verify", "reset", "promote"}
    PROVE  /\ tx[d].token \in DOMAIN tokens
           /\ tokens[tx[d].token].state = "active"
           /\ tx[d].pc = "verify" => tokens[tx[d].token].purpose = "email_verification"
           /\ tx[d].pc = "reset" => tokens[tx[d].token].purpose = "password_reset"
           /\ tx[d].pc = "promote" => tokens[tx[d].token].purpose = "email_change"
           /\ \A P, time : CanInvalidate(P, time) /\ tx[d].pc # "promote" =>
                 tokens[tx[d].token].purpose \notin P
  <1>1. RequestOK(d)
    BY DEF AccountInv
  <1>2. /\ tx[d].token \in DOMAIN tokens
        /\ tokens[tx[d].token].state = "active"
        /\ tx[d].pc = "verify" => tokens[tx[d].token].purpose = "email_verification"
        /\ tx[d].pc = "reset" => tokens[tx[d].token].purpose = "password_reset"
        /\ tx[d].pc = "promote" => tokens[tx[d].token].purpose = "email_change"
    BY <1>1 DEF RequestOK, HoldsToken
  <1>3. ASSUME NEW P, NEW time, CanInvalidate(P, time), tx[d].pc # "promote"
        PROVE  tokens[tx[d].token].purpose \notin P
    BY <1>2, <1>3 DEF CanInvalidate, Active, TokenLocked
  <1> QED
    BY <1>2, <1>3

LEMMA IssueKeeps ==
    ASSUME AccountInv, NEW c \in Conn, IssueToken(c)
    PROVE  AccountInv'
  <1> DEFINE p == tx[c].purpose
             token == create(p, tx[c].time, user.email)
             r == [Idle EXCEPT !.pc = "send", !.token = Len(tokens) + 1]
  <1>1. /\ user \in UserRow /\ tx \in [Conn -> Tx] /\ pending \in PendingRow
        /\ listing \in {"active", "archived"} /\ tokens \in Seq(Token)
    BY DEF AccountInv, TypeOK
  <1>2. /\ tx[c].pc = "issue" /\ CanInvalidate({p}, tx[c].time)
        /\ tokens' = Append(invalidateActive({p}), token)
        /\ tx' = [tx EXCEPT ![c] = r]
        /\ UNCHANGED <<user, pending, sessions, inbox, listing, ordered, now>>
    BY DEF IssueToken, goods
  <1>3. p \in Mailed /\ p \in AccountTokenPurpose
    BY <1>2 DEF AccountInv, RequestOK, AccountTokenPurpose
  <1>4. /\ token \in Token /\ token.purpose = p /\ token.state = "active"
        /\ token.address = user.email
    BY <1>1, <1>3 DEF create, Token, UserRow, Tx
  <1> HIDE DEF token
  <1>5. /\ tokens' \in Seq(Token) /\ OneActiveToken'
        /\ DOMAIN tokens' = DOMAIN tokens \cup {Len(tokens) + 1}
        /\ tokens'[Len(tokens) + 1] = token /\ Len(tokens) + 1 \in Nat
        /\ \A t \in DOMAIN tokens :
              /\ tokens'[t].purpose = tokens[t].purpose
              /\ tokens'[t].address = tokens[t].address
              /\ tokens'[t].state = "active" <=>
                    tokens[t].state = "active" /\ tokens[t].purpose # p
    BY <1>2, <1>3, <1>4, TokenAdded
  <1>6. r \in Tx /\ r.pc = "send" /\ r.token = Len(tokens) + 1
    BY <1>5 DEF Idle, Tx
  <1>7. ASSUME NEW d \in Conn \ {c}, tx[d].pc \in {"verify", "reset", "promote"}
        PROVE  tokens'[tx[d].token].state = "active"
    <2>1. tx[d].pc # "promote"
      BY <1>2 DEF AccountInv, OneWriter, Writers, UserLockers
    <2> QED
      BY <1>2, <1>5, <1>7, <2>1, HeldTokens
  <1>8. TokensFit'
    <2>1. \A t \in Active(Mailed)' : tokens'[t].address = user'.email
      BY <1>2, <1>4, <1>5 DEF Active, AccountInv, TokensFit
    <2>2. \A t \in Active({"email_change"})' : tokens'[t].address = pending'.email
      BY <1>2, <1>3, <1>4, <1>5 DEF Active, AccountInv, TokensFit, Mailed
    <2> QED
      BY <2>1, <2>2 DEF TokensFit
  <1>9. /\ user'.deactivated => user.deactivated /\ pending' = NoPending
        /\ ~user'.deactivated => user'.password \in Password
    BY <1>2 DEF AccountInv
  <1> HIDE DEF r
  <1> QED
    BY <1>1, <1>2, <1>5, <1>6, <1>7, <1>8, <1>9, CommitKeeps

\* The new address waits with the token that was sent to it.
LEMMA SaveChangeKeeps ==
    ASSUME AccountInv, NEW c \in Conn, savePendingEmailChange(c)
    PROVE  AccountInv'
  <1> DEFINE p == "email_change"
             token == create(p, tx[c].time, tx[c].next)
             r == [Idle EXCEPT !.pc = "send", !.token = Len(tokens) + 1]
  <1>1. /\ user \in UserRow /\ tx \in [Conn -> Tx] /\ tokens \in Seq(Token)
        /\ listing \in {"active", "archived"} /\ RequestOK(c)
    BY DEF AccountInv, TypeOK
  <1>2. /\ tx[c].pc = "change" /\ UserFree /\ ~user.deactivated
        /\ CanInvalidate({p}, tx[c].time)
        /\ tokens' = Append(invalidateActive({p}), token)
        /\ tx' = [tx EXCEPT ![c] = r]
        /\ pending' = [email |-> tx[c].next, emailVersion |-> user.emailVersion,
                       expiresAt |-> tx[c].time + TokenTtl]
        /\ UNCHANGED <<user, sessions, inbox, listing, ordered, now>>
    BY DEF savePendingEmailChange, SameAccount, goods
  <1>3. tx[c].next \in Email /\ p \in AccountTokenPurpose /\ p \notin Mailed
    BY <1>1, <1>2 DEF RequestOK, AccountTokenPurpose, Mailed
  <1>4. /\ token \in Token /\ token.purpose = p /\ token.state = "active"
        /\ token.address = tx[c].next
    BY <1>1, <1>3 DEF create, Token, UserRow, Tx
  <1>5. pending' \in PendingRow /\ pending'.email = tx[c].next
    <2>1. tx[c].time \in Nat /\ user.emailVersion \in Nat
      BY <1>1 DEF UserRow, Tx
    <2>2. tx[c].time + TokenTtl \in Nat
      BY <2>1, ClockAssumption
    <2> QED
      BY <1>2, <1>3, <2>1, <2>2 DEF PendingRow
  <1> HIDE DEF token
  <1>6. /\ tokens' \in Seq(Token) /\ OneActiveToken'
        /\ DOMAIN tokens' = DOMAIN tokens \cup {Len(tokens) + 1}
        /\ tokens'[Len(tokens) + 1] = token /\ Len(tokens) + 1 \in Nat
        /\ \A t \in DOMAIN tokens :
              /\ tokens'[t].purpose = tokens[t].purpose
              /\ tokens'[t].address = tokens[t].address
              /\ tokens'[t].state = "active" <=>
                    tokens[t].state = "active" /\ tokens[t].purpose # p
    BY <1>2, <1>3, <1>4, TokenAdded
  <1>7. r \in Tx /\ r.pc = "send" /\ r.token = Len(tokens) + 1
    BY <1>6 DEF Idle, Tx
  <1>8. ASSUME NEW d \in Conn \ {c}, tx[d].pc \in {"verify", "reset", "promote"}
        PROVE  tokens'[tx[d].token].state = "active"
    <2>1. tx[d].pc # "promote"
      BY <1>2, FreeRow DEF Writers, UserLockers
    <2> QED
      BY <1>2, <1>6, <1>8, <2>1, HeldTokens
  <1>9. TokensFit'
    <2>1. \A t \in Active(Mailed)' : tokens'[t].address = user'.email
      BY <1>2, <1>3, <1>4, <1>6 DEF Active, AccountInv, TokensFit
    <2>2. \A t \in Active({"email_change"})' : tokens'[t].address = pending'.email
      BY <1>4, <1>5, <1>6 DEF Active
    <2> QED
      BY <2>1, <2>2 DEF TokensFit
  <1>10. ~user'.deactivated /\ user'.password \in Password
    BY <1>2 DEF AccountInv
  <1> HIDE DEF r
  <1> QED
    BY <1>1, <1>2, <1>5, <1>6, <1>7, <1>8, <1>9, <1>10, CommitKeeps

\* The UPDATE that consumes a token, after others were invalidated.
LEMMA Retired ==
    ASSUME tokens \in Seq(Token), NEW P, NEW t \in DOMAIN tokens,
           tokens' = [invalidateActive(P) EXCEPT ![t].state = "consumed"]
    PROVE  /\ tokens' \in Seq(Token) /\ DOMAIN tokens' = DOMAIN tokens
           /\ \A u \in DOMAIN tokens :
                 /\ tokens'[u].purpose = tokens[u].purpose
                 /\ tokens'[u].address = tokens[u].address
                 /\ tokens'[u].state = "active" <=>
                       /\ tokens[u].state = "active"
                       /\ tokens[u].purpose \notin P /\ u # t
                 /\ tokens'[u].state = "consumed" <=>
                       tokens[u].state = "consumed" \/ u = t
  <1> DEFINE N == invalidateActive(P)
             row == [N[t] EXCEPT !.state = "consumed"]
  <1>1. /\ N \in Seq(Token) /\ DOMAIN N = DOMAIN tokens
        /\ \A u \in DOMAIN tokens :
              /\ N[u].purpose = tokens[u].purpose
              /\ N[u].address = tokens[u].address
              /\ N[u].state = "active" <=>
                    tokens[u].state = "active" /\ tokens[u].purpose \notin P
              /\ N[u].state = "consumed" <=> tokens[u].state = "consumed"
    BY Invalidated
  <1>2. tokens' = [N EXCEPT ![t] = row]
    OBVIOUS
  <1> HIDE DEF N
  <1>3. \A u \in DOMAIN N : N[u] \in Token
    BY <1>1, ElementType
  <1>4. /\ row \in Token /\ row.purpose = N[t].purpose
        /\ row.address = N[t].address /\ row.state = "consumed"
    BY <1>1, <1>3 DEF Token
  <1> HIDE DEF row
  <1>5. tokens' \in Seq(Token) /\ DOMAIN tokens' = DOMAIN N
    <2>1. N \in Seq(Token) /\ t \in DOMAIN N /\ row \in Token
      BY <1>1, <1>4
    <2> QED
      BY <1>2, <2>1, ReplacedElement
  <1>6. \A u \in DOMAIN N : tokens'[u] = IF u = t THEN row ELSE N[u]
    BY <1>2
  <1> QED
    BY <1>1, <1>4, <1>5, <1>6, ZenonT(40)

\* Tokens that lose their state and none that gains it.
LEMMA FewerActive ==
    ASSUME DOMAIN tokens' = DOMAIN tokens,
           \A u \in DOMAIN tokens :
              /\ tokens'[u].purpose = tokens[u].purpose
              /\ tokens'[u].address = tokens[u].address
              /\ tokens'[u].state = "active" => tokens[u].state = "active"
    PROVE  /\ \A P : Active(P)' \subseteq Active(P)
           /\ OneActiveToken => OneActiveToken'
           /\ TokensFit /\ user'.email = user.email /\ pending'.email = pending.email
                 => TokensFit'
  <1>1. \A P : Active(P)' \subseteq Active(P)
    BY DEF Active
  <1>2. OneActiveToken => OneActiveToken'
    BY <1>1 DEF OneActiveToken
  <1>3. \A P : \A u \in Active(P) : u \in DOMAIN tokens
    BY DEF Active
  <1>4. TokensFit /\ user'.email = user.email /\ pending'.email = pending.email
           => TokensFit'
    BY <1>1, <1>3 DEF TokensFit
  <1> QED
    BY <1>1, <1>2, <1>4

LEMMA MarkKeeps ==
    ASSUME AccountInv, NEW c \in Conn, markEmailVerified(c)
    PROVE  AccountInv'
  <1> DEFINE t == tx[c].token
  <1>1. /\ user \in UserRow /\ tx \in [Conn -> Tx] /\ tokens \in Seq(Token)
        /\ pending \in PendingRow /\ listing \in {"active", "archived"}
    BY DEF AccountInv, TypeOK
  <1>2. /\ tx[c].pc = "verify" /\ UserFree
        /\ user' = [user EXCEPT !.verified = TRUE]
        /\ tokens' = [tokens EXCEPT ![t].state = "consumed"]
        /\ tx' = [tx EXCEPT ![c] = Idle]
        /\ UNCHANGED <<pending, sessions, inbox, listing, ordered, now>>
    BY DEF markEmailVerified, Finish, goods
  <1>3. t \in DOMAIN tokens
    BY <1>2, HeldTokens
  <1>4. invalidateActive({}) = tokens
    <2>1. invalidateActive({}) = [u \in DOMAIN tokens |-> tokens[u]]
      BY DEF invalidateActive, Active
    <2>2. tokens = [u \in DOMAIN tokens |-> tokens[u]]
      BY <1>1
    <2> QED
      BY <2>1, <2>2
  <1>5. /\ tokens' \in Seq(Token) /\ DOMAIN tokens' = DOMAIN tokens
        /\ \A u \in DOMAIN tokens :
              /\ tokens'[u].purpose = tokens[u].purpose
              /\ tokens'[u].address = tokens[u].address
              /\ tokens'[u].state = "active" <=>
                    tokens[u].state = "active" /\ u # t
    BY <1>1, <1>2, <1>3, <1>4, Retired
  <1>6. /\ user' \in UserRow /\ user'.email = user.email
        /\ user'.tokenVersion = user.tokenVersion /\ user'.password = user.password
        /\ user'.deactivated = user.deactivated
    BY <1>1, <1>2 DEF UserRow
  <1>7. OneActiveToken' /\ TokensFit'
    BY <1>2, <1>5, <1>6, FewerActive DEF AccountInv
  <1>8. ASSUME NEW d \in Conn \ {c}, tx[d].pc \in {"verify", "reset", "promote"}
        PROVE  tokens'[tx[d].token].state = "active"
    <2>1. tx[d].pc # "promote"
      BY <1>2, FreeRow DEF Writers, UserLockers
    <2>2. tx[d].token # t
      BY <1>2, <1>8, <2>1 DEF AccountInv, OneWriter
    <2> QED
      BY <1>5, <1>8, <2>2, HeldTokens
  <1>9. /\ user'.deactivated => pending' = NoPending
        /\ ~user'.deactivated => user'.password \in Password
    BY <1>2, <1>6 DEF AccountInv
  <1> QED
    BY <1>1, <1>2, <1>5, <1>6, <1>7, <1>8, <1>9, IdleType, CommitKeeps, ZenonT(40)

\* A reset finds nobody else at the row, and no second reset token in use.
LEMMA ResetKeeps ==
    ASSUME AccountInv, NEW c \in Conn, replacePasswordAndIncrementTokenVersion(c)
    PROVE  AccountInv'
  <1> DEFINE t == tx[c].token
  <1>1. /\ user \in UserRow /\ tx \in [Conn -> Tx] /\ tokens \in Seq(Token)
        /\ pending \in PendingRow /\ listing \in {"active", "archived"}
        /\ RequestOK(c)
    BY DEF AccountInv, TypeOK
  <1>2. /\ tx[c].pc = "reset" /\ UserFree
        /\ user' = [user EXCEPT !.password = tx[c].next, !.tokenVersion = @ + 1]
        /\ tokens' = [invalidateActive({"password_reset"})
                        EXCEPT ![t].state = "consumed"]
        /\ sessions' = {} /\ tx' = [tx EXCEPT ![c] = Idle]
        /\ UNCHANGED <<pending, inbox, listing, ordered, now>>
    BY DEF replacePasswordAndIncrementTokenVersion, Finish, goods
  <1>3. /\ t \in DOMAIN tokens /\ tokens[t].state = "active"
        /\ tokens[t].purpose = "password_reset"
    BY <1>2, HeldTokens
  <1>4. /\ tokens' \in Seq(Token) /\ DOMAIN tokens' = DOMAIN tokens
        /\ \A u \in DOMAIN tokens :
              /\ tokens'[u].purpose = tokens[u].purpose
              /\ tokens'[u].address = tokens[u].address
              /\ tokens'[u].state = "active" <=>
                    /\ tokens[u].state = "active"
                    /\ tokens[u].purpose # "password_reset" /\ u # t
    <2> DEFINE P == {"password_reset"}
    <2>1. tokens' = [invalidateActive(P) EXCEPT ![t].state = "consumed"]
      BY <1>2
    <2>2. \A u \in DOMAIN tokens : tokens[u].purpose \notin P <=>
                                     tokens[u].purpose # "password_reset"
      OBVIOUS
    <2> HIDE DEF P
    <2> QED
      BY <1>1, <1>3, <2>1, <2>2, Retired, ZenonT(40)
  <1>5. tx[c].next \in Password /\ ~user.deactivated
    BY <1>1, <1>2 DEF RequestOK
  <1>6. /\ user' \in UserRow /\ user'.email = user.email
        /\ user'.tokenVersion = user.tokenVersion + 1
        /\ user'.password \in Password /\ ~user'.deactivated
    <2>1. tx[c].next \in Password \cup {None} /\ user.tokenVersion + 1 \in Nat
      BY <1>1, <1>5 DEF UserRow
    <2>2. /\ user'.email = user.email /\ user'.password = tx[c].next
          /\ user'.tokenVersion = user.tokenVersion + 1
          /\ user'.deactivated = user.deactivated
      BY <1>1, <1>2 DEF UserRow
    <2>3. user' \in UserRow
      BY <1>1, <1>2, <2>1 DEF UserRow
    <2> QED
      BY <1>5, <2>2, <2>3
  <1>7. OneActiveToken' /\ TokensFit'
    BY <1>2, <1>4, <1>6, FewerActive DEF AccountInv
  <1>8. ASSUME NEW d \in Conn \ {c}, tx[d].pc \in {"verify", "reset", "promote"}
        PROVE  tokens'[tx[d].token].state = "active"
    <2>1. tx[d].pc # "promote"
      BY <1>2, FreeRow DEF Writers, UserLockers
    <2>2. tx[d].token # t
      BY <1>2, <1>8, <2>1 DEF AccountInv, OneWriter
    <2>3. /\ tx[d].token \in DOMAIN tokens /\ tokens[tx[d].token].state = "active"
          /\ tx[d].pc = "reset" => tokens[tx[d].token].purpose = "password_reset"
          /\ tx[d].pc = "verify" =>
                tokens[tx[d].token].purpose = "email_verification"
      BY <1>8, HeldTokens
    <2>4. tx[d].pc # "reset"
      BY <1>3, <2>2, <2>3
      DEF AccountInv, OneActiveToken, Active, AccountTokenPurpose, Mailed
    <2> QED
      BY <1>4, <1>8, <2>1, <2>2, <2>3, <2>4
  <1> QED
    BY <1>1, <1>2, <1>4, <1>5, <1>6, <1>7, <1>8, IdleType, CommitKeeps

\* A password change waits for a reset that has consumed its token.
LEMMA PasswordKeeps ==
    ASSUME AccountInv, NEW c \in Conn, CommitPassword(c)
    PROVE  AccountInv'
  <1> DEFINE P == {"password_reset"}
  <1>1. /\ user \in UserRow /\ tx \in [Conn -> Tx] /\ tokens \in Seq(Token)
        /\ pending \in PendingRow /\ listing \in {"active", "archived"}
        /\ RequestOK(c)
    BY DEF AccountInv, TypeOK
  <1>2. /\ tx[c].pc = "replace" /\ CanInvalidate(P, tx[c].time)
        /\ user' = [user EXCEPT !.password = tx[c].next, !.tokenVersion = @ + 1]
        /\ tokens' = invalidateActive(P)
        /\ sessions' = {} /\ tx' = [tx EXCEPT ![c] = Idle]
        /\ UNCHANGED <<pending, inbox, listing, ordered, now>>
    BY DEF CommitPassword, Finish, goods
  <1>3. /\ tokens' \in Seq(Token) /\ DOMAIN tokens' = DOMAIN tokens
        /\ \A u \in DOMAIN tokens :
              /\ tokens'[u].purpose = tokens[u].purpose
              /\ tokens'[u].address = tokens[u].address
              /\ tokens'[u].state = "active" <=>
                    tokens[u].state = "active" /\ tokens[u].purpose \notin P
    <2> HIDE DEF P
    <2> QED
      BY <1>1, <1>2, Invalidated
  <1>4. tx[c].next \in Password /\ ~user.deactivated
    BY <1>1, <1>2 DEF RequestOK
  <1>5. /\ user' \in UserRow /\ user'.email = user.email
        /\ user'.tokenVersion = user.tokenVersion + 1
        /\ user'.password \in Password /\ ~user'.deactivated
    <2>1. tx[c].next \in Password \cup {None} /\ user.tokenVersion + 1 \in Nat
      BY <1>1, <1>4 DEF UserRow
    <2>2. /\ user'.email = user.email /\ user'.password = tx[c].next
          /\ user'.tokenVersion = user.tokenVersion + 1
          /\ user'.deactivated = user.deactivated
      BY <1>1, <1>2 DEF UserRow
    <2>3. user' \in UserRow
      BY <1>1, <1>2, <2>1 DEF UserRow
    <2> QED
      BY <1>4, <2>2, <2>3
  <1>6. OneActiveToken' /\ TokensFit'
    BY <1>2, <1>3, <1>5, FewerActive DEF AccountInv
  <1>7. ASSUME NEW d \in Conn \ {c}, tx[d].pc \in {"verify", "reset", "promote"}
        PROVE  tokens'[tx[d].token].state = "active"
    <2>1. tx[d].pc # "promote"
      BY <1>2 DEF AccountInv, OneWriter, Writers, UserLockers
    <2> HIDE DEF P
    <2>2. /\ tx[d].token \in DOMAIN tokens /\ tokens[tx[d].token].state = "active"
          /\ tokens[tx[d].token].purpose \notin P
      BY <1>2, <1>7, <2>1, HeldTokens
    <2> QED
      BY <1>3, <2>2
  <1> HIDE DEF P
  <1> QED
    BY <1>1, <1>2, <1>3, <1>4, <1>5, <1>6, <1>7, IdleType, CommitKeeps

\* Who invalidates every token has waited for those in use, and is alone.
LEMMA AllInvalidated ==
    ASSUME AccountInv, NEW c \in Conn, tx[c].pc \in {"promote", "deactivate"},
           CanInvalidate(AccountTokenPurpose, tx[c].time), NEW d \in Conn \ {c}
    PROVE  tx[d].pc \notin {"verify", "reset", "promote", "replace", "deactivate"}
  <1>1. tx[d].pc \notin {"promote", "replace", "deactivate"}
    BY DEF AccountInv, OneWriter, Writers, UserLockers
  <1>2. ASSUME tx[d].pc \in {"verify", "reset"} PROVE FALSE
    <2>1. /\ tx[d].token \in DOMAIN tokens
          /\ tokens[tx[d].token].purpose \notin AccountTokenPurpose
      BY <1>2, HeldTokens
    <2>2. tokens[tx[d].token] \in Token
      BY <2>1, ElementType DEF AccountInv, TypeOK
    <2> QED
      BY <2>1, <2>2 DEF Token
  <1> QED
    BY <1>1, <1>2

LEMMA PromoteKeeps ==
    ASSUME AccountInv, NEW c \in Conn, promoteAccountEmail(c)
    PROVE  AccountInv'
  <1> DEFINE t == tx[c].token
             P == AccountTokenPurpose
  <1>1. /\ user \in UserRow /\ tx \in [Conn -> Tx] /\ tokens \in Seq(Token)
        /\ listing \in {"active", "archived"} /\ RequestOK(c)
        /\ ~user.deactivated => user.password \in Password
    BY DEF AccountInv, TypeOK
  <1>2. /\ tx[c].pc = "promote" /\ CanInvalidate(P, tx[c].time)
        /\ user' = [user EXCEPT !.email = pending.email, !.emailVersion = @ + 1,
                                !.verified = TRUE, !.tokenVersion = @ + 1]
        /\ tokens' = [invalidateActive(P) EXCEPT ![t].state = "consumed"]
        /\ pending' = NoPending /\ sessions' = {}
        /\ tx' = [tx EXCEPT ![c] = Idle]
        /\ UNCHANGED <<inbox, listing, ordered, now>>
    BY DEF promoteAccountEmail, Finish, goods, ChangedPurposes
  <1>3. /\ t \in DOMAIN tokens /\ tokens[t].state = "active"
        /\ tokens[t].purpose = "email_change"
    BY <1>2, HeldTokens
  <1>4. pending.email \in Email
    <2>1. tokens[t].address = pending.email
      BY <1>3 DEF AccountInv, TokensFit, Active
    <2>2. tokens[t] \in Token
      BY <1>1, <1>3, ElementType
    <2> QED
      BY <2>1, <2>2 DEF Token
  <1>5. \A u \in DOMAIN tokens : tokens[u].purpose \in P
    <2>1. \A u \in DOMAIN tokens : tokens[u] \in Token
      BY <1>1, ElementType
    <2> QED
      BY <2>1 DEF Token
  <1>6. /\ tokens' \in Seq(Token) /\ DOMAIN tokens' = DOMAIN tokens
        /\ \A u \in DOMAIN tokens :
              /\ tokens'[u].purpose = tokens[u].purpose
              /\ tokens'[u].address = tokens[u].address
              /\ tokens'[u].state # "active"
    <2> HIDE DEF P
    <2> QED
      BY <1>1, <1>2, <1>3, <1>5, Retired
  <1>7. OneActiveToken' /\ TokensFit'
    BY <1>6 DEF OneActiveToken, TokensFit, Active
  <1>8. ~user.deactivated
    BY <1>1, <1>2 DEF RequestOK
  <1>9. /\ user' \in UserRow /\ user'.tokenVersion = user.tokenVersion + 1
        /\ user'.password = user.password /\ ~user'.deactivated
    <2>1. user.tokenVersion + 1 \in Nat /\ user.emailVersion + 1 \in Nat
      BY <1>1 DEF UserRow
    <2>2. user' \in UserRow
      BY <1>1, <1>2, <1>4, <2>1 DEF UserRow
    <2>3. /\ user'.tokenVersion = user.tokenVersion + 1
          /\ user'.password = user.password
          /\ user'.deactivated = user.deactivated
      BY <1>1, <1>2 DEF UserRow
    <2> QED
      BY <1>8, <2>2, <2>3
  <1>10. \A d \in Conn \ {c} : tx[d].pc \notin {"verify", "reset", "promote"}
    BY <1>2, AllInvalidated
  <1>11. pending' \in PendingRow
    BY <1>2 DEF NoPending, PendingRow
  <1> HIDE DEF P
  <1> QED
    BY <1>1, <1>2, <1>6, <1>7, <1>8, <1>9, <1>10, <1>11, IdleType, CommitKeeps

LEMMA DeactivateKeeps ==
    ASSUME AccountInv, NEW c \in Conn, CommitDeactivation(c)
    PROVE  AccountInv'
  <1> DEFINE P == AccountTokenPurpose
  <1>1. /\ user \in UserRow /\ tx \in [Conn -> Tx] /\ tokens \in Seq(Token)
        /\ RequestOK(c)
    BY DEF AccountInv, TypeOK
  <1>2. /\ tx[c].pc = "deactivate" /\ CanInvalidate(P, tx[c].time)
        /\ user' = [user EXCEPT !.deactivated = TRUE, !.password = None,
                                !.tokenVersion = @ + 1]
        /\ tokens' = invalidateActive(P)
        /\ pending' = NoPending /\ sessions' = {} /\ listing' = "archived"
        /\ tx' = [tx EXCEPT ![c] = Idle]
        /\ UNCHANGED <<inbox, ordered, now>>
    BY DEF CommitDeactivation, Finish, RetiredPurposes
  <1>3. \A u \in DOMAIN tokens : tokens[u].purpose \in P
    <2>1. \A u \in DOMAIN tokens : tokens[u] \in Token
      BY <1>1, ElementType
    <2> QED
      BY <2>1 DEF Token
  <1>4. /\ tokens' \in Seq(Token) /\ DOMAIN tokens' = DOMAIN tokens
        /\ \A u \in DOMAIN tokens :
              /\ tokens'[u].purpose = tokens[u].purpose
              /\ tokens'[u].address = tokens[u].address
              /\ tokens'[u].state # "active"
    <2> HIDE DEF P
    <2> QED
      BY <1>1, <1>2, <1>3, Invalidated
  <1>5. OneActiveToken' /\ TokensFit'
    BY <1>4 DEF OneActiveToken, TokensFit, Active
  <1>6. /\ user' \in UserRow /\ user'.tokenVersion = user.tokenVersion + 1
        /\ user'.deactivated
    <2>1. user.tokenVersion + 1 \in Nat
      BY <1>1 DEF UserRow
    <2> QED
      BY <1>1, <1>2, <2>1 DEF UserRow
  <1>7. \A d \in Conn \ {c} :
           tx[d].pc \notin {"verify", "reset", "promote", "replace", "deactivate"}
    BY <1>2, AllInvalidated
  <1>8. ASSUME NEW d \in Conn, tx[d].pc = "resetting"
        PROVE  tokens'[tx[d].token].state # "active"
    <2>1. RequestOK(d)
      BY DEF AccountInv
    <2> QED
      BY <1>4, <1>8, <2>1 DEF RequestOK
  <1>9. pending' \in PendingRow
    BY <1>2 DEF NoPending, PendingRow
  <1> HIDE DEF P
  <1> QED
    BY <1>1, <1>2, <1>4, <1>5, <1>6, <1>7, <1>8, <1>9, IdleType, CommitKeeps

-----------------------------------------------------------------------------
(* The theorems *)

LEMMA NextInv == AccountInv /\ [Next]_vars => AccountInv'
  <1> SUFFICES ASSUME AccountInv, [Next]_vars PROVE AccountInv'
    OBVIOUS
  <1>1. CASE Tick \/ UNCHANGED vars
    BY <1>1, NoRequestKeeps
  <1>2. ASSUME NEW c \in Conn, Abort(c) PROVE AccountInv'
    BY <1>2, EndKeeps
  <1>3. CASE TokenNext
    <2> SUFFICES ASSUME NEW c \in Conn,
                        \/ \E purpose \in Mailed : requestToken(c, purpose)
                        \/ findForAccountSecurityForUpdate(c)
                        \/ IssueToken(c)
                        \/ dispatchAccountMessage(c)
                        \/ \E t \in inbox : confirmEmailVerification(c, t)
                        \/ markEmailVerified(c)
                        \/ \E t \in inbox, new \in Password :
                              confirmPasswordReset(c, t, new)
                        \/ consumeReset(c)
                        \/ replacePasswordAndIncrementTokenVersion(c)
                 PROVE  AccountInv'
      BY <1>3 DEF TokenNext
    <2> QED
      BY ReadKeeps, AccountLockKeeps, IssueKeeps, EndKeeps, VerifyKeeps, MarkKeeps,
         ConsumeKeeps, ResetKeeps
  <1>4. CASE EmailNext
    <2> SUFFICES ASSUME NEW c \in Conn,
                        \/ \E email \in Email : requestEmailChange(c, email)
                        \/ savePendingEmailChange(c)
                        \/ \E t \in inbox : confirmEmailChange(c, t)
                        \/ promoteAccountEmail(c)
                 PROVE  AccountInv'
      BY <1>4 DEF EmailNext
    <2> QED
      BY ReadKeeps, SaveChangeKeeps, PromoteLockKeeps, PromoteKeeps
  <1>5. CASE PasswordNext
    <2> SUFFICES ASSUME NEW c \in Conn,
                        \/ findForAuthentication(c)
                        \/ createSession(c)
                        \/ \E new \in Password : changePassword(c, new)
                        \/ replaceAccountPassword(c)
                        \/ CommitPassword(c)
                 PROVE  AccountInv'
      BY <1>5 DEF PasswordNext
    <2> QED
      BY LoginKeeps, SessionKeeps, ReadKeeps, AccountLockKeeps, PasswordKeeps
  <1>6. CASE LifecycleNext
    <2>1. CASE EndOrder
      BY <2>1, NoRequestKeeps
    <2>2. ASSUME NEW c \in Conn,
                 \/ deactivateAccount(c)
                 \/ hasActiveOrders(c)
                 \/ CommitDeactivation(c)
                 \/ findForCheckout(c)
                 \/ createPlaced(c)
                 \/ ownedProduct(c)
                 \/ updateProductStatus(c)
          PROVE  AccountInv'
      BY <2>2, ReadKeeps, AccountLockKeeps, DeactivateKeeps, EndKeeps
    <2> QED
      BY <1>6, <2>1, <2>2 DEF LifecycleNext
  <1> QED
    BY <1>1, <1>2, <1>3, <1>4, <1>5, <1>6 DEF Next

\* The rows, the mailbox and the requests keep their types; whoever is past a
\* lock on the account is alone there; at most one token of a purpose is active,
\* for the address it acts on; and a session at the account's version was opened
\* with its password and address.
THEOREM AccountSafe == Spec => []AccountInv
  <1>1. Init => AccountInv
    BY InitInv
  <1>2. AccountInv /\ [Next]_vars => AccountInv'
    BY NextInv
  <1> QED
    BY <1>1, <1>2, PTL DEF Spec

\* Every other step leaves the account, its tokens and its pending address.
LEMMA WriterSteps ==
    ASSUME [Next]_vars
    PROVE  \/ UNCHANGED <<user, tokens, pending>>
           \/ \E c \in Conn :
                 \/ IssueToken(c)
                 \/ savePendingEmailChange(c)
                 \/ markEmailVerified(c)
                 \/ replacePasswordAndIncrementTokenVersion(c)
                 \/ promoteAccountEmail(c)
                 \/ CommitPassword(c)
                 \/ CommitDeactivation(c)
  <1> DEFINE Same == UNCHANGED <<user, tokens, pending>>
  <1>1. CASE Tick \/ UNCHANGED vars \/ EndOrder \/ \E c \in Conn : Abort(c)
    BY <1>1 DEF Tick, vars, EndOrder, Abort
  <1>2. ASSUME NEW c \in Conn
        PROVE  /\ \A purpose \in Mailed : requestToken(c, purpose) => Same
               /\ findForAccountSecurityForUpdate(c) => Same
               /\ dispatchAccountMessage(c) => Same
               /\ \A t \in inbox : confirmEmailVerification(c, t) => Same
               /\ \A t \in inbox, new \in Password :
                     confirmPasswordReset(c, t, new) => Same
               /\ consumeReset(c) => Same
    BY DEF requestToken, findForAccountSecurityForUpdate, dispatchAccountMessage,
           confirmEmailVerification, confirmPasswordReset, consumeReset
  <1>3. ASSUME NEW c \in Conn
        PROVE  /\ \A email \in Email : requestEmailChange(c, email) => Same
               /\ \A t \in inbox : confirmEmailChange(c, t) => Same
               /\ findForAuthentication(c) => Same
               /\ createSession(c) => Same
               /\ \A new \in Password : changePassword(c, new) => Same
               /\ replaceAccountPassword(c) => Same
    BY DEF requestEmailChange, confirmEmailChange, findForAuthentication,
           createSession, changePassword, replaceAccountPassword
  <1>4. ASSUME NEW c \in Conn
        PROVE  /\ deactivateAccount(c) => Same
               /\ hasActiveOrders(c) => Same
               /\ findForCheckout(c) => Same
               /\ createPlaced(c) => Same
               /\ ownedProduct(c) => Same
               /\ updateProductStatus(c) => Same
    BY DEF deactivateAccount, hasActiveOrders, findForCheckout, createPlaced,
           ownedProduct, updateProductStatus
  <1> HIDE DEF Same
  <1>5. CASE TokenNext
    BY <1>2, <1>5 DEF TokenNext, Same
  <1>6. CASE EmailNext
    BY <1>3, <1>6 DEF EmailNext, Same
  <1>7. CASE PasswordNext
    BY <1>3, <1>7 DEF PasswordNext, Same
  <1>8. CASE LifecycleNext
    BY <1>1, <1>4, <1>8 DEF LifecycleNext, Same
  <1> QED
    BY <1>1, <1>5, <1>6, <1>7, <1>8 DEF Next

LEMMA ConsumptionProves ==
    ASSUME AccountInv, [Next]_vars, NEW t \in DOMAIN tokens,
           tokens'[t].state = "consumed", tokens[t].state # "consumed"
    PROVE  tokens[t].state = "active" /\ tokens[t].address = user'.email
  <1>1. tokens \in Seq(Token) /\ user \in UserRow /\ TokensFit
    BY DEF AccountInv, TypeOK
  <1>2. CASE UNCHANGED <<user, tokens, pending>>
    BY <1>2
  <1>3. ASSUME NEW c \in Conn, IssueToken(c) PROVE FALSE
    <2> DEFINE token == create(tx[c].purpose, tx[c].time, user.email)
    <2>1. /\ tx[c].purpose \in AccountTokenPurpose /\ tx[c] \in Tx
          /\ tokens' = Append(invalidateActive({tx[c].purpose}), token)
      BY <1>3 DEF IssueToken, AccountInv, RequestOK, AccountTokenPurpose, TypeOK
    <2>2. token \in Token /\ token.purpose = tx[c].purpose /\ token.state = "active"
      BY <1>1, <2>1 DEF create, Token, UserRow, Tx
    <2> HIDE DEF token
    <2> QED
      BY <2>1, <2>2, TokenAdded
  <1>4. ASSUME NEW c \in Conn, savePendingEmailChange(c) PROVE FALSE
    <2> DEFINE token == create("email_change", tx[c].time, tx[c].next)
    <2>1. /\ tx[c].next \in Email /\ tx[c] \in Tx
          /\ "email_change" \in AccountTokenPurpose
          /\ tokens' = Append(invalidateActive({"email_change"}), token)
      BY <1>4 DEF savePendingEmailChange, AccountInv, RequestOK,
                  AccountTokenPurpose, TypeOK
    <2>2. token \in Token /\ token.purpose = "email_change" /\ token.state = "active"
      BY <1>1, <2>1 DEF create, Token, UserRow, Tx
    <2> HIDE DEF token
    <2> QED
      BY <2>1, <2>2, TokenAdded
  <1>5. ASSUME NEW c \in Conn, markEmailVerified(c)
        PROVE  tokens[t].state = "active" /\ tokens[t].address = user'.email
    <2>1. /\ tx[c].pc = "verify" /\ user'.email = user.email
          /\ tokens' = [tokens EXCEPT ![tx[c].token].state = "consumed"]
      BY <1>1, <1>5 DEF markEmailVerified, UserRow
    <2>2. t = tx[c].token
      BY <2>1
    <2>3. tokens[t].state = "active" /\ tokens[t].purpose = "email_verification"
      BY <2>1, <2>2, HeldTokens
    <2> QED
      BY <1>1, <2>1, <2>3 DEF TokensFit, Active, Mailed
  <1>6. ASSUME NEW c \in Conn, replacePasswordAndIncrementTokenVersion(c)
        PROVE  tokens[t].state = "active" /\ tokens[t].address = user'.email
    <2> DEFINE P == {"password_reset"}
    <2>1. /\ tx[c].pc = "reset" /\ user'.email = user.email
          /\ tokens' = [invalidateActive(P) EXCEPT ![tx[c].token].state = "consumed"]
      BY <1>1, <1>6 DEF replacePasswordAndIncrementTokenVersion, UserRow
    <2>2. /\ tx[c].token \in DOMAIN tokens /\ tokens[tx[c].token].state = "active"
          /\ tokens[tx[c].token].purpose = "password_reset"
      BY <2>1, HeldTokens
    <2> HIDE DEF P
    <2>3. t = tx[c].token
      BY <1>1, <2>1, <2>2, Retired, ZenonT(40)
    <2> QED
      BY <1>1, <2>1, <2>2, <2>3 DEF TokensFit, Active, Mailed
  <1>7. ASSUME NEW c \in Conn, promoteAccountEmail(c)
        PROVE  tokens[t].state = "active" /\ tokens[t].address = user'.email
    <2> DEFINE P == ChangedPurposes
    <2>1. /\ tx[c].pc = "promote" /\ user'.email = pending.email
          /\ tokens' = [invalidateActive(P) EXCEPT ![tx[c].token].state = "consumed"]
      BY <1>1, <1>7 DEF promoteAccountEmail, UserRow
    <2>2. /\ tx[c].token \in DOMAIN tokens /\ tokens[tx[c].token].state = "active"
          /\ tokens[tx[c].token].purpose = "email_change"
      BY <2>1, HeldTokens
    <2> HIDE DEF P
    <2>3. t = tx[c].token
      BY <1>1, <2>1, <2>2, Retired, ZenonT(40)
    <2> QED
      BY <1>1, <2>1, <2>2, <2>3 DEF TokensFit, Active
  <1>8. ASSUME NEW c \in Conn, CommitPassword(c) \/ CommitDeactivation(c)
        PROVE  FALSE
    <2>1. PICK P : tokens' = invalidateActive(P)
      BY <1>8 DEF CommitPassword, CommitDeactivation
    <2> QED
      BY <1>1, <2>1, Invalidated
  <1> QED
    BY <1>2, <1>3, <1>4, <1>5, <1>6, <1>7, <1>8, WriterSteps

\* A token that changes the account was active and had been sent to the address
\* that the account has after the change.
THEOREM AccountTokens == Spec => TokensProveAddress
  <1>1. AccountInv /\ [Next]_vars =>
           [\A t \in DOMAIN tokens :
              tokens'[t].state = "consumed" /\ tokens[t].state # "consumed"
                => tokens[t].state = "active" /\ tokens[t].address = user'.email]_vars
    BY ConsumptionProves
  <1> QED
    BY <1>1, AccountSafe, PTL DEF Spec, TokensProveAddress

\* Nothing gives a deactivated account its password, address or version back.
THEOREM AccountDeactivated == Spec => DeactivatedForGood
  <1>1. ASSUME AccountInv, [Next]_vars, user.deactivated
        PROVE  /\ user' = [user EXCEPT !.verified = user'.verified]
               /\ pending' = NoPending
    <2>1. user \in UserRow /\ pending = NoPending
      BY <1>1 DEF AccountInv, TypeOK
    <2>2. CASE UNCHANGED <<user, tokens, pending>>
      BY <2>1, <2>2 DEF UserRow
    <2>3. ASSUME NEW c \in Conn,
                 IssueToken(c) \/ savePendingEmailChange(c) \/ markEmailVerified(c)
          PROVE  /\ user' = [user EXCEPT !.verified = user'.verified]
                 /\ pending' = NoPending
      <3>1. ~savePendingEmailChange(c)
        BY <1>1 DEF savePendingEmailChange, SameAccount
      <3>2. CASE IssueToken(c)
        BY <2>1, <3>2 DEF IssueToken, UserRow
      <3>3. CASE markEmailVerified(c)
        BY <2>1, <3>3 DEF markEmailVerified, UserRow
      <3> QED
        BY <2>3, <3>1, <3>2, <3>3
    <2>4. ASSUME NEW c \in Conn
          PROVE  /\ ~replacePasswordAndIncrementTokenVersion(c)
                 /\ ~promoteAccountEmail(c)
                 /\ ~CommitPassword(c) /\ ~CommitDeactivation(c)
      <3>1. tx[c].pc \notin {"reset", "promote", "replace", "deactivate"}
        BY <1>1 DEF AccountInv, RequestOK
      <3> QED
        BY <3>1 DEF replacePasswordAndIncrementTokenVersion, promoteAccountEmail,
                    CommitPassword, CommitDeactivation
    <2> QED
      BY <1>1, <2>2, <2>3, <2>4, WriterSteps
  <1>2. AccountInv /\ [Next]_vars =>
           [user.deactivated =>
              /\ user' = [user EXCEPT !.verified = user'.verified]
              /\ pending' = NoPending]_vars
    BY <1>1
  <1> QED
    BY <1>2, AccountSafe, PTL DEF Spec, DeactivatedForGood

\* No order of the account is under way when its deactivation commits.
THEOREM AccountWithoutOrders == Spec => DeactivatesWithoutOrders
  <1>1. ASSUME AccountInv, [Next]_vars, ~user.deactivated, user'.deactivated
        PROVE  ~ordered
    <2>1. user \in UserRow
      BY <1>1 DEF AccountInv, TypeOK
    <2>2. PICK c \in Conn : CommitDeactivation(c)
      BY <1>1, <2>1, WriterSteps
      DEF IssueToken, savePendingEmailChange, markEmailVerified, UserRow,
          replacePasswordAndIncrementTokenVersion, promoteAccountEmail,
          CommitPassword
    <2> QED
      BY <1>1, <2>2 DEF CommitDeactivation, AccountInv, RequestOK
  <1>2. AccountInv /\ [Next]_vars =>
           [~user.deactivated /\ user'.deactivated => ~ordered]_vars
    BY <1>1
  <1> QED
    BY <1>2, AccountSafe, PTL DEF Spec, DeactivatesWithoutOrders

-----------------------------------------------------------------------------
(* The limit on mailed tokens *)

\* Who is past the lock of a token request found that it may issue, at the time
\* it read from the clock, and keeps the row until the token is there.
IssuersMay == \A c \in Conn : tx[c].pc = "issue" => MayIssue(tx[c].purpose, tx[c].time)

SameStamps ==
    /\ DOMAIN tokens' = DOMAIN tokens
    /\ \A t \in DOMAIN tokens : /\ tokens'[t].purpose = tokens[t].purpose
                               /\ tokens'[t].issuedAt = tokens[t].issuedAt

\* What the limit counts for a token, and for a request.
Around(purpose, t) ==
    {u \in Issued(purpose) : /\ tokens[u].issuedAt >= tokens[t].issuedAt
                             /\ tokens[u].issuedAt <= tokens[t].issuedAt + IssueWindow}
Lately(purpose, time) ==
    {u \in Issued(purpose) : tokens[u].issuedAt >= time - IssueWindow}

LEMMA IssuedFinite ==
    ASSUME tokens \in Seq(Token), NEW S, NEW purpose, S \subseteq Issued(purpose)
    PROVE  IsFiniteSet(S) /\ Cardinality(S) \in Nat
  <1>1. Len(tokens) \in Nat /\ S \subseteq 1..Len(tokens)
    BY DEF Issued
  <1>2. IsFiniteSet(1..Len(tokens)) /\ S \in SUBSET (1..Len(tokens))
    BY <1>1, FS_Interval
  <1>3. IsFiniteSet(S)
    BY <1>2, FS_Subset
  <1> QED
    BY <1>3, FS_CardinalityType

LEMMA SameLimits ==
    ASSUME SameStamps, IssuesLimited
    PROVE  /\ IssuesLimited'
           /\ \A purpose, time : MayIssue(purpose, time) => MayIssue(purpose, time)'
  <1>1. \A purpose : /\ Issued(purpose)' = Issued(purpose)
                     /\ \A t \in Issued(purpose) :
                           tokens'[t].issuedAt = tokens[t].issuedAt
    BY DEF SameStamps, Issued
  <1>2. \A purpose : \A t \in Issued(purpose) : Around(purpose, t)' = Around(purpose, t)
    BY <1>1 DEF Around
  <1>3. ASSUME NEW purpose \in Mailed, NEW t \in Issued(purpose)'
        PROVE  /\ \A u \in Issued(purpose)' :
                     t < u => tokens'[u].issuedAt >= tokens'[t].issuedAt + IssueCooldown
               /\ Cardinality(Around(purpose, t)') <= IssueMax
    BY <1>1, <1>2 DEF IssuesLimited, Around
  <1>4. IssuesLimited'
    BY <1>3 DEF IssuesLimited, Around
  <1>5. \A purpose, time : Lately(purpose, time)' = Lately(purpose, time)
    BY <1>1 DEF Lately
  <1>6. \A purpose, time : MayIssue(purpose, time) => MayIssue(purpose, time)'
    BY <1>1, <1>5 DEF MayIssue, Lately
  <1> QED
    BY <1>4, <1>6

\* Whatever writes the state of tokens leaves their purposes and times.
LEMMA InvalidationStamps ==
    ASSUME tokens \in Seq(Token), NEW P
    PROVE  LET N == invalidateActive(P)
           IN  /\ DOMAIN N = DOMAIN tokens
               /\ \A t \in DOMAIN tokens : /\ N[t].purpose = tokens[t].purpose
                                           /\ N[t].issuedAt = tokens[t].issuedAt
  <1>1. \A t \in DOMAIN tokens : tokens[t] \in Token
    BY ElementType
  <1> QED
    BY <1>1 DEF invalidateActive, Token

\* A token that is added keeps the limits of its purpose if the request may
\* issue it, and those of the other purposes.
LEMMA AddedWithin ==
    ASSUME tokens \in Seq(Token), tokens' \in Seq(Token), IssuesLimited,
           NEW p \in AccountTokenPurpose, NEW time \in Nat,
           DOMAIN tokens' = DOMAIN tokens \cup {Len(tokens) + 1},
           \A t \in DOMAIN tokens : /\ tokens'[t].purpose = tokens[t].purpose
                                    /\ tokens'[t].issuedAt = tokens[t].issuedAt,
           tokens'[Len(tokens) + 1].purpose = p,
           tokens'[Len(tokens) + 1].issuedAt = time,
           p \in Mailed => MayIssue(p, time)
    PROVE  IssuesLimited'
  <1>0. PICK n : n = Len(tokens) + 1
    OBVIOUS
  <1>1. /\ Len(tokens) \in Nat /\ n \notin DOMAIN tokens
        /\ \A t \in DOMAIN tokens : t \in Nat /\ t < n /\ tokens[t].issuedAt \in Nat
    <2>1. \A t \in DOMAIN tokens : tokens[t] \in Token
      BY ElementType
    <2> QED
      BY <1>0, <2>1 DEF Token
  <1>2. /\ IssueWindow \in Nat \ {0} /\ IssueCooldown \in Nat \ {0}
        /\ IssueMax \in Nat \ {0}
    BY ClockAssumption
  <1>3. /\ n \in Nat /\ tokens'[n].purpose = p /\ tokens'[n].issuedAt = time
        /\ DOMAIN tokens' = DOMAIN tokens \cup {n}
    BY <1>0, <1>1
  <1>4. ASSUME NEW purpose \in Mailed, purpose # p
        PROVE  /\ Issued(purpose)' = Issued(purpose)
               /\ \A t \in Issued(purpose) : Around(purpose, t)' = Around(purpose, t)
    <2>1. Issued(purpose)' = Issued(purpose)
      BY <1>3, <1>4 DEF Issued
    <2>2. \A t \in Issued(purpose) : tokens'[t].issuedAt = tokens[t].issuedAt
      BY DEF Issued
    <2> QED
      BY <2>1, <2>2 DEF Around
  <1>5. ASSUME p \in Mailed
        PROVE  /\ Issued(p)' = Issued(p) \cup {n}
               /\ \A t \in Issued(p) :
                     tokens[t].issuedAt \in Nat /\ tokens[t].issuedAt <= time - IssueCooldown
               /\ \A t \in Issued(p) :
                     Around(p, t)' = IF time <= tokens[t].issuedAt + IssueWindow
                                     THEN Around(p, t) \cup {n} ELSE Around(p, t)
               /\ Around(p, n)' = {n}
    <2>1. Issued(p)' = Issued(p) \cup {n}
      BY <1>3 DEF Issued
    <2>2. \A t \in Issued(p) : /\ tokens'[t].issuedAt = tokens[t].issuedAt
                               /\ tokens[t].issuedAt \in Nat
                               /\ tokens[t].issuedAt <= time - IssueCooldown
      BY <1>1, <1>5 DEF Issued, MayIssue
    <2>3. n \notin Issued(p)
      BY <1>1 DEF Issued
    <2>4. \A t \in Issued(p) : time >= tokens[t].issuedAt /\ tokens[t].issuedAt < time
      BY <1>2, <2>2
    <2>5. \A t \in Issued(p) :
             Around(p, t)' = IF time <= tokens[t].issuedAt + IssueWindow
                             THEN Around(p, t) \cup {n} ELSE Around(p, t)
      BY <1>3, <2>1, <2>2, <2>4 DEF Around
    <2>6. \A u \in Issued(p) : ~(tokens'[u].issuedAt >= tokens'[n].issuedAt)
      BY <1>3, <2>2, <2>4
    <2>7. /\ tokens'[n].issuedAt >= tokens'[n].issuedAt
          /\ tokens'[n].issuedAt <= tokens'[n].issuedAt + IssueWindow
      BY <1>2, <1>3
    <2>8. Around(p, n)' = {n}
      <3>1. Around(p, n)' = {u \in Issued(p) \cup {n} :
                               /\ tokens'[u].issuedAt >= tokens'[n].issuedAt
                               /\ tokens'[u].issuedAt <= tokens'[n].issuedAt + IssueWindow}
        BY <2>1 DEF Around
      <3> QED
        BY <2>6, <2>7, <3>1
    <2> QED
      BY <2>1, <2>2, <2>5, <2>8
  <1>6. ASSUME p \in Mailed, NEW t \in Issued(p)
        PROVE  Cardinality(Around(p, t)') <= IssueMax
    <2>1. /\ IsFiniteSet(Around(p, t)) /\ Cardinality(Around(p, t)) \in Nat
          /\ Cardinality(Around(p, t)) <= IssueMax
      <3>1. Around(p, t) \subseteq Issued(p)
        BY DEF Around
      <3> QED
        BY <1>6, <3>1, IssuedFinite DEF IssuesLimited, Around
    <2>2. CASE ~(time <= tokens[t].issuedAt + IssueWindow)
      <3>1. Around(p, t)' = Around(p, t)
        BY <1>5, <1>6, <2>2
      <3> QED
        BY <2>1, <3>1
    <2>3. CASE time <= tokens[t].issuedAt + IssueWindow
      <3>1. Around(p, t) \subseteq Lately(p, time)
        BY <1>2, <1>5, <1>6, <2>3 DEF Around, Lately
      <3>2. /\ IsFiniteSet(Lately(p, time)) /\ Cardinality(Lately(p, time)) \in Nat
            /\ Cardinality(Lately(p, time)) < IssueMax
        <4>1. Lately(p, time) \subseteq Issued(p)
          BY DEF Lately
        <4> QED
          BY <1>6, <4>1, IssuedFinite DEF MayIssue, Lately
      <3>3. Cardinality(Around(p, t)) <= Cardinality(Lately(p, time))
        BY <3>1, <3>2, FS_Subset
      <3>4. Around(p, t)' = Around(p, t) \cup {n}
        BY <1>5, <1>6, <2>3
      <3>5. \/ Cardinality(Around(p, t)') = Cardinality(Around(p, t))
            \/ Cardinality(Around(p, t)') = Cardinality(Around(p, t)) + 1
        <4>1. ASSUME NEW S, IsFiniteSet(S)
              PROVE  \/ Cardinality(S \cup {n}) = Cardinality(S)
                     \/ Cardinality(S \cup {n}) = Cardinality(S) + 1
          BY <4>1, FS_AddElement
        <4> QED
          BY <2>1, <3>4, <4>1
      <3> QED
        BY <1>2, <2>1, <3>2, <3>3, <3>5
    <2> QED
      BY <2>2, <2>3
  <1>7. ASSUME NEW purpose \in Mailed, NEW t \in Issued(purpose)'
        PROVE  /\ \A u \in Issued(purpose)' :
                     t < u => tokens'[u].issuedAt >= tokens'[t].issuedAt + IssueCooldown
               /\ Cardinality(Around(purpose, t)') <= IssueMax
    <2>1. CASE purpose # p
      <3>1. t \in Issued(purpose)
        BY <1>4, <1>7, <2>1
      <3>2. Cardinality(Around(purpose, t)') <= IssueMax
        BY <1>4, <2>1, <3>1 DEF IssuesLimited, Around
      <3>3. \A u \in Issued(purpose) : tokens'[u].issuedAt = tokens[u].issuedAt
        BY DEF Issued
      <3> QED
        BY <1>4, <2>1, <3>1, <3>2, <3>3 DEF IssuesLimited
    <2>2. CASE purpose = p /\ t # n
      <3>1. t \in Issued(p)
        BY <1>5, <1>7, <2>2
      <3>2. ASSUME NEW u \in Issued(p), t < u
            PROVE  tokens'[u].issuedAt >= tokens'[t].issuedAt + IssueCooldown
        <4>1. /\ tokens'[u].issuedAt = tokens[u].issuedAt
              /\ tokens'[t].issuedAt = tokens[t].issuedAt
          BY <3>1 DEF Issued
        <4> QED
          BY <2>2, <3>1, <3>2, <4>1 DEF IssuesLimited
      <3>3. tokens'[n].issuedAt >= tokens'[t].issuedAt + IssueCooldown
        <4>1. tokens'[t].issuedAt = tokens[t].issuedAt
          BY <3>1 DEF Issued
        <4> QED
          BY <1>2, <1>3, <1>5, <2>2, <3>1, <4>1
      <3> QED
        BY <1>5, <1>6, <2>2, <3>1, <3>2, <3>3
    <2>3. CASE purpose = p /\ t = n
      <3>1. \A u \in Issued(p) : ~(n < u)
        BY <1>1, <1>3 DEF Issued
      <3>2. Cardinality(Around(p, n)') = 1
        BY <1>5, <2>3, FS_Singleton
      <3>3. ~(n < n) /\ 1 <= IssueMax
        BY <1>2, <1>3
      <3> QED
        BY <1>5, <2>3, <3>1, <3>2, <3>3
    <2> QED
      BY <2>1, <2>2, <2>3
  <1> QED
    BY <1>7 DEF IssuesLimited, Around

\* A request gets to its issue by the lock that found it may.
LEMMA WhoIssues ==
    ASSUME AccountInv, [Next]_vars, NEW d \in Conn, tx'[d].pc = "issue"
    PROVE  \/ tx[d].pc = "issue" /\ tx'[d] = tx[d]
           \/ findForAccountSecurityForUpdate(d)
  <1> DEFINE Else(c) == \E r : tx' = [tx EXCEPT ![c] = r] /\ r.pc # "issue"
  <1>1. tx \in [Conn -> Tx]
    BY DEF AccountInv, TypeOK
  <1>2. ASSUME NEW c \in Conn, Else(c) PROVE tx'[d] = tx[d]
    BY <1>1, <1>2
  <1>3. CASE Tick \/ UNCHANGED vars \/ EndOrder
    BY <1>3 DEF Tick, vars, EndOrder
  <1>4. ASSUME NEW c \in Conn, Finish(c) PROVE Else(c)
    BY <1>4, IdleType DEF Finish
  <1>5. ASSUME NEW c \in Conn, NEW pc, Continue(c, pc), pc # "issue" PROVE Else(c)
    <2>1. tx' = [tx EXCEPT ![c] = [tx[c] EXCEPT !.pc = pc]]
      BY <1>1, <1>5 DEF Continue
    <2>2. [tx[c] EXCEPT !.pc = pc].pc = pc
      BY <1>1 DEF Tx
    <2> QED
      BY <1>5, <2>1, <2>2
  <1>6. ASSUME NEW c \in Conn, NEW r, Start(c, r), r.pc # "issue" PROVE Else(c)
    BY <1>6 DEF Start
  <1>7. ASSUME NEW c \in Conn, NEW pc, NEW next, pc # "issue", Start(c, BySnapshot(pc, next))
        PROVE  Else(c)
    <2>1. BySnapshot(pc, next).pc = pc
      BY DEF BySnapshot, Idle
    <2> QED
      BY <1>6, <1>7, <2>1
  <1> HIDE DEF Else
  <1>8. ASSUME NEW c \in Conn
        PROVE  /\ \A purpose \in Mailed : requestToken(c, purpose) => Else(c)
               /\ \A t \in inbox : confirmEmailVerification(c, t) => Else(c)
               /\ \A t \in inbox, new \in Password :
                     confirmPasswordReset(c, t, new) => Else(c)
               /\ \A t \in inbox : confirmEmailChange(c, t) => Else(c)
               /\ findForAuthentication(c) => Else(c)
               /\ findForCheckout(c) => Else(c)
               /\ ownedProduct(c) => Else(c)
    <2>2. \A purpose \in Mailed : requestToken(c, purpose) => Else(c)
      BY <1>6 DEF requestToken, Idle
    <2>3. /\ \A t \in inbox : confirmEmailVerification(c, t) => Else(c)
          /\ \A t \in inbox : confirmEmailChange(c, t) => Else(c)
      BY <1>6 DEF confirmEmailVerification, confirmEmailChange, Idle
    <2>4. \A t \in inbox, new \in Password : confirmPasswordReset(c, t, new) => Else(c)
      BY <1>6 DEF confirmPasswordReset, Idle
    <2>5. /\ findForAuthentication(c) => Else(c)
          /\ findForCheckout(c) => Else(c)
          /\ ownedProduct(c) => Else(c)
      BY <1>6 DEF findForAuthentication, findForCheckout, ownedProduct, Idle
    <2> QED
      BY <2>2, <2>3, <2>4, <2>5
  <1>9. ASSUME NEW c \in Conn
        PROVE  /\ IssueToken(c) => Else(c)
               /\ savePendingEmailChange(c) => Else(c)
    <2>1. [Idle EXCEPT !.pc = "send", !.token = Len(tokens) + 1].pc # "issue"
      BY DEF Idle
    <2> QED
      BY <2>1 DEF IssueToken, savePendingEmailChange, Else
  <1>10. CASE TokenNext
    <2> SUFFICES ASSUME NEW c \in Conn,
                        \/ findForAccountSecurityForUpdate(c)
                        \/ dispatchAccountMessage(c)
                        \/ markEmailVerified(c)
                        \/ consumeReset(c)
                        \/ replacePasswordAndIncrementTokenVersion(c)
                 PROVE  \/ tx'[d] = tx[d]
                        \/ findForAccountSecurityForUpdate(d)
      BY <1>2, <1>8, <1>9, <1>10 DEF TokenNext
    <2>1. CASE findForAccountSecurityForUpdate(c)
      BY <1>1, <2>1 DEF findForAccountSecurityForUpdate, Continue
    <2>2. CASE dispatchAccountMessage(c)
      BY <1>2, <1>4, <2>2 DEF dispatchAccountMessage
    <2>3. CASE markEmailVerified(c) \/ replacePasswordAndIncrementTokenVersion(c)
      BY <1>2, <1>4, <2>3 DEF markEmailVerified, replacePasswordAndIncrementTokenVersion
    <2>4. CASE consumeReset(c)
      BY <1>2, <1>5, <2>4 DEF consumeReset
    <2> QED
      BY <2>1, <2>2, <2>3, <2>4
  <1>11. CASE EmailNext
    <2>1. ASSUME NEW c \in Conn
          PROVE  /\ \A email \in Email : requestEmailChange(c, email) => Else(c)
                 /\ promoteAccountEmail(c) => Else(c)
      BY <1>4, <1>7 DEF requestEmailChange, promoteAccountEmail
    <2> QED
      BY <1>2, <1>8, <1>9, <1>11, <2>1 DEF EmailNext
  <1>12. CASE PasswordNext
    <2>1. ASSUME NEW c \in Conn
          PROVE  /\ createSession(c) => Else(c)
                 /\ \A new \in Password : changePassword(c, new) => Else(c)
                 /\ replaceAccountPassword(c) => Else(c)
                 /\ CommitPassword(c) => Else(c)
      BY <1>4, <1>5, <1>7 DEF createSession, changePassword, replaceAccountPassword,
                              CommitPassword
    <2> QED
      BY <1>2, <1>8, <1>12, <2>1 DEF PasswordNext
  <1>13. CASE LifecycleNext
    <2>1. ASSUME NEW c \in Conn
          PROVE  /\ deactivateAccount(c) => Else(c)
                 /\ hasActiveOrders(c) => Else(c)
                 /\ CommitDeactivation(c) => Else(c)
                 /\ createPlaced(c) => Else(c)
                 /\ updateProductStatus(c) => Else(c)
      BY <1>4, <1>5, <1>7 DEF deactivateAccount, hasActiveOrders, CommitDeactivation,
                              createPlaced, updateProductStatus
    <2> QED
      BY <1>2, <1>3, <1>8, <1>13, <2>1 DEF LifecycleNext
  <1>14. ASSUME NEW c \in Conn, Abort(c) PROVE tx'[d] = tx[d]
    BY <1>2, <1>4, <1>14 DEF Abort
  <1> QED
    BY <1>3, <1>10, <1>11, <1>12, <1>13, <1>14 DEF Next

LEMMA LimitsKept ==
    ASSUME AccountInv, IssuesLimited, IssuersMay, [Next]_vars
    PROVE  IssuesLimited' /\ IssuersMay'
  <1>1. /\ tokens \in Seq(Token) /\ user \in UserRow /\ tx \in [Conn -> Tx]
        /\ \A c \in Conn : RequestOK(c)
    BY DEF AccountInv, TypeOK
  <1>2. CASE SameStamps
    <2>1. /\ IssuesLimited'
          /\ \A purpose, time : MayIssue(purpose, time) => MayIssue(purpose, time)'
      BY <1>2, SameLimits
    <2>2. ASSUME NEW d \in Conn, tx'[d].pc = "issue"
          PROVE  MayIssue(tx[d].purpose, tx[d].time)'
      <3>1. CASE tx[d].pc = "issue" /\ tx'[d] = tx[d]
        <4>1. MayIssue(tx[d].purpose, tx[d].time)
          BY <3>1 DEF IssuersMay
        <4>2. PICK purpose, time : purpose = tx[d].purpose /\ time = tx[d].time
          OBVIOUS
        <4>3. tx'[d].purpose = purpose /\ tx'[d].time = time
          BY <3>1, <4>2
        <4>4. MayIssue(purpose, time)'
          BY <2>1, <4>1, <4>2
        <4> QED
          BY <4>3, <4>4
      <3>2. CASE findForAccountSecurityForUpdate(d)
        <4>1. PICK purpose, time : purpose = tx[d].purpose /\ time = tx[d].time
          OBVIOUS
        <4>2. tx'[d].purpose = purpose /\ tx'[d].time = time
          BY <1>1, <3>2, <4>1 DEF findForAccountSecurityForUpdate, Continue, Tx
        <4>3. MayIssue(purpose, time)'
          BY <2>1, <3>2, <4>1 DEF findForAccountSecurityForUpdate
        <4> QED
          BY <4>2, <4>3
      <3> QED
        BY <2>2, <3>1, <3>2, WhoIssues
    <2> QED
      BY <2>1, <2>2 DEF IssuersMay
  <1>3. ASSUME NEW c \in Conn,
               \/ markEmailVerified(c)
               \/ replacePasswordAndIncrementTokenVersion(c)
               \/ promoteAccountEmail(c)
        PROVE  SameStamps
    <2>1. PICK P, t : \/ tokens' = [tokens EXCEPT ![t].state = "consumed"]
                      \/ tokens' = [invalidateActive(P) EXCEPT ![t].state = "consumed"]
      BY <1>3 DEF markEmailVerified, replacePasswordAndIncrementTokenVersion,
                  promoteAccountEmail
    <2>2. \A u \in DOMAIN tokens : tokens[u] \in Token
      BY <1>1, ElementType
    <2>3. ASSUME NEW T, DOMAIN T = DOMAIN tokens,
                 \A u \in DOMAIN tokens : T[u].purpose = tokens[u].purpose
                                          /\ T[u].issuedAt = tokens[u].issuedAt,
                 tokens' = [T EXCEPT ![t].state = "consumed"]
          PROVE  SameStamps
      BY <2>3 DEF SameStamps
    <2> QED
      BY <1>1, <2>1, <2>3, InvalidationStamps
  <1>4. ASSUME NEW c \in Conn, CommitPassword(c) \/ CommitDeactivation(c)
        PROVE  SameStamps
    <2>1. PICK P : tokens' = invalidateActive(P)
      BY <1>4 DEF CommitPassword, CommitDeactivation
    <2> QED
      BY <1>1, <2>1, InvalidationStamps DEF SameStamps
  <1>5. ASSUME NEW c \in Conn, IssueToken(c) \/ savePendingEmailChange(c)
        PROVE  IssuesLimited' /\ IssuersMay'
    <2>1. PICK p \in AccountTokenPurpose, time \in Nat, address \in Email :
             /\ tokens' = Append(invalidateActive({p}), create(p, time, address))
             /\ p \in Mailed => MayIssue(p, time)
      <3>1. CASE IssueToken(c)
        BY <1>1, <3>1 DEF IssueToken, IssuersMay, RequestOK, AccountTokenPurpose, Tx,
                          UserRow
      <3>2. CASE savePendingEmailChange(c)
        BY <1>1, <3>2 DEF savePendingEmailChange, RequestOK, AccountTokenPurpose, Tx,
                          Mailed
      <3> QED
        BY <1>5, <3>1, <3>2
    <2>2. create(p, time, address) \in Token /\ create(p, time, address).purpose = p
          /\ create(p, time, address).issuedAt = time
      BY <1>1 DEF create, Token, UserRow
    <2>3. invalidateActive({p}) \in Seq(Token) /\ Len(invalidateActive({p})) = Len(tokens)
          /\ DOMAIN invalidateActive({p}) = DOMAIN tokens
      BY <1>1, Invalidated
    <2>4. /\ tokens' \in Seq(Token)
          /\ DOMAIN tokens' = DOMAIN tokens \cup {Len(tokens) + 1}
          /\ tokens'[Len(tokens) + 1] = create(p, time, address)
          /\ \A t \in DOMAIN tokens : tokens'[t] = invalidateActive({p})[t]
      <3>1. PICK N, new : N = invalidateActive({p}) /\ new = create(p, time, address)
        OBVIOUS
      <3>2. N \in Seq(Token) /\ new \in Token /\ tokens' = Append(N, new)
        BY <2>1, <2>2, <2>3, <3>1
      <3>3. /\ tokens' \in Seq(Token) /\ DOMAIN tokens' = DOMAIN N \cup {Len(N) + 1}
            /\ tokens'[Len(N) + 1] = new /\ \A t \in DOMAIN N : tokens'[t] = N[t]
        BY <3>2, AppendProperties
      <3> QED
        BY <2>3, <3>1, <3>3
    <2>5. \A t \in DOMAIN tokens : /\ tokens'[t].purpose = tokens[t].purpose
                                   /\ tokens'[t].issuedAt = tokens[t].issuedAt
      BY <1>1, <2>4, InvalidationStamps
    <2>6. IssuesLimited'
      BY <1>1, <2>1, <2>2, <2>4, <2>5, AddedWithin
    <2>7. \A d \in Conn : tx'[d].pc # "issue"
      <3> SUFFICES ASSUME NEW d \in Conn, tx'[d].pc = "issue" PROVE FALSE
        OBVIOUS
      <3>1. tx[c].pc \in {"issue", "change"} /\ tx'[c].pc = "send"
        BY <1>1, <1>5 DEF IssueToken, savePendingEmailChange, Idle
      <3>2. d # c
        BY <3>1
      <3>3. tx[d].pc = "issue"
        <4>1. CASE findForAccountSecurityForUpdate(d)
          BY <1>1, <3>1, <3>2, <4>1 DEF findForAccountSecurityForUpdate, Continue
        <4> QED
          BY <4>1, WhoIssues
      <3>4. CASE IssueToken(c)
        BY <3>2, <3>3, <3>4 DEF IssueToken, AccountInv, OneWriter, Writers, UserLockers
      <3>5. CASE savePendingEmailChange(c)
        BY <3>3, <3>5, FreeRow DEF savePendingEmailChange, Writers, UserLockers
      <3> QED
        BY <1>5, <3>4, <3>5
    <2> QED
      BY <2>6, <2>7 DEF IssuersMay
  <1>6. CASE UNCHANGED <<user, tokens, pending>>
    BY <1>2, <1>6 DEF SameStamps
  <1> QED
    BY <1>2, <1>3, <1>4, <1>5, <1>6, WriterSteps

\* However many requests for a mailed token overlap, with whatever readings of the
\* clock, no cooldown and no window limit is broken (accountSecurityService.ts
\* lines 81-95): what a request found past its lock is so until its insert.
THEOREM AccountIssues == Spec => []IssuesLimited
  <1>1. Init => IssuesLimited /\ IssuersMay
    BY IdleType DEF Init, IssuesLimited, IssuersMay, Issued
  <1>2. AccountInv /\ IssuesLimited /\ IssuersMay /\ [Next]_vars
           => IssuesLimited' /\ IssuersMay'
    BY LimitsKept
  <1> QED
    BY <1>1, <1>2, AccountSafe, PTL DEF Spec

=============================================================================
