------------------------------- MODULE Account -------------------------------
(***************************************************************************)
(* The life of one account beside its sessions: one-use tokens sent by mail *)
(* (accountSecurityService.ts), the change of address in two stages          *)
(* (emailChangeService.ts), the password change (accountManagementService.ts)*)
(* and deactivation (accountDeactivationService.ts), against logins,         *)
(* checkouts and listing updates that were let in before it.                *)
(*                                                                         *)
(* Requests run at READ COMMITTED. A transaction's writes appear at its      *)
(* commit; its locks appear before that, and follow from its pc: who holds   *)
(* the account's row, a token's row, or the cart or listing of the account. *)
(* A request that is refused leaves no trace and ends like an aborted one.  *)
(***************************************************************************)
EXTENDS Integers, Sequences, FiniteSets

CONSTANTS
    Conn,         \* database connections, one request each
    Email,        \* addresses
    Password,     \* passwords the account may have
    TokenTtl,     \* lifetime of a token
    IssueCooldown,  \* issueCooldownMs
    IssueWindow,  \* issueWindowMs
    IssueMax,     \* tokens of a purpose that a window may see
    MaxTokens,    \* bound on the tokens issued
    MaxVersion,   \* bound on the account's token version
    MaxSessions,  \* bound on the sessions open at once
    MaxNow,       \* bound on the clock
    None          \* nobody: an unusable password, an unused field

ASSUME ClockAssumption ==
    /\ TokenTtl \in Nat \ {0} /\ IssueCooldown \in Nat \ {0}
    /\ IssueWindow \in Nat \ {0} /\ IssueMax \in Nat \ {0}
    /\ MaxTokens \in Nat /\ MaxVersion \in Nat /\ MaxNow \in Nat
    /\ MaxSessions \in Nat
ASSUME NoneAssumption == None \notin Email \cup Password

VARIABLES
    user,      \* the account's row
    tokens,    \* the rows of account_tokens, in the order of their creation
    pending,   \* the account's row of pending_email_changes
    sessions,  \* sessions that are not revoked
    inbox,     \* the tokens whose message has arrived
    listing,   \* whether the account's product is offered
    ordered,   \* whether an order of the account is placed, confirmed or shipped
    now,       \* the clock
    tx         \* tx[c]: the request the connection is executing

vars == <<user, tokens, pending, sessions, inbox, listing, ordered, now, tx>>
goods == <<listing, ordered>>

-----------------------------------------------------------------------------
(* Rows and requests *)

Mailed == {"email_verification", "password_reset"}
AccountTokenPurpose == Mailed \cup {"email_change"}

UserRow == [email: Email, emailVersion: Nat, verified: BOOLEAN,
            password: Password \cup {None}, tokenVersion: Nat,
            deactivated: BOOLEAN]

\* address, where the token was sent, is in no table.
Token == [purpose: AccountTokenPurpose, emailVersion: Nat, issuedAt: Nat,
          state: {"active", "consumed", "invalidated"}, address: Email]

PendingRow == [email: Email \cup {None}, emailVersion: Nat, expiresAt: Nat]
NoPending == [email |-> None, emailVersion |-> 0, expiresAt |-> 0]

\* What the session's owner had proved when it was opened, with the version it
\* carries.
SessionRow == [version: Nat, password: Password, email: Email]

Snapshot == [email: Email, password: Password \cup {None}, tokenVersion: Nat]
TakeSnapshot == [email |-> user.email, password |-> user.password,
                 tokenVersion |-> user.tokenVersion]

Tx == [pc: {"idle", "login", "request", "issue", "send", "verify", "resetting",
            "reset", "change", "promote", "replacing", "replace",
            "deactivating", "deactivate", "order", "relist"},
       purpose: AccountTokenPurpose \cup {None}, token: Nat,
       seen: Snapshot \cup {None}, next: Password \cup Email \cup {None},
       time: Nat]
Idle == [pc |-> "idle", purpose |-> None, token |-> 0, seen |-> None,
         next |-> None, time |-> 0]

Init ==
    /\ \E email \in Email, password \in Password :
          user = [email |-> email, emailVersion |-> 0, verified |-> FALSE,
                  password |-> password, tokenVersion |-> 0,
                  deactivated |-> FALSE]
    /\ tokens = <<>>
    /\ pending = NoPending
    /\ sessions = {}
    /\ inbox = {}
    /\ listing = "active"
    /\ ordered = FALSE
    /\ now = 0
    /\ tx = [c \in Conn |-> Idle]

Start(c, request) ==
    /\ tx[c].pc = "idle"
    /\ tx' = [tx EXCEPT ![c] = request]

Continue(c, pc) == tx' = [tx EXCEPT ![c].pc = pc]

Finish(c) == tx' = [tx EXCEPT ![c] = Idle]

\* A request of the signed-in account, with the row it compared the password to.
BySnapshot(pc, next) ==
    [Idle EXCEPT !.pc = pc, !.seen = TakeSnapshot, !.next = next, !.time = now]

\* The request is refused, or its connection or process dies: what it had not
\* committed is rolled back, a message not yet sent is lost.
Abort(c) ==
    /\ tx[c].pc # "idle"
    /\ Finish(c)
    /\ UNCHANGED <<user, tokens, pending, sessions, inbox, goods, now>>

Tick ==
    /\ now < MaxNow
    /\ now' = now + 1
    /\ UNCHANGED <<user, tokens, pending, sessions, inbox, goods, tx>>

-----------------------------------------------------------------------------
(* Locks *)

\* Mutants: the account is read without FOR UPDATE by a token request; by a
\* deactivation.
UserLockers_NotIssue == {"promote", "deactivate"}
UserLockers_NotDeactivate == {"issue", "promote"}

\* FOR UPDATE on the account's row.
UserLockers == {"issue", "promote", "deactivate"}

\* A row that refers to the account is inserted under FOR KEY SHARE, which
\* waits for FOR UPDATE but not for the UPDATE of a password.
ReferableUser == \A c \in Conn : tx[c].pc \notin UserLockers

UserFree == ReferableUser /\ \A c \in Conn : tx[c].pc # "replace"

\* The transaction has consumed the token but not committed.
TokenLocked(t) ==
    \E c \in Conn : tx[c].token = t /\ tx[c].pc \in {"verify", "reset"}

Active(purposes) ==
    {t \in DOMAIN tokens : tokens[t].state = "active"
                           /\ tokens[t].purpose \in purposes}

GoodsLocked == \E c \in Conn : tx[c].pc = "order"

SameAccount(c) ==
    /\ ~user.deactivated
    /\ user.password = tx[c].seen.password
    /\ user.tokenVersion = tx[c].seen.tokenVersion

-----------------------------------------------------------------------------
(* Tokens *)

\* The WHERE clause of consume.
Consumable(t, purpose, time) ==
    /\ tokens[t].purpose = purpose
    /\ tokens[t].state = "active"
    /\ tokens[t].issuedAt + TokenTtl > time

\* UPDATE of the active tokens: it waits for those that are being consumed, and
\* account_tokens_lifecycle_check refuses a time before their creation.
CanInvalidate(purposes, time) ==
    \A t \in Active(purposes) : ~TokenLocked(t) /\ tokens[t].issuedAt <= time

invalidateActive(purposes) ==
    [t \in DOMAIN tokens |->
        IF t \in Active(purposes)
        THEN [tokens[t] EXCEPT !.state = "invalidated"] ELSE tokens[t]]

create(purpose, time, address) ==
    [purpose |-> purpose, emailVersion |-> user.emailVersion,
     issuedAt |-> time, state |-> "active", address |-> address]

Issued(purpose) == {t \in DOMAIN tokens : tokens[t].purpose = purpose}

MayIssue(purpose, time) ==
    /\ Cardinality({t \in Issued(purpose) :
                      tokens[t].issuedAt >= time - IssueWindow}) < IssueMax
    /\ \A t \in Issued(purpose) : tokens[t].issuedAt <= time - IssueCooldown

\* requestToken: anybody may ask, for the address the account has now.
requestToken(c, purpose) ==
    /\ Len(tokens) < MaxTokens
    /\ Start(c, [Idle EXCEPT !.pc = "request", !.purpose = purpose,
                             !.next = user.email, !.time = now])
    /\ UNCHANGED <<user, tokens, pending, sessions, inbox, goods, now>>

\* The row is found by its address, deactivated or not, and locked.
findForAccountSecurityForUpdate(c) ==
    /\ tx[c].pc = "request"
    /\ UserFree
    /\ user.email = tx[c].next
    /\ tx[c].purpose = "email_verification" => ~user.verified
    /\ MayIssue(tx[c].purpose, tx[c].time)
    /\ Continue(c, "issue")
    /\ UNCHANGED <<user, tokens, pending, sessions, inbox, goods, now>>

IssueToken(c) ==
    LET purpose == tx[c].purpose
    IN  /\ tx[c].pc = "issue"
        /\ Len(tokens) < MaxTokens
        /\ CanInvalidate({purpose}, tx[c].time)
        /\ tokens' = Append(invalidateActive({purpose}),
                            create(purpose, tx[c].time, user.email))
        /\ tx' = [tx EXCEPT ![c] = [Idle EXCEPT !.pc = "send",
                                                !.token = Len(tokens) + 1]]
        /\ UNCHANGED <<user, pending, sessions, inbox, goods, now>>

\* Sent after the commit, and never again.
dispatchAccountMessage(c) ==
    /\ tx[c].pc = "send"
    /\ inbox' = inbox \cup {tx[c].token}
    /\ Finish(c)
    /\ UNCHANGED <<user, tokens, pending, sessions, goods, now>>

\* confirmEmailVerification consumes the token and then marks the address.
confirmEmailVerification(c, t) ==
    /\ Consumable(t, "email_verification", now)
    /\ ~TokenLocked(t)
    /\ Start(c, [Idle EXCEPT !.pc = "verify", !.token = t])
    /\ UNCHANGED <<user, tokens, pending, sessions, inbox, goods, now>>

markEmailVerified(c) ==
    /\ tx[c].pc = "verify"
    /\ UserFree
    /\ user.emailVersion = tokens[tx[c].token].emailVersion
    /\ user' = [user EXCEPT !.verified = TRUE]
    /\ tokens' = [tokens EXCEPT ![tx[c].token].state = "consumed"]
    /\ Finish(c)
    /\ UNCHANGED <<pending, sessions, inbox, goods, now>>

\* confirmPasswordReset reads the account without a lock, ...
confirmPasswordReset(c, t, new) ==
    /\ tokens[t].purpose = "password_reset"
    /\ ~user.deactivated
    /\ user.tokenVersion < MaxVersion
    /\ Start(c, [Idle EXCEPT !.pc = "resetting", !.token = t, !.next = new,
                             !.time = now])
    /\ UNCHANGED <<user, tokens, pending, sessions, inbox, goods, now>>

\* ... consumes the token, ...
consumeReset(c) ==
    /\ tx[c].pc = "resetting"
    /\ Consumable(tx[c].token, "password_reset", tx[c].time)
    /\ ~TokenLocked(tx[c].token)
    /\ Continue(c, "reset")
    /\ UNCHANGED <<user, tokens, pending, sessions, inbox, goods, now>>

\* ... and replaces the password of whatever the row has become.
replacePasswordAndIncrementTokenVersion(c) ==
    /\ tx[c].pc = "reset"
    /\ UserFree
    /\ user.tokenVersion < MaxVersion
    /\ user' = [user EXCEPT !.password = tx[c].next, !.tokenVersion = @ + 1]
    /\ tokens' = [invalidateActive({"password_reset"})
                    EXCEPT ![tx[c].token].state = "consumed"]
    /\ sessions' = {}
    /\ Finish(c)
    /\ UNCHANGED <<pending, inbox, goods, now>>

-----------------------------------------------------------------------------
(* Change of address *)

requestEmailChange(c, email) ==
    /\ ~user.deactivated
    /\ email # user.email
    /\ Len(tokens) < MaxTokens
    /\ Start(c, BySnapshot("change", email))
    /\ UNCHANGED <<user, tokens, pending, sessions, inbox, goods, now>>

\* The same address is already waiting for its confirmation: nothing to do.
SamePending(c) ==
    /\ pending.email = tx[c].next
    /\ pending.emailVersion = user.emailVersion
    /\ pending.expiresAt > tx[c].time

savePendingEmailChange(c) ==
    /\ tx[c].pc = "change"
    /\ UserFree
    /\ SameAccount(c)
    /\ tx[c].next # user.email
    /\ ~SamePending(c)
    /\ Len(tokens) < MaxTokens
    /\ CanInvalidate({"email_change"}, tx[c].time)
    /\ pending' = [email |-> tx[c].next, emailVersion |-> user.emailVersion,
                   expiresAt |-> tx[c].time + TokenTtl]
    /\ tokens' = Append(invalidateActive({"email_change"}),
                        create("email_change", tx[c].time, tx[c].next))
    /\ tx' = [tx EXCEPT ![c] = [Idle EXCEPT !.pc = "send",
                                            !.token = Len(tokens) + 1]]
    /\ UNCHANGED <<user, sessions, inbox, goods, now>>

\* The row of the account, then the pending row, then the token.
confirmEmailChange(c, t) ==
    /\ UserFree
    /\ ~user.deactivated
    /\ user.tokenVersion < MaxVersion
    /\ pending # NoPending
    /\ pending.expiresAt > now
    /\ pending.emailVersion = tokens[t].emailVersion
    /\ user.emailVersion = tokens[t].emailVersion
    /\ Consumable(t, "email_change", now)
    /\ Start(c, [Idle EXCEPT !.pc = "promote", !.token = t, !.time = now])
    /\ UNCHANGED <<user, tokens, pending, sessions, inbox, goods, now>>

\* Mutant: reset tokens sent to the old address stay active.
ChangedPurposes_NotReset == {"email_verification", "email_change"}

ChangedPurposes == AccountTokenPurpose

\* An address that another account has taken by then is refused.
promoteAccountEmail(c) ==
    /\ tx[c].pc = "promote"
    /\ CanInvalidate(ChangedPurposes, tx[c].time)
    /\ user' = [user EXCEPT !.email = pending.email, !.emailVersion = @ + 1,
                            !.verified = TRUE, !.tokenVersion = @ + 1]
    /\ tokens' = [invalidateActive(ChangedPurposes)
                    EXCEPT ![tx[c].token].state = "consumed"]
    /\ pending' = NoPending
    /\ sessions' = {}
    /\ Finish(c)
    /\ UNCHANGED <<inbox, goods, now>>

-----------------------------------------------------------------------------
(* Login and password change *)

findForAuthentication(c) ==
    /\ ~user.deactivated
    /\ Cardinality(sessions) < MaxSessions
    /\ Start(c, [Idle EXCEPT !.pc = "login", !.seen = TakeSnapshot])
    /\ UNCHANGED <<user, tokens, pending, sessions, inbox, goods, now>>

\* Mutant: the version is the one the row has by now.
createSession_FreshVersion(c) ==
    /\ tx[c].pc = "login"
    /\ ReferableUser
    /\ sessions' = sessions \cup {[version |-> user.tokenVersion,
          password |-> tx[c].seen.password, email |-> tx[c].seen.email]}
    /\ Finish(c)
    /\ UNCHANGED <<user, tokens, pending, inbox, goods, now>>

createSession(c) ==
    /\ tx[c].pc = "login"
    /\ ReferableUser
    /\ sessions' = sessions \cup {[version |-> tx[c].seen.tokenVersion,
          password |-> tx[c].seen.password, email |-> tx[c].seen.email]}
    /\ Finish(c)
    /\ UNCHANGED <<user, tokens, pending, inbox, goods, now>>

changePassword(c, new) ==
    /\ ~user.deactivated
    /\ new # user.password
    /\ user.tokenVersion < MaxVersion
    /\ Start(c, BySnapshot("replacing", new))
    /\ UNCHANGED <<user, tokens, pending, sessions, inbox, goods, now>>

replaceAccountPassword(c) ==
    /\ tx[c].pc = "replacing"
    /\ UserFree
    /\ SameAccount(c)
    /\ Continue(c, "replace")
    /\ UNCHANGED <<user, tokens, pending, sessions, inbox, goods, now>>

CommitPassword(c) ==
    /\ tx[c].pc = "replace"
    /\ CanInvalidate({"password_reset"}, tx[c].time)
    /\ user' = [user EXCEPT !.password = tx[c].next, !.tokenVersion = @ + 1]
    /\ tokens' = invalidateActive({"password_reset"})
    /\ sessions' = {}
    /\ Finish(c)
    /\ UNCHANGED <<pending, inbox, goods, now>>

-----------------------------------------------------------------------------
(* Deactivation, and what other requests do to the account's goods *)

deactivateAccount(c) ==
    /\ ~user.deactivated
    /\ user.tokenVersion < MaxVersion
    /\ Start(c, BySnapshot("deactivating", None))
    /\ UNCHANGED <<user, tokens, pending, sessions, inbox, goods, now>>

hasActiveOrders(c) ==
    /\ tx[c].pc = "deactivating"
    /\ UserFree
    /\ SameAccount(c)
    /\ ~ordered
    /\ Continue(c, "deactivate")
    /\ UNCHANGED <<user, tokens, pending, sessions, inbox, goods, now>>

\* Mutant: reset tokens stay active.
RetiredPurposes_NotReset == {"email_verification", "email_change"}

RetiredPurposes == AccountTokenPurpose

\* Archiving the listing and deleting the cart wait for a checkout's locks.
CommitDeactivation(c) ==
    /\ tx[c].pc = "deactivate"
    /\ CanInvalidate(RetiredPurposes, tx[c].time)
    /\ ~GoodsLocked
    /\ user' = [user EXCEPT !.deactivated = TRUE, !.password = None,
                            !.tokenVersion = @ + 1]
    /\ tokens' = invalidateActive(RetiredPurposes)
    /\ pending' = NoPending
    /\ sessions' = {}
    /\ listing' = "archived"
    /\ Finish(c)
    /\ UNCHANGED <<inbox, ordered, now>>

\* A checkout of the account's cart, which a deactivation deletes, or of its
\* listing locks that row, ...
findForCheckout(c) ==
    /\ ~user.deactivated \/ listing = "active"
    /\ ~GoodsLocked
    /\ Start(c, [Idle EXCEPT !.pc = "order"])
    /\ UNCHANGED <<user, tokens, pending, sessions, inbox, goods, now>>

\* ... and inserts an order, or an order line, that refers to the account.
createPlaced(c) ==
    /\ tx[c].pc = "order"
    /\ ReferableUser
    /\ ordered' = TRUE
    /\ Finish(c)
    /\ UNCHANGED <<user, tokens, pending, sessions, inbox, listing,
                   now>>

\* The order is delivered or cancelled.
EndOrder ==
    /\ ordered
    /\ ordered' = FALSE
    /\ UNCHANGED <<user, tokens, pending, sessions, inbox, listing, now, tx>>

\* updateProductStatus: the product is read without a lock, ...
ownedProduct(c) ==
    /\ ~user.deactivated
    /\ Start(c, [Idle EXCEPT !.pc = "relist"])
    /\ UNCHANGED <<user, tokens, pending, sessions, inbox, goods, now>>

\* ... and written unconditionally.
updateProductStatus(c) ==
    /\ tx[c].pc = "relist"
    /\ ~GoodsLocked
    /\ listing' = "active"
    /\ Finish(c)
    /\ UNCHANGED <<user, tokens, pending, sessions, inbox, ordered, now>>

-----------------------------------------------------------------------------

TokenNext ==
    \E c \in Conn :
        \/ \E purpose \in Mailed : requestToken(c, purpose)
        \/ findForAccountSecurityForUpdate(c)
        \/ IssueToken(c)
        \/ dispatchAccountMessage(c)
        \/ \E t \in inbox : confirmEmailVerification(c, t)
        \/ markEmailVerified(c)
        \/ \E t \in inbox, new \in Password : confirmPasswordReset(c, t, new)
        \/ consumeReset(c)
        \/ replacePasswordAndIncrementTokenVersion(c)

EmailNext ==
    \E c \in Conn :
        \/ \E email \in Email : requestEmailChange(c, email)
        \/ savePendingEmailChange(c)
        \/ \E t \in inbox : confirmEmailChange(c, t)
        \/ promoteAccountEmail(c)

PasswordNext ==
    \E c \in Conn :
        \/ findForAuthentication(c)
        \/ createSession(c)
        \/ \E new \in Password : changePassword(c, new)
        \/ replaceAccountPassword(c)
        \/ CommitPassword(c)

LifecycleNext ==
    \/ \E c \in Conn :
          \/ deactivateAccount(c)
          \/ hasActiveOrders(c)
          \/ CommitDeactivation(c)
          \/ findForCheckout(c)
          \/ createPlaced(c)
          \/ ownedProduct(c)
          \/ updateProductStatus(c)
    \/ EndOrder

Next ==
    \/ Tick
    \/ \E c \in Conn : Abort(c)
    \/ TokenNext
    \/ EmailNext
    \/ PasswordNext
    \/ LifecycleNext

Spec == Init /\ [][Next]_vars

-----------------------------------------------------------------------------
(* Properties *)

\* Types of the rows, the mailbox and the requests in progress.
TypeOK ==
    /\ user \in UserRow
    /\ tokens \in Seq(Token)
    /\ pending \in PendingRow
    /\ sessions \subseteq SessionRow
    /\ inbox \subseteq DOMAIN tokens
    /\ listing \in {"active", "archived"}
    /\ ordered \in BOOLEAN
    /\ now \in Nat
    /\ tx \in [Conn -> Tx]

\* No insert of a token collides with account_tokens_active_key, however many
\* requests for a purpose run at once and whichever messages were lost
\* (accountSecurityService.ts lines 73-126, emailChangeService.ts 103-183).
OneActiveToken ==
    \A purpose \in AccountTokenPurpose : \A t, u \in Active({purpose}) : t = u

\* A mailbox is not flooded: whatever clock readings concurrent requests carry,
\* mailed tokens of a purpose keep the cooldown and no window sees more of them
\* than IssueMax (accountSecurityService.ts lines 81-95).
IssuesLimited ==
    \A purpose \in Mailed : \A t \in Issued(purpose) :
        /\ \A u \in Issued(purpose) :
              t < u => tokens[u].issuedAt >= tokens[t].issuedAt + IssueCooldown
        /\ Cardinality({u \in Issued(purpose) :
              /\ tokens[u].issuedAt >= tokens[t].issuedAt
              /\ tokens[u].issuedAt <= tokens[t].issuedAt + IssueWindow})
             <= IssueMax

\* What a token does to the account, its holder may do: it is consumed once,
\* while it is active, and it was sent to the address the account has after the
\* step, for a reset, a verification and a change of address alike (ADR 0004
\* and 0005), whatever requests replaced the pending address meanwhile.
TokensProveAddress ==
    [][\A t \in DOMAIN tokens :
          tokens'[t].state = "consumed" /\ tokens[t].state # "consumed"
            => tokens[t].state = "active" /\ tokens[t].address = user'.email]_vars

\* A session that the account's version still accepts was opened with the
\* password and the address the account has: a login that overlaps a reset, a
\* change of password or address, or a deactivation opens nothing.
CurrentSessionsProved ==
    \A s \in sessions : s.version = user.tokenVersion =>
        s.password = user.password /\ s.email = user.email

\* Deactivation is terminal: no request that was let in before it, and no token
\* sent before it, gives the account a password, an address, a version or a
\* pending change again (ADR 0005, "Soft deactivation").
DeactivatedForGood ==
    [][user.deactivated =>
          /\ user' = [user EXCEPT !.verified = user'.verified]
          /\ pending' = NoPending]_vars

\* No order is committed between the check for active orders and the commit of
\* a deactivation: a checkout that has not inserted its order waits for the
\* account's row, and one that has kept the check waiting
\* (accountDeactivationService.ts lines 70-110).
DeactivatesWithoutOrders ==
    [][~user.deactivated /\ user'.deactivated => ~ordered]_vars

\* The inductive invariant behind the properties above. One request at a time
\* is past a lock on the account's row, and one past the consumption of a
\* token; what such a request goes on with stays true until it commits; an
\* active token is for the address it would act on; and a login knows the
\* account if the version it read is still the account's.
Writers == UserLockers \cup {"replace"}
OneWriter ==
    /\ \A c, d \in Conn : tx[c].pc \in Writers /\ tx[d].pc \in Writers => c = d
    /\ \A c, d \in Conn : /\ tx[c].pc \in {"verify", "reset"}
                         /\ tx[d].pc \in {"verify", "reset"}
                         /\ tx[c].token = tx[d].token => c = d

HoldsToken(c, purpose) ==
    /\ tx[c].token \in DOMAIN tokens
    /\ tokens[tx[c].token].state = "active"
    /\ tokens[tx[c].token].purpose = purpose
RequestOK(c) ==
    /\ tx[c].pc \in {"request", "issue"} => tx[c].purpose \in Mailed
    /\ tx[c].pc \in {"login", "change", "replacing", "deactivating"}
          => tx[c].seen \in Snapshot
    /\ tx[c].pc = "change" => tx[c].next \in Email
    /\ tx[c].pc \in {"resetting", "reset", "replacing", "replace"}
          => tx[c].next \in Password
    /\ tx[c].pc \in {"send", "resetting"} => tx[c].token \in DOMAIN tokens
    /\ tx[c].pc = "verify" => HoldsToken(c, "email_verification")
    /\ tx[c].pc = "reset" => HoldsToken(c, "password_reset")
    /\ tx[c].pc = "promote" => HoldsToken(c, "email_change")
    /\ tx[c].pc = "login" => tx[c].seen.password \in Password
    /\ tx[c].pc = "deactivate" => ~ordered
    /\ user.deactivated =>
          /\ tx[c].pc \notin {"reset", "promote", "replace", "deactivate"}
          /\ tx[c].pc = "resetting" => tokens[tx[c].token].state # "active"

TokensFit ==
    /\ \A t \in Active(Mailed) : tokens[t].address = user.email
    /\ \A t \in Active({"email_change"}) : tokens[t].address = pending.email

\* What was known of the account at a version says what the account is, as long
\* as it has that version.
KnownAt(version, password, email) ==
    /\ version <= user.tokenVersion
    /\ version = user.tokenVersion =>
          password = user.password /\ email = user.email
LoginsKnow ==
    \A c \in Conn : tx[c].pc = "login" =>
        KnownAt(tx[c].seen.tokenVersion, tx[c].seen.password, tx[c].seen.email)
SessionsKnow == \A s \in sessions : KnownAt(s.version, s.password, s.email)

AccountInv ==
    /\ TypeOK
    /\ OneWriter
    /\ \A c \in Conn : RequestOK(c)
    /\ OneActiveToken
    /\ TokensFit
    /\ LoginsKnow
    /\ SessionsKnow
    /\ CurrentSessionsProved
    /\ user.deactivated => pending = NoPending
    /\ ~user.deactivated => user.password \in Password

-----------------------------------------------------------------------------
(* What documents say and the code does not do *)

\* ADR 0005: deactivation "archives every seller listing", and a "request
\* authenticated immediately before a concurrent deactivation [...] cannot
\* commit against stale account state".
DeactivatedSellsNothing == user.deactivated => listing = "archived"
=============================================================================
