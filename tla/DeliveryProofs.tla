--------------------------- MODULE DeliveryProofs ----------------------------
(***************************************************************************)
(* Theorems of Delivery for every set of connections and addresses and      *)
(* every bound. That two rows are never the default follows from the unique *)
(* index alone; that only a deletion leaves none needs the row locks: an    *)
(* edit that keeps its row no default holds the row, so that nobody makes   *)
(* it the default meanwhile.                                                *)
(***************************************************************************)
EXTENDS Delivery, TLAPS

\* What a request has locked exists, and an edit or a deletion that got past
\* its lock still holds it. A request that leaves its row no default has taken
\* the mark from no other row.
RequestOK(c) ==
    /\ tx[c].locked \subseteq Saved
    /\ tx[c].pc \in {"lock", "locked", "promote"} =>
          tx[c].operation \in {"update", "delete"}
    /\ tx[c].pc = "count" => tx[c].operation = "create"
    /\ tx[c].operation \in {"update", "delete"} => tx[c].address \in Address
    /\ tx[c].pc \in {"locked", "promote"} => tx[c].address \in tx[c].locked
    /\ tx[c].operation = "update" /\ tx[c].pc \in {"unset", "write"} =>
          tx[c].address \in tx[c].locked
    /\ ~tx[c].isDefault =>
          /\ tx[c].pc \notin {"unset", "promote"}
          /\ tx[c].unset = {}
          /\ tx[c].operation = "update" /\ tx[c].pc = "write" =>
                tx[c].address \notin defaults

\* No two requests hold one row.
LocksApart ==
    \A c, d \in Conn : c # d => tx[c].locked \cap tx[d].locked = {}

\* The inductive invariant.
DeliveryInv ==
    /\ TypeOK
    /\ OneDefault
    /\ \A c \in Conn : RequestOK(c)
    /\ LocksApart

LEMMA IdleOK ==
    /\ Idle \in Tx
    /\ Idle.pc = "idle" /\ Idle.operation = "none" /\ Idle.locked = {}
    /\ Idle.unset = {} /\ Idle.isDefault = FALSE
  BY DEF Idle, Tx

LEMMA InitInv == Init => DeliveryInv
  <1> SUFFICES ASSUME Init PROVE DeliveryInv
    OBVIOUS
  <1>1. \A c \in Conn : tx[c] = Idle
    BY DEF Init
  <1>2. TypeOK
    BY IdleOK DEF Init, TypeOK
  <1>3. \A c \in Conn : RequestOK(c)
    BY <1>1, IdleOK DEF RequestOK
  <1>4. OneDefault /\ LocksApart
    BY <1>1, IdleOK DEF Init, OneDefault, LocksApart
  <1> QED
    BY <1>2, <1>3, <1>4 DEF DeliveryInv

\* The rows a commit leaves: nobody else's lock is on a row that went or on a
\* row that became the default.
Quiet(c) ==
    /\ \A d \in Conn \ {c} : tx[d].locked \subseteq Saved'
    /\ \A d \in Conn \ {c} : tx[d].locked \cap (defaults' \ defaults) = {}

\* A request that ended in a quiet commit keeps the invariant.
LEMMA CommitKeeps ==
    ASSUME DeliveryInv, NEW c \in Conn, Finish(c), Quiet(c),
           updatedAt' \in [Address -> Nat], now' \in Nat,
           defaults' \subseteq Saved', \A a, b \in defaults' : a = b
    PROVE  DeliveryInv'
  <1>1. tx' = [tx EXCEPT ![c] = Idle] /\ tx \in [Conn -> Tx] /\ contended' = contended
    BY DEF Finish, DeliveryInv, TypeOK
  <1>2. tx'[c] = Idle /\ \A d \in Conn \ {c} : tx'[d] = tx[d]
    BY <1>1
  <1>3. TypeOK'
    BY <1>1, IdleOK DEF DeliveryInv, TypeOK
  <1>4. LocksApart'
    BY <1>2, IdleOK DEF DeliveryInv, LocksApart
  <1>5. RequestOK(c)'
    BY <1>2, IdleOK DEF RequestOK
  <1>6. ASSUME NEW d \in Conn \ {c} PROVE RequestOK(d)'
    <2>1. RequestOK(d) /\ tx'[d] = tx[d]
      BY <1>2 DEF DeliveryInv
    <2>2. tx[d].locked \subseteq Saved' /\ tx[d].locked \cap (defaults' \ defaults) = {}
      BY DEF Quiet
    <2> QED
      BY <2>1, <2>2 DEF RequestOK
  <1> QED
    BY <1>3, <1>4, <1>5, <1>6 DEF DeliveryInv, OneDefault

\* A request that moves on without changing rows keeps the invariant if its own
\* part of it holds and nobody else holds what it locked.
LEMMA MoveKeeps ==
    ASSUME DeliveryInv, UNCHANGED rows, contended' \in BOOLEAN,
           NEW c \in Conn, NEW t \in Tx, tx' = [tx EXCEPT ![c] = t],
           RequestOK(c)',
           \A a \in t.locked : a \in tx[c].locked \/ Free(c, a)
    PROVE  DeliveryInv'
  <1>1. tx \in [Conn -> Tx]
    BY DEF DeliveryInv, TypeOK
  <1>2. tx'[c] = t /\ \A d \in Conn \ {c} : tx'[d] = tx[d]
    BY <1>1
  <1>3. TypeOK'
    BY <1>1 DEF DeliveryInv, TypeOK, rows, Saved
  <1>4. LocksApart'
    BY <1>2 DEF DeliveryInv, LocksApart, Free
  <1>5. ASSUME NEW d \in Conn \ {c} PROVE RequestOK(d)'
    BY <1>2 DEF DeliveryInv, RequestOK, rows, Saved
  <1> QED
    BY <1>3, <1>4, <1>5 DEF DeliveryInv, OneDefault, rows

-----------------------------------------------------------------------------
(* Requests that move on *)

LEMMA StartKeeps ==
    ASSUME DeliveryInv, NEW c \in Conn, NEW pc \in {"unset", "count", "lock"},
           NEW operation \in {"create", "update", "delete"},
           NEW a \in Address \cup {None}, NEW isDefault \in BOOLEAN,
           Start(c, pc, operation, a, isDefault),
           pc = "lock" => operation # "create" /\ a \in Address,
           operation # "create" => pc = "lock",
           pc = "unset" => isDefault
    PROVE  DeliveryInv'
  <1> DEFINE t == [Idle EXCEPT !.pc = pc, !.operation = operation, !.address = a,
                               !.isDefault = isDefault]
  <1>1. t \in Tx
    BY IdleOK DEF Idle, Tx
  <1>2. t.pc = pc /\ t.operation = operation /\ t.address = a
        /\ t.isDefault = isDefault /\ t.locked = {} /\ t.unset = {}
    BY DEF Idle
  <1>3. tx' = [tx EXCEPT ![c] = t] /\ UNCHANGED rows /\ contended' \in BOOLEAN
    BY DEF Start, DeliveryInv, TypeOK, Overlaps
  <1>4. tx'[c] = t
    BY <1>3 DEF DeliveryInv, TypeOK
  <1>5. RequestOK(c)'
    BY <1>2, <1>4 DEF RequestOK
  <1> HIDE DEF t
  <1> QED
    BY <1>1, <1>2, <1>3, <1>5, MoveKeeps

LEMMA RequestKeeps ==
    ASSUME DeliveryInv, NEW c \in Conn, Request(c) PROVE DeliveryInv'
  <1>1. CASE \E isDefault \in BOOLEAN :
               Start(c, IF isDefault THEN "unset" ELSE "count", "create", None,
                     isDefault)
    <2>1. PICK isDefault \in BOOLEAN :
               Start(c, IF isDefault THEN "unset" ELSE "count", "create", None,
                     isDefault)
      BY <1>1
    <2>2. (IF isDefault THEN "unset" ELSE "count") \in {"unset", "count", "lock"}
      OBVIOUS
    <2>3. (IF isDefault THEN "unset" ELSE "count") = "unset" => isDefault
      OBVIOUS
    <2>4. (IF isDefault THEN "unset" ELSE "count") # "lock"
      OBVIOUS
    <2> QED
      BY <2>1, <2>2, <2>3, <2>4, StartKeeps
  <1>2. CASE \E a \in Saved, isDefault \in BOOLEAN :
               Start(c, "lock", "update", a, isDefault)
    BY <1>2, StartKeeps DEF Saved
  <1>3. CASE \E a \in Saved : Start(c, "lock", "delete", a, FALSE)
    BY <1>3, StartKeeps DEF Saved
  <1> QED
    BY <1>1, <1>2, <1>3 DEF Request

LEMMA CountKeeps ==
    ASSUME DeliveryInv, NEW c \in Conn, count(c) PROVE DeliveryInv'
  <1> DEFINE isDefault == tx[c].isDefault \/ Saved = {}
             t == [tx[c] EXCEPT !.pc = AfterCurrent(isDefault), !.isDefault = isDefault]
  <1>1. tx \in [Conn -> Tx] /\ tx[c] \in Tx /\ RequestOK(c) /\ contended \in BOOLEAN
    BY DEF DeliveryInv, TypeOK
  <1>2. AfterCurrent(isDefault) = IF isDefault THEN "unset" ELSE "write"
    BY DEF AfterCurrent
  <1>3. t \in Tx
    BY <1>1, <1>2 DEF Tx
  <1>4. tx' = [tx EXCEPT ![c] = t] /\ UNCHANGED rows /\ contended' = contended
    BY <1>1 DEF count
  <1>5. tx'[c] = t /\ tx[c].pc = "count"
    BY <1>1, <1>4 DEF count
  <1>6. t.pc = AfterCurrent(isDefault) /\ t.isDefault = isDefault
        /\ t.operation = tx[c].operation /\ t.address = tx[c].address
        /\ t.locked = tx[c].locked /\ t.unset = tx[c].unset
    BY <1>1 DEF Tx
  <1>7. RequestOK(c)'
    <2>1. Saved' = Saved /\ defaults' = defaults
      BY <1>4 DEF rows, Saved
    <2>2. tx[c].operation # "update"
      BY <1>1, <1>5 DEF RequestOK
    <2> QED
      BY <1>1, <1>2, <1>5, <1>6, <2>1, <2>2 DEF RequestOK
  <1> HIDE DEF t
  <1> QED
    BY <1>1, <1>3, <1>4, <1>6, <1>7, MoveKeeps


LEMMA FindByIdKeeps ==
    ASSUME DeliveryInv, NEW c \in Conn, findByIdForUpdate(c) PROVE DeliveryInv'
  <1> DEFINE a == tx[c].address
             isDefault == tx[c].isDefault \/ a \in defaults
             pc == IF tx[c].operation = "delete" THEN "locked"
                   ELSE AfterCurrent(tx[c].isDefault)
             t == [tx[c] EXCEPT !.pc = pc, !.isDefault = isDefault, !.locked = {a}]
  <1>1. tx \in [Conn -> Tx] /\ tx[c] \in Tx /\ RequestOK(c) /\ contended \in BOOLEAN
    BY DEF DeliveryInv, TypeOK
  <1>2. /\ tx[c].pc = "lock" /\ a \in Saved /\ Free(c, a)
        /\ UNCHANGED rows /\ contended' = contended
    BY DEF findByIdForUpdate
  <1>3. pc \in {"locked", "unset", "write"} /\ a \in Address
    BY <1>2 DEF AfterCurrent, Saved
  <1>4. t \in Tx
    BY <1>1, <1>3 DEF Tx
  <1>5. tx' = [tx EXCEPT ![c] = t]
    BY <1>1 DEF findByIdForUpdate
  <1>6. tx'[c] = t
    BY <1>1, <1>5
  <1>7. t.pc = pc /\ t.isDefault = isDefault /\ t.operation = tx[c].operation
        /\ t.address = a /\ t.locked = {a} /\ t.unset = tx[c].unset
    BY <1>1 DEF Tx
  <1>8. RequestOK(c)'
    <2>1. Saved' = Saved /\ defaults' = defaults
      BY <1>2 DEF rows, Saved
    <2>2. tx[c].operation \in {"update", "delete"}
      BY <1>1, <1>2 DEF RequestOK
    <2>3. pc = "locked" <=> tx[c].operation = "delete"
      BY DEF AfterCurrent
    <2>4. pc = "unset" => isDefault
      BY <2>3 DEF AfterCurrent
    <2> QED
      BY <1>1, <1>2, <1>3, <1>6, <1>7, <2>1, <2>2, <2>3, <2>4 DEF RequestOK
  <1> HIDE DEF t
  <1> QED
    BY <1>1, <1>2, <1>4, <1>5, <1>7, <1>8, MoveKeeps

LEMMA FindDefaultKeeps ==
    ASSUME DeliveryInv, NEW c \in Conn, findDefault(c) PROVE DeliveryInv'
  <1> DEFINE found == CHOOSE a \in defaults : TRUE
             t == IF defaults = {} THEN [tx[c] EXCEPT !.pc = "write"]
                  ELSE [tx[c] EXCEPT !.target = found]
  <1>1. tx \in [Conn -> Tx] /\ tx[c] \in Tx /\ RequestOK(c) /\ contended \in BOOLEAN
    BY DEF DeliveryInv, TypeOK
  <1>2. tx[c].pc = "unset" /\ UNCHANGED rows /\ contended' = contended
    BY DEF findDefault
  <1>3. defaults # {} => found \in Address
    BY DEF DeliveryInv, TypeOK, Saved
  <1>4. t \in Tx
    BY <1>1, <1>3 DEF Tx
  <1>5. tx' = [tx EXCEPT ![c] = t]
    BY <1>1 DEF findDefault
  <1>6. tx'[c] = t
    BY <1>1, <1>5
  <1>7. t.pc \in {"unset", "write"} /\ t.isDefault = tx[c].isDefault
        /\ t.operation = tx[c].operation /\ t.address = tx[c].address
        /\ t.locked = tx[c].locked /\ t.unset = tx[c].unset
    BY <1>1, <1>2 DEF Tx
  <1>8. RequestOK(c)'
    <2>1. Saved' = Saved /\ defaults' = defaults
      BY <1>2 DEF rows, Saved
    <2> QED
      BY <1>1, <1>2, <1>6, <1>7, <2>1 DEF RequestOK
  <1> HIDE DEF t
  <1> QED
    BY <1>1, <1>2, <1>4, <1>5, <1>7, <1>8, MoveKeeps

LEMMA UnsetKeeps ==
    ASSUME DeliveryInv, NEW c \in Conn, unsetDefault(c) PROVE DeliveryInv'
  <1> DEFINE a == tx[c].target
             locked == IF a \in Saved THEN tx[c].locked \cup {a} ELSE tx[c].locked
             unset == IF a \in defaults THEN {a} ELSE {}
             t == [tx[c] EXCEPT !.pc = "write", !.locked = locked, !.unset = unset]
  <1>1. tx \in [Conn -> Tx] /\ tx[c] \in Tx /\ RequestOK(c) /\ contended \in BOOLEAN
    BY DEF DeliveryInv, TypeOK
  <1>2. tx[c].pc = "unset" /\ Free(c, a) /\ UNCHANGED rows /\ contended' = contended
    BY DEF unsetDefault
  <1>3. locked \subseteq Address /\ unset \subseteq Address
    BY <1>1 DEF Tx, Saved, DeliveryInv, TypeOK
  <1>4. t \in Tx
    BY <1>1, <1>3 DEF Tx
  <1>5. tx' = [tx EXCEPT ![c] = t]
    BY <1>1 DEF unsetDefault
  <1>6. tx'[c] = t
    BY <1>1, <1>5
  <1>7. t.pc = "write" /\ t.isDefault = tx[c].isDefault
        /\ t.operation = tx[c].operation /\ t.address = tx[c].address
        /\ t.locked = locked /\ t.unset = unset
    BY <1>1 DEF Tx
  <1>8. RequestOK(c)'
    <2>1. Saved' = Saved /\ defaults' = defaults
      BY <1>2 DEF rows, Saved
    <2>2. tx[c].isDefault /\ tx[c].locked \subseteq locked /\ locked \subseteq Saved
      BY <1>1, <1>2 DEF RequestOK
    <2> QED
      BY <1>1, <1>2, <1>6, <1>7, <2>1, <2>2 DEF RequestOK
  <1>9. \A b \in t.locked : b \in tx[c].locked \/ Free(c, b)
    BY <1>2, <1>7
  <1> HIDE DEF t
  <1> QED
    BY <1>1, <1>2, <1>4, <1>5, <1>8, <1>9, MoveKeeps

LEMMA SelectKeeps ==
    ASSUME DeliveryInv, NEW c \in Conn, selectMostRecent(c) PROVE DeliveryInv'
  <1>1. tx \in [Conn -> Tx] /\ tx[c] \in Tx /\ RequestOK(c) /\ contended \in BOOLEAN
    BY DEF DeliveryInv, TypeOK
  <1>2. PICK replacement \in (Saved \ {tx[c].address}) \cup {None} :
          tx' = [tx EXCEPT ![c].pc = "promote", ![c].target = replacement]
    BY DEF selectMostRecent
  <1> DEFINE t == [tx[c] EXCEPT !.pc = "promote", !.target = replacement]
  <1>3. tx[c].pc = "locked" /\ tx[c].isDefault /\ UNCHANGED rows
        /\ contended' = contended
    BY DEF selectMostRecent
  <1>4. t \in Tx
    BY <1>1 DEF Tx, Saved
  <1>5. tx' = [tx EXCEPT ![c] = t]
    BY <1>1, <1>2
  <1>6. tx'[c] = t
    BY <1>1, <1>5
  <1>7. t.pc = "promote" /\ t.isDefault = tx[c].isDefault
        /\ t.operation = tx[c].operation /\ t.address = tx[c].address
        /\ t.locked = tx[c].locked /\ t.unset = tx[c].unset
    BY <1>1 DEF Tx
  <1>8. RequestOK(c)'
    <2>1. Saved' = Saved /\ defaults' = defaults
      BY <1>3 DEF rows, Saved
    <2> QED
      BY <1>1, <1>3, <1>6, <1>7, <2>1 DEF RequestOK
  <1> HIDE DEF t
  <1> QED
    BY <1>1, <1>3, <1>4, <1>5, <1>7, <1>8, MoveKeeps

-----------------------------------------------------------------------------
(* Commits *)

\* Written as default, a row is the only one; written otherwise, no row becomes
\* a default.
LEMMA DefaultsAfterWrite ==
    ASSUME DeliveryInv, NEW c \in Conn, NEW a \in Address, MayWriteDefault(c, a)
    PROVE  /\ tx[c].isDefault => DefaultsAfter(c, a) = {a}
           /\ ~tx[c].isDefault => DefaultsAfter(c, a) = defaults \ (tx[c].unset \cup {a})
  BY DEF MayWriteDefault, DefaultIndexFree, DefaultsAfter

\* A write of a row that nobody else holds is a quiet commit.
LEMMA WriteKeeps ==
    ASSUME DeliveryInv, NEW c \in Conn, NEW a \in Address, MayWriteDefault(c, a),
           Write(a), defaults' = DefaultsAfter(c, a), Finish(c),
           \A d \in Conn \ {c} : a \notin tx[d].locked
    PROVE  DeliveryInv'
  <1>1. updatedAt \in [Address -> Nat] /\ now \in Nat /\ defaults \subseteq Saved
        /\ \A b, e \in defaults : b = e
    BY DEF DeliveryInv, TypeOK, OneDefault
  <1>2. updatedAt' = [updatedAt EXCEPT ![a] = now + 1] /\ now' = now + 1
    BY DEF Write
  <1>3. updatedAt' \in [Address -> Nat] /\ now' \in Nat /\ now + 1 # 0
    BY <1>1, <1>2
  <1>4. Saved' = Saved \cup {a}
    BY <1>1, <1>2, <1>3 DEF Saved
  <1>5. defaults' = {a} \/ defaults' \subseteq defaults
    BY DefaultsAfterWrite
  <1>6. defaults' \subseteq Saved' /\ \A b, e \in defaults' : b = e
    BY <1>1, <1>4, <1>5
  <1>7. \A d \in Conn : tx[d].locked \subseteq Saved
    BY DEF DeliveryInv, RequestOK
  <1>8. Quiet(c)
    BY <1>4, <1>5, <1>7 DEF Quiet
  <1> QED
    BY <1>3, <1>6, <1>8, CommitKeeps

LEMMA CreateKeeps ==
    ASSUME DeliveryInv, NEW c \in Conn, create(c) PROVE DeliveryInv'
  <1>1. PICK a \in Address \ Saved :
          /\ MayWriteDefault(c, a)
          /\ Write(a)
          /\ defaults' = DefaultsAfter(c, a)
          /\ Finish(c)
    BY DEF create
  <1>2. \A d \in Conn : a \notin tx[d].locked
    BY DEF DeliveryInv, RequestOK
  <1> QED
    BY <1>1, <1>2, WriteKeeps

LEMMA UpdateKeeps ==
    ASSUME DeliveryInv, NEW c \in Conn, update(c) PROVE DeliveryInv'
  <1>1. /\ tx[c].address \in Address
        /\ tx[c].address \in tx[c].locked
    BY DEF update, DeliveryInv, RequestOK
  <1>2. \A d \in Conn \ {c} : tx[c].address \notin tx[d].locked
    BY <1>1 DEF DeliveryInv, LocksApart
  <1> QED
    BY <1>1, <1>2, WriteKeeps DEF update

\* A deleted row was held by the request alone.
LEMMA DeleteQuiet ==
    ASSUME DeliveryInv, NEW c \in Conn, tx[c].address \in tx[c].locked
    PROVE  /\ tx[c].address \in Saved
           /\ \A d \in Conn \ {c} : tx[d].locked \subseteq Saved \ {tx[c].address}
  BY DEF DeliveryInv, RequestOK, LocksApart

LEMMA DeleteKeeps ==
    ASSUME DeliveryInv, NEW c \in Conn, delete(c) PROVE DeliveryInv'
  <1> DEFINE a == tx[c].address
  <1>1. a \in tx[c].locked /\ updatedAt \in [Address -> Nat] /\ now \in Nat
        /\ defaults \subseteq Saved /\ \A b, e \in defaults : b = e
    BY DEF delete, DeliveryInv, RequestOK, TypeOK, OneDefault
  <1>2. updatedAt' = [updatedAt EXCEPT ![a] = 0] /\ defaults' = defaults \ {a}
        /\ now' = now /\ Finish(c)
    BY DEF delete
  <1>3. Saved' = Saved \ {a} /\ updatedAt' \in [Address -> Nat]
    BY <1>1, <1>2 DEF Saved
  <1>4. Quiet(c)
    BY <1>1, <1>2, <1>3, DeleteQuiet DEF Quiet
  <1> QED
    BY <1>1, <1>2, <1>3, <1>4, CommitKeeps

LEMMA PromoteKeeps ==
    ASSUME DeliveryInv, NEW c \in Conn, promoteMostRecent(c) PROVE DeliveryInv'
  <1> DEFINE a == tx[c].address
             replacement == tx[c].target
  <1>1. a \in tx[c].locked /\ updatedAt \in [Address -> Nat] /\ now \in Nat
        /\ defaults \subseteq Saved /\ \A b, e \in defaults : b = e
    BY DEF promoteMostRecent, DeliveryInv, RequestOK, TypeOK, OneDefault
  <1>2. Free(c, replacement) /\ Finish(c)
    BY DEF promoteMostRecent
  <1>3. CASE /\ replacement \in Saved
             /\ now' = now + 1
             /\ updatedAt' = [updatedAt EXCEPT ![a] = 0, ![replacement] = now + 1]
             /\ defaults' = {replacement}
    <2>1. now + 1 \in Nat /\ now + 1 # 0 /\ replacement \in Address
      BY <1>1, <1>3 DEF Saved
    <2>2. updatedAt' \in [Address -> Nat] /\ now' \in Nat
      BY <1>1, <1>3, <2>1
    <2>3. Saved' = (Saved \ {a}) \cup {replacement}
      BY <1>1, <1>3, <2>1 DEF Saved
    <2>4. Quiet(c)
      BY <1>1, <1>2, <1>3, <2>3, DeleteQuiet DEF Quiet, Free
    <2> QED
      BY <1>2, <1>3, <2>2, <2>3, <2>4, CommitKeeps
  <1>4. CASE /\ updatedAt' = [updatedAt EXCEPT ![a] = 0]
             /\ defaults' = defaults \ {a}
             /\ UNCHANGED now
    <2>1. Saved' = Saved \ {a} /\ updatedAt' \in [Address -> Nat]
      BY <1>1, <1>4 DEF Saved
    <2>2. Quiet(c)
      BY <1>1, <1>4, <2>1, DeleteQuiet DEF Quiet
    <2> QED
      BY <1>1, <1>2, <1>4, <2>1, <2>2, CommitKeeps
  <1> QED
    BY <1>3, <1>4 DEF promoteMostRecent

LEMMA AbortKeeps ==
    ASSUME DeliveryInv, NEW c \in Conn, Abort(c) PROVE DeliveryInv'
  <1>1. UNCHANGED rows /\ Finish(c)
    BY DEF Abort
  <1>2. Quiet(c)
    BY <1>1 DEF Quiet, DeliveryInv, RequestOK, rows, Saved
  <1>3. /\ updatedAt' \in [Address -> Nat] /\ now' \in Nat
        /\ defaults' \subseteq Saved' /\ \A a, b \in defaults' : a = b
    BY <1>1 DEF DeliveryInv, TypeOK, OneDefault, rows, Saved
  <1> QED
    BY <1>1, <1>2, <1>3, CommitKeeps

-----------------------------------------------------------------------------
(* The theorems *)

LEMMA StutterKeeps == DeliveryInv /\ UNCHANGED vars => DeliveryInv'
  <1> SUFFICES ASSUME DeliveryInv, UNCHANGED vars PROVE DeliveryInv'
    OBVIOUS
  <1>1. TypeOK' /\ OneDefault'
    BY DEF DeliveryInv, TypeOK, OneDefault, vars, Saved
  <1>2. \A c \in Conn : RequestOK(c)'
    BY DEF DeliveryInv, RequestOK, vars, Saved
  <1>3. LocksApart'
    BY DEF DeliveryInv, LocksApart, vars
  <1> QED
    BY <1>1, <1>2, <1>3 DEF DeliveryInv

LEMMA NextInv == DeliveryInv /\ [Next]_vars => DeliveryInv'
  <1> SUFFICES ASSUME DeliveryInv, Next PROVE DeliveryInv'
    BY StutterKeeps
  <1>1. PICK c \in Conn : Request(c) \/ RequestStep(c) \/ Abort(c)
    BY DEF Next
  <1>2. CASE Request(c)
    BY <1>2, RequestKeeps
  <1>3. CASE RequestStep(c)
    BY <1>3, CountKeeps, FindByIdKeeps, FindDefaultKeeps, UnsetKeeps, CreateKeeps,
       UpdateKeeps, DeleteKeeps, SelectKeeps, PromoteKeeps DEF RequestStep
  <1>4. CASE Abort(c)
    BY <1>4, AbortKeeps
  <1> QED
    BY <1>1, <1>2, <1>3, <1>4

THEOREM DeliverySafe == Spec => []DeliveryInv
  BY InitInv, NextInv, PTL DEF Spec

\* Rows, requests and the default keep their types whatever requests overlap
\* (deliveryAddressRepository.ts lines 57-190).
THEOREM DeliveryTypes == Spec => []TypeOK
  <1>1. DeliveryInv => TypeOK
    BY DEF DeliveryInv
  <1> QED
    BY <1>1, DeliverySafe, PTL

\* A user never has two default addresses (deliveryAddressService.ts lines
\* 18-33 and 46-58, index delivery_addresses_default_key).
THEOREM DeliveryOneDefault == Spec => []OneDefault
  <1>1. DeliveryInv => OneDefault
    BY DEF DeliveryInv
  <1> QED
    BY <1>1, DeliverySafe, PTL

\* Creating or editing an address never leaves the user without a default
\* (deliveryAddressService.ts lines 46-58).
THEOREM DeliveryDefaultKept == Spec => OnlyDeletionLosesDefault
  <1>1. ASSUME DeliveryInv, [Next]_vars, defaults # {}, defaults' = {}
        PROVE  Saved \ Saved' # {}
    <2>1. Next /\ defaults' # defaults
      BY <1>1 DEF vars
    <2>2. PICK c \in Conn : RequestStep(c)
      BY <2>1 DEF Next, Request, Start, Abort, rows
    <2>3. RequestOK(c) /\ updatedAt \in [Address -> Nat] /\ tx[c] \in Tx
      BY <1>1 DEF DeliveryInv, TypeOK
    <2>4. CASE create(c) \/ update(c)
      <3>1. PICK a \in Address :
              /\ MayWriteDefault(c, a)
              /\ defaults' = DefaultsAfter(c, a)
              /\ tx[c].pc = "write"
              /\ \/ a \notin Saved
                 \/ tx[c].operation = "update" /\ a = tx[c].address
        BY <2>3, <2>4 DEF create, update, RequestOK
      <3>2. ~tx[c].isDefault
        BY <1>1, <3>1, DefaultsAfterWrite
      <3>3. tx[c].unset = {} /\ a \notin defaults
        BY <1>1, <2>3, <3>1, <3>2 DEF RequestOK, DeliveryInv, TypeOK
      <3> QED
        BY <1>1, <3>1, <3>2, <3>3, DefaultsAfterWrite
    <2>5. CASE delete(c) \/ promoteMostRecent(c)
      <3>1. tx[c].address \in Saved
        BY <1>1, <2>3, <2>5 DEF delete, promoteMostRecent, RequestOK
      <3>2. updatedAt' = [updatedAt EXCEPT ![tx[c].address] = 0]
        BY <1>1, <2>5 DEF delete, promoteMostRecent
      <3>3. tx[c].address \notin Saved'
        BY <2>3, <3>1, <3>2 DEF Saved
      <3> QED
        BY <3>1, <3>3
    <2> QED
      BY <2>1, <2>2, <2>4, <2>5 DEF RequestStep, count, findByIdForUpdate, findDefault,
         unsetDefault, selectMostRecent, rows
  <1>2. DeliveryInv /\ [Next]_vars
          => [defaults # {} /\ defaults' = {} => Saved \ Saved' # {}]_vars
    BY <1>1
  <1> QED
    BY <1>2, DeliverySafe, PTL DEF Spec, OnlyDeletionLosesDefault

-----------------------------------------------------------------------------
(* A default for whoever has addresses *)

\* What a request relies on as long as no deletion has overlapped another: a
\* deletion is alone, and what it read of its row and of the others is still
\* true; an address created as no default is not the first.
RequestAlone(c) ==
    /\ tx[c].operation = "delete" =>
          tx[c].pc # "idle" /\ \A d \in Conn \ {c} : tx[d].pc = "idle"
    /\ tx[c].pc \in {"locked", "promote"} => tx[c].operation = "delete"
    /\ tx[c].pc = "lock" /\ tx[c].operation = "delete" => ~tx[c].isDefault
    /\ tx[c].pc = "locked" => (tx[c].isDefault <=> tx[c].address \in defaults)
    /\ tx[c].pc = "promote" =>
          IF tx[c].target = None THEN Saved \subseteq {tx[c].address}
          ELSE tx[c].target \in Saved \ {tx[c].address}
    /\ tx[c].operation = "create" /\ tx[c].pc = "write" /\ ~tx[c].isDefault =>
          Saved # {}

AloneInv == ~contended => \A c \in Conn : RequestAlone(c)

\* A request that goes on, or ends, without deleting under another's eyes.
LEMMA OthersStayAlone ==
    ASSUME DeliveryInv, AloneInv, ~contended, NEW c \in Conn,
           tx[c].pc # "idle", \A d \in Conn \ {c} : tx'[d] = tx[d],
           tx[c].operation = "delete" \/ Saved \subseteq Saved'
    PROVE  \A d \in Conn \ {c} : RequestAlone(d)'
  <1> SUFFICES ASSUME NEW d \in Conn \ {c} PROVE RequestAlone(d)'
    OBVIOUS
  <1>1. /\ tx'[d] = tx[d]
        /\ RequestAlone(c) /\ RequestAlone(d)
    BY DEF AloneInv
  <1>2. tx[d].operation # "delete" /\ tx[d].pc \notin {"locked", "promote"}
    BY <1>1 DEF RequestAlone
  <1>3. tx[d].operation = "create" /\ tx[d].pc = "write" /\ ~tx[d].isDefault
           => Saved' # {}
    BY <1>1 DEF RequestAlone
  <1> QED
    BY <1>1, <1>2, <1>3 DEF RequestAlone

\* A step that moves a request on and commits nothing.
LEMMA MoveStaysAlone ==
    ASSUME DeliveryInv, AloneInv, NEW c \in Conn, NEW t \in Tx,
           tx[c].pc # "idle", tx' = [tx EXCEPT ![c] = t], UNCHANGED rows,
           contended' = contended, ~contended => RequestAlone(c)'
    PROVE  AloneInv'
  <1>1. tx'[c] = t /\ \A d \in Conn \ {c} : tx'[d] = tx[d]
    BY DEF DeliveryInv, TypeOK
  <1>2. Saved' = Saved
    BY DEF rows, Saved
  <1> QED
    BY <1>1, <1>2, OthersStayAlone DEF AloneInv

LEMMA FinishStaysAlone ==
    ASSUME DeliveryInv, AloneInv, NEW c \in Conn, tx[c].pc # "idle", Finish(c),
           tx[c].operation = "delete" \/ Saved \subseteq Saved'
    PROVE  AloneInv'
  <1>1. /\ tx'[c] = Idle /\ contended' = contended
        /\ \A d \in Conn \ {c} : tx'[d] = tx[d]
    BY DEF Finish, DeliveryInv, TypeOK
  <1>2. RequestAlone(c)'
    BY <1>1, IdleOK DEF RequestAlone
  <1> QED
    BY <1>1, <1>2, OthersStayAlone DEF AloneInv

LEMMA StartStaysAlone ==
    ASSUME DeliveryInv, AloneInv, NEW c \in Conn, NEW pc \in {"unset", "count", "lock"},
           NEW operation \in {"create", "update", "delete"},
           NEW a, NEW isDefault \in BOOLEAN,
           Start(c, pc, operation, a, isDefault),
           operation = "delete" => ~isDefault
    PROVE  AloneInv'
  <1>1. /\ tx[c].pc = "idle"
        /\ tx'[c].pc = pc /\ tx'[c].operation = operation
        /\ tx'[c].isDefault = isDefault
        /\ \A d \in Conn \ {c} : tx'[d] = tx[d]
        /\ contended' = (contended \/ Overlaps(c, operation))
        /\ UNCHANGED rows
    BY DEF Start, DeliveryInv, TypeOK, Idle
  <1>2. Saved' = Saved /\ defaults' = defaults
    BY <1>1 DEF rows, Saved
  <1>3. ASSUME ~contended' PROVE \A d \in Conn : RequestAlone(d)'
    <2>1. /\ ~contended
          /\ \A d \in Conn \ {c} : tx[d].pc # "idle" =>
                operation # "delete" /\ tx[d].operation # "delete"
      BY <1>1, <1>3 DEF Overlaps
    <2>2. \A d \in Conn : RequestAlone(d)
      BY <2>1 DEF AloneInv
    <2>3. \A d \in Conn \ {c} : tx[d].operation # "delete"
      BY <2>1, <2>2 DEF RequestAlone
    <2>4. RequestAlone(c)'
      BY <1>1, <2>1 DEF RequestAlone
    <2>5. ASSUME NEW d \in Conn \ {c} PROVE RequestAlone(d)'
      BY <1>1, <1>2, <2>2, <2>3, <2>5 DEF RequestAlone
    <2> QED
      BY <2>4, <2>5
  <1> QED
    BY <1>3 DEF AloneInv

LEMMA AloneMoves ==
    ASSUME DeliveryInv, AloneInv, NEW c \in Conn,
           \/ Request(c) \/ count(c) \/ findByIdForUpdate(c) \/ findDefault(c)
           \/ unsetDefault(c) \/ selectMostRecent(c) \/ Abort(c)
    PROVE  AloneInv' /\ UNCHANGED rows
  <1>1. tx \in [Conn -> Tx] /\ tx[c] \in Tx /\ DeliveryInv'
    <2>1. DeliveryInv'
      BY NextInv DEF Next, RequestStep
    <2> QED
      BY <2>1 DEF DeliveryInv, TypeOK
  <1>2. tx'[c] \in Tx /\ tx' \in [Conn -> Tx]
    BY <1>1 DEF DeliveryInv, TypeOK
  <1>3. CASE Request(c)
    <2>1. CASE \E isDefault \in BOOLEAN :
                 Start(c, IF isDefault THEN "unset" ELSE "count", "create", None,
                       isDefault)
      <3>1. PICK isDefault \in BOOLEAN, pc \in {"unset", "count", "lock"} :
                 Start(c, pc, "create", None, isDefault)
        BY <2>1
      <3> QED
        BY <3>1, StartStaysAlone DEF Start
    <2>2. CASE \E a \in Saved, isDefault \in BOOLEAN :
                 Start(c, "lock", "update", a, isDefault)
      BY <2>2, StartStaysAlone DEF Start
    <2>3. CASE \E a \in Saved : Start(c, "lock", "delete", a, FALSE)
      BY <2>3, StartStaysAlone DEF Start
    <2> QED
      BY <1>3, <2>1, <2>2, <2>3 DEF Request
  <1>4. CASE count(c)
    <2>1. /\ tx[c].pc = "count" /\ UNCHANGED <<rows, contended>>
          /\ tx'[c].operation = tx[c].operation
          /\ tx'[c].isDefault = (tx[c].isDefault \/ Saved = {})
          /\ tx'[c].pc \in {"unset", "write"}
          /\ tx' = [tx EXCEPT ![c] = tx'[c]]
      BY <1>1, <1>4 DEF count, AfterCurrent, Tx
    <2>2. tx[c].operation = "create" /\ Saved' = Saved
      BY <1>1, <2>1 DEF DeliveryInv, RequestOK, rows, Saved
    <2>3. RequestAlone(c)'
      BY <2>1, <2>2 DEF RequestAlone
    <2> QED
      BY <1>2, <2>1, <2>3, MoveStaysAlone
  <1>5. CASE findByIdForUpdate(c)
    <2>1. /\ tx[c].pc = "lock" /\ UNCHANGED <<rows, contended>>
          /\ tx'[c].operation = tx[c].operation
          /\ tx'[c].address = tx[c].address
          /\ tx'[c].isDefault = (tx[c].isDefault \/ tx[c].address \in defaults)
          /\ tx'[c].pc = IF tx[c].operation = "delete" THEN "locked"
                         ELSE AfterCurrent(tx[c].isDefault)
          /\ tx' = [tx EXCEPT ![c] = tx'[c]]
      BY <1>1, <1>5 DEF findByIdForUpdate, Tx
    <2>2. tx[c].operation \in {"update", "delete"} /\ defaults' = defaults
      BY <1>1, <2>1 DEF DeliveryInv, RequestOK, rows
    <2>3. AfterCurrent(tx[c].isDefault) \in {"unset", "write"}
      BY DEF AfterCurrent
    <2>4. ASSUME ~contended PROVE RequestAlone(c)'
      <3>1. RequestAlone(c)
        BY <2>4 DEF AloneInv
      <3>2. tx[c].operation = "delete" =>
               \A d \in Conn \ {c} : tx'[d].pc = "idle"
        BY <1>1, <2>1, <3>1 DEF RequestAlone
      <3>3. tx'[c].pc # "idle" /\ tx'[c].pc # "lock" /\ tx'[c].pc # "promote"
        BY <2>1, <2>3
      <3>4. tx'[c].pc = "locked" => tx[c].operation = "delete"
        BY <2>1, <2>3
      <3>5. tx'[c].pc = "locked" => ~tx[c].isDefault
        BY <2>1, <3>1, <3>4 DEF RequestAlone
      <3> QED
        BY <2>1, <2>2, <3>2, <3>3, <3>4, <3>5 DEF RequestAlone
    <2> QED
      BY <1>2, <2>1, <2>4, MoveStaysAlone
  <1>6. CASE findDefault(c) \/ unsetDefault(c)
    <2>1. /\ tx[c].pc = "unset" /\ UNCHANGED <<rows, contended>>
          /\ tx'[c].operation = tx[c].operation
          /\ tx'[c].isDefault = tx[c].isDefault
          /\ tx'[c].pc \in {"unset", "write"}
          /\ tx' = [tx EXCEPT ![c] = tx'[c]]
      BY <1>1, <1>6 DEF findDefault, unsetDefault, Tx
    <2>2. tx[c].isDefault
      BY <2>1 DEF DeliveryInv, RequestOK
    <2>3. ASSUME ~contended PROVE RequestAlone(c)'
      <3>1. RequestAlone(c)
        BY <2>3 DEF AloneInv
      <3> QED
        BY <1>1, <2>1, <2>2, <3>1 DEF RequestAlone
    <2> QED
      BY <1>2, <2>1, <2>3, MoveStaysAlone
  <1>7. CASE selectMostRecent(c)
    <2>1. PICK replacement \in (Saved \ {tx[c].address}) \cup {None} :
            /\ replacement = None => Saved \ {tx[c].address} = {}
            /\ tx' = [tx EXCEPT ![c].pc = "promote", ![c].target = replacement]
      BY <1>7 DEF selectMostRecent
    <2>2. /\ tx[c].pc = "locked" /\ UNCHANGED <<rows, contended>>
          /\ tx'[c].operation = tx[c].operation
          /\ tx'[c].address = tx[c].address
          /\ tx'[c].pc = "promote" /\ tx'[c].target = replacement
          /\ tx' = [tx EXCEPT ![c] = tx'[c]]
      BY <1>1, <1>7, <2>1 DEF selectMostRecent, Tx
    <2>3. ASSUME ~contended PROVE RequestAlone(c)'
      <3>1. RequestAlone(c)
        BY <2>3 DEF AloneInv
      <3>2. \A d \in Conn \ {c} : tx'[d].pc = "idle"
        BY <1>1, <2>2, <3>1 DEF RequestAlone
      <3>3. Saved' = Saved
        BY <2>2 DEF rows, Saved
      <3> QED
        BY <2>1, <2>2, <3>1, <3>2, <3>3 DEF RequestAlone
    <2> QED
      BY <1>2, <2>2, <2>3, MoveStaysAlone
  <1>8. CASE Abort(c)
    BY <1>8, FinishStaysAlone DEF Abort, rows, Saved
  <1> QED
    BY <1>3, <1>4, <1>5, <1>6, <1>7, <1>8
    DEF count, findByIdForUpdate, findDefault, unsetDefault, selectMostRecent,
        Abort, Request, Start

LEMMA AloneWrites ==
    ASSUME DeliveryInv, AloneInv, DefaultUnlessContended, NEW c \in Conn,
           create(c) \/ update(c)
    PROVE  AloneInv' /\ DefaultUnlessContended'
  <1>1. PICK a \in Address :
          /\ MayWriteDefault(c, a) /\ Write(a) /\ Finish(c)
          /\ defaults' = DefaultsAfter(c, a)
          /\ tx[c].pc = "write"
          /\ \/ a \notin Saved /\ tx[c].operation = "create"
             \/ tx[c].operation = "update" /\ a = tx[c].address
    BY DEF create, update, DeliveryInv, RequestOK
  <1>2. /\ updatedAt \in [Address -> Nat] /\ now \in Nat
        /\ defaults \subseteq Saved /\ RequestOK(c)
    BY DEF DeliveryInv, TypeOK
  <1>3. Saved' = Saved \cup {a}
    <2>1. updatedAt' = [updatedAt EXCEPT ![a] = now + 1] /\ now + 1 # 0
      BY <1>1, <1>2 DEF Write
    <2> QED
      BY <1>2, <2>1 DEF Saved
  <1>4. AloneInv'
    BY <1>1, <1>3, FinishStaysAlone
  <1>5. ASSUME ~contended PROVE defaults' # {}
    <2>1. RequestAlone(c)
      BY <1>5 DEF AloneInv
    <2>2. CASE tx[c].isDefault
      BY <1>1, <2>2, DefaultsAfterWrite
    <2>3. CASE ~tx[c].isDefault
      <3>1. tx[c].unset = {} /\ a \notin defaults
        BY <1>1, <1>2, <2>3 DEF RequestOK
      <3>2. Saved # {}
        BY <1>1, <1>2, <2>1, <2>3 DEF RequestAlone, RequestOK
      <3>3. defaults # {}
        BY <1>5, <3>2 DEF DefaultUnlessContended
      <3> QED
        BY <1>1, <2>3, <3>1, <3>3, DefaultsAfterWrite
    <2> QED
      BY <2>2, <2>3
  <1> QED
    BY <1>1, <1>4, <1>5 DEF Finish, DefaultUnlessContended

LEMMA AloneDeletes ==
    ASSUME DeliveryInv, AloneInv, DefaultUnlessContended, NEW c \in Conn,
           delete(c) \/ promoteMostRecent(c)
    PROVE  AloneInv' /\ DefaultUnlessContended'
  <1>1. /\ tx[c].pc \in {"locked", "promote"} /\ Finish(c)
        /\ updatedAt \in [Address -> Nat] /\ now \in Nat
        /\ defaults \subseteq Saved /\ RequestOK(c)
    BY DEF delete, promoteMostRecent, DeliveryInv, TypeOK
  <1>2. CASE contended
    <2>1. contended'
      BY <1>1, <1>2 DEF Finish
    <2> QED
      BY <2>1 DEF AloneInv, DefaultUnlessContended
  <1>3. CASE ~contended
    <2>1. RequestAlone(c) /\ tx[c].operation = "delete"
      BY <1>1, <1>3 DEF AloneInv, RequestAlone
    <2>2. AloneInv'
      BY <1>1, <2>1, FinishStaysAlone
    <2>3. CASE delete(c)
      <3>1. tx[c].address \notin defaults
        BY <2>1, <2>3 DEF delete, RequestAlone
      <3>2. defaults' = defaults /\ Saved' \subseteq Saved
        BY <1>1, <2>3, <3>1 DEF delete, Saved
      <3> QED
        BY <1>3, <2>2, <3>2 DEF DefaultUnlessContended
    <2>4. CASE promoteMostRecent(c)
      <3>1. CASE tx[c].target = None
        <4>1. tx[c].target \notin Saved
          BY <3>1, DeliveryAssumption DEF Saved
        <4>2. updatedAt' = [updatedAt EXCEPT ![tx[c].address] = 0]
          BY <2>4, <4>1 DEF promoteMostRecent
        <4>3. Saved' \subseteq Saved \ {tx[c].address}
          BY <1>1, <4>2 DEF Saved
        <4>4. Saved' = {}
          BY <2>1, <2>4, <3>1, <4>3 DEF promoteMostRecent, RequestAlone
        <4> QED
          BY <2>2, <4>4 DEF DefaultUnlessContended
      <3>2. CASE tx[c].target # None
        <4>1. tx[c].target \in Saved
          BY <2>1, <2>4, <3>2 DEF promoteMostRecent, RequestAlone
        <4>2. defaults' = {tx[c].target}
          BY <2>4, <4>1 DEF promoteMostRecent
        <4> QED
          BY <2>2, <4>2 DEF DefaultUnlessContended
      <3> QED
        BY <3>1, <3>2
    <2> QED
      BY <2>3, <2>4
  <1> QED
    BY <1>2, <1>3

\* As long as no deletion overlaps another request, a user with addresses has a
\* default (deliveryAddressService.ts lines 18-33 and 60-75).
THEOREM DeliveryDefaultThere == Spec => []DefaultUnlessContended
  <1>1. Init => AloneInv /\ DefaultUnlessContended
    <2> SUFFICES ASSUME Init PROVE AloneInv /\ DefaultUnlessContended
      OBVIOUS
    <2>1. \A c \in Conn : tx[c] = Idle
      BY DEF Init
    <2>2. AloneInv
      BY <2>1, IdleOK DEF AloneInv, RequestAlone
    <2>3. Saved = {}
      BY DEF Init, Saved
    <2> QED
      BY <2>2, <2>3 DEF DefaultUnlessContended
  <1>2. DeliveryInv /\ AloneInv /\ DefaultUnlessContended /\ [Next]_vars
           => AloneInv' /\ DefaultUnlessContended'
    <2> SUFFICES ASSUME DeliveryInv, AloneInv, DefaultUnlessContended, [Next]_vars
                 PROVE  AloneInv' /\ DefaultUnlessContended'
      OBVIOUS
    <2>1. CASE UNCHANGED vars
      BY <2>1 DEF vars, AloneInv, RequestAlone, DefaultUnlessContended, Saved
    <2>2. ASSUME NEW c \in Conn,
                 \/ Request(c) \/ count(c) \/ findByIdForUpdate(c)
                 \/ findDefault(c) \/ unsetDefault(c) \/ selectMostRecent(c)
                 \/ Abort(c)
          PROVE  AloneInv' /\ DefaultUnlessContended'
      <3>1. AloneInv' /\ UNCHANGED rows
        BY <2>2, AloneMoves
      <3>2. contended => contended'
        BY <2>2 DEF Request, Start, count, findByIdForUpdate, findDefault,
           unsetDefault, selectMostRecent, Abort, Finish
      <3>3. Saved' = Saved /\ defaults' = defaults
        BY <3>1 DEF rows, Saved
      <3> QED
        BY <3>1, <3>2, <3>3 DEF DefaultUnlessContended
    <2>3. ASSUME NEW c \in Conn, RequestStep(c) \/ Request(c) \/ Abort(c)
          PROVE  AloneInv' /\ DefaultUnlessContended'
      BY <2>2, <2>3, AloneWrites, AloneDeletes DEF RequestStep
    <2> QED
      BY <2>1, <2>3 DEF Next
  <1>3. Spec => [](AloneInv /\ DefaultUnlessContended)
    BY <1>1, <1>2, DeliverySafe, PTL DEF Spec
  <1> QED
    BY <1>3, PTL
=============================================================================
