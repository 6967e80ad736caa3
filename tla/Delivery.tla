------------------------------- MODULE Delivery -------------------------------
(***************************************************************************)
(* The saved delivery addresses of one user (deliveryAddressService.ts,      *)
(* postgres/deliveryAddressRepository.ts): every request is a transaction    *)
(* over several statements, and what keeps two defaults apart is the partial *)
(* unique index delivery_addresses_default_key.                              *)
(*                                                                         *)
(* A row that a transaction has changed or locked stays locked until the     *)
(* transaction ends, and its changes are seen by others from then on. The    *)
(* last statement of a transaction and its commit are one action.            *)
(***************************************************************************)
EXTENDS Naturals

CONSTANTS
    Conn,      \* database connections, one request each
    Address,   \* ids of addresses
    MaxWrites, \* bound on the time at which creations and updates start
    None

ASSUME DeliveryAssumption == None \notin Address /\ MaxWrites \in Nat \ {0}

VARIABLES
    updatedAt, \* updatedAt[a]: time of the last write of the row, 0 without row
    defaults,  \* ids of the rows with is_default
    now,       \* time of the last write, a write being a tick
    contended, \* whether a deletion has overlapped another request
    tx         \* tx[c]: the request the connection is executing

vars == <<updatedAt, defaults, now, contended, tx>>
rows == <<updatedAt, defaults, now>>

Saved == {a \in Address : updatedAt[a] # 0}

\* target: the default row that unsetDefault found, or the row promoted;
\* unset, deleted: the changes of the transaction that others do not see yet.
Tx == [pc: {"idle", "count", "lock", "locked", "unset", "write", "select",
            "promote"},
       operation: {"none", "create", "update", "delete"},
       address: Address \cup {None}, isDefault: BOOLEAN,
       target: Address \cup {None}, locked: SUBSET Address,
       unset: SUBSET Address]
Idle == [pc |-> "idle", operation |-> "none", address |-> None,
         isDefault |-> FALSE, target |-> None, locked |-> {}, unset |-> {}]

Init ==
    /\ updatedAt = [a \in Address |-> 0]
    /\ defaults = {}
    /\ now = 0
    /\ contended = FALSE
    /\ tx = [c \in Conn |-> Idle]

Free(c, a) == \A d \in Conn \ {c} : a \notin tx[d].locked

\* A request begins; what overlaps is remembered for the properties.
Overlaps(c, operation) ==
    \E d \in Conn \ {c} :
        /\ tx[d].pc # "idle"
        /\ operation = "delete" \/ tx[d].operation = "delete"

Start(c, pc, operation, a, isDefault) ==
    /\ tx[c].pc = "idle"
    /\ tx' = [tx EXCEPT ![c] = [Idle EXCEPT !.pc = pc, !.operation = operation,
                                            !.address = a,
                                            !.isDefault = isDefault]]
    /\ contended' = (contended \/ Overlaps(c, operation))
    /\ UNCHANGED rows

Finish(c) == tx' = [tx EXCEPT ![c] = Idle] /\ UNCHANGED contended

\* The request fails: a missing row (404), a violated index, a deadlock that
\* the database breaks, a lost connection.
Abort(c) ==
    /\ tx[c].pc # "idle"
    /\ Finish(c)
    /\ UNCHANGED rows

-----------------------------------------------------------------------------
(* Statements *)

\* Mutant: the partial unique index is missing.
DefaultIndexFree_Missing(c, a) == TRUE

\* The index accepts a as default: no other row is one, counting the changes of
\* this transaction, and no entry is pending in another.
DefaultIndexFree(c, a) ==
    \A b \in defaults \ {a} : b \in tx[c].unset

\* Rows whose index entry a transaction has changed and not committed: an INSERT
\* or UPDATE that sets a default waits for them.
Changed(d) ==
    tx[d].unset \cup (IF tx[d].pc = "promote" THEN {tx[d].address} ELSE {})
DefaultIndexQuiet(c) == \A d \in Conn \ {c} : defaults \cap Changed(d) = {}

\* unsetDefault runs only for a request that makes its row the default.
AfterCurrent(isDefault) == IF isDefault THEN "unset" ELSE "write"

\* count(): the first address of a user becomes the default.
count(c) ==
    LET isDefault == tx[c].isDefault \/ Saved = {}
    IN  /\ tx[c].pc = "count"
        /\ tx' = [tx EXCEPT ![c].pc = AfterCurrent(isDefault),
                            ![c].isDefault = isDefault]
        /\ UNCHANGED <<rows, contended>>

\* findByIdForUpdate of the row to update or to delete.
findByIdForUpdate(c) ==
    LET a == tx[c].address
    IN  /\ tx[c].pc = "lock"
        /\ a \in Saved
        /\ Free(c, a)
        /\ tx' = [tx EXCEPT
              ![c].pc = IF tx[c].operation = "delete" THEN "locked"
                        ELSE AfterCurrent(tx[c].isDefault),
              ![c].isDefault = @ \/ a \in defaults,
              ![c].locked = {a}]
        /\ UNCHANGED <<rows, contended>>

\* unsetDefault starts with the default that is committed now.
findDefault(c) ==
    /\ tx[c].pc = "unset"
    /\ tx[c].target = None
    /\ tx' = IF defaults = {}
             THEN [tx EXCEPT ![c].pc = "write"]
             ELSE [tx EXCEPT ![c].target = CHOOSE a \in defaults : TRUE]
    /\ UNCHANGED <<rows, contended>>

\* It waits for the row, and changes it if it still is the default.
unsetDefault(c) ==
    LET a == tx[c].target
    IN  /\ tx[c].pc = "unset"
        /\ a # None
        /\ Free(c, a)
        /\ tx' = [tx EXCEPT
              ![c].pc = "write",
              ![c].locked = IF a \in Saved THEN @ \cup {a} ELSE @,
              ![c].unset = IF a \in defaults THEN {a} ELSE {}]
        /\ UNCHANGED <<rows, contended>>

-----------------------------------------------------------------------------
(* What a request commits *)

DefaultsAfter(c, a) ==
    (defaults \ (tx[c].unset \cup {a}))
    \cup (IF tx[c].isDefault THEN {a} ELSE {})

Write(a) ==
    /\ now' = now + 1
    /\ updatedAt' = [updatedAt EXCEPT ![a] = now + 1]

MayWriteDefault(c, a) ==
    tx[c].isDefault => DefaultIndexQuiet(c) /\ DefaultIndexFree(c, a)

create(c) ==
    \E a \in Address \ Saved :
        /\ tx[c].pc = "write"
        /\ tx[c].operation = "create"
        /\ MayWriteDefault(c, a)
        /\ Write(a)
        /\ defaults' = DefaultsAfter(c, a)
        /\ Finish(c)

\* The update writes every column, is_default included.
update(c) ==
    LET a == tx[c].address
    IN  /\ tx[c].pc = "write"
        /\ tx[c].operation = "update"
        /\ MayWriteDefault(c, a)
        /\ Write(a)
        /\ defaults' = DefaultsAfter(c, a)
        /\ Finish(c)

\* A row that is not the default is deleted and the request ends.
delete(c) ==
    LET a == tx[c].address
    IN  /\ tx[c].pc = "locked"
        /\ ~tx[c].isDefault
        /\ updatedAt' = [updatedAt EXCEPT ![a] = 0]
        /\ defaults' = defaults \ {a}
        /\ UNCHANGED now
        /\ Finish(c)

\* The default is deleted; promoteMostRecent selects among the committed rows
\* that remain, without locking, the one updated last.
selectMostRecent(c) ==
    LET others == Saved \ {tx[c].address}
    IN  /\ tx[c].pc = "locked"
        /\ tx[c].isDefault
        /\ \E replacement \in others \cup {None} :
              /\ replacement = None => others = {}
              /\ replacement # None =>
                    \A b \in others : updatedAt[b] <= updatedAt[replacement]
              /\ tx' = [tx EXCEPT ![c].pc = "promote",
                                  ![c].target = replacement]
        /\ UNCHANGED <<rows, contended>>

\* Mutant: the deletion of the default promotes nobody.
promoteMostRecent_Nobody(c) ==
    /\ tx[c].pc = "promote"
    /\ updatedAt' = [updatedAt EXCEPT ![tx[c].address] = 0]
    /\ defaults' = defaults \ {tx[c].address}
    /\ UNCHANGED now
    /\ Finish(c)

\* The row found is updated once nobody holds it, if it still exists.
promoteMostRecent(c) ==
    LET a == tx[c].address
        replacement == tx[c].target
    IN  /\ tx[c].pc = "promote"
        /\ Free(c, replacement)
        /\ \/ /\ replacement \in Saved
              /\ defaults \ {a, replacement} = {}
              /\ now' = now + 1
              /\ updatedAt' = [updatedAt EXCEPT ![a] = 0,
                                               ![replacement] = now + 1]
              /\ defaults' = {replacement}
           \/ /\ replacement \notin Saved
              /\ updatedAt' = [updatedAt EXCEPT ![a] = 0]
              /\ defaults' = defaults \ {a}
              /\ UNCHANGED now
        /\ Finish(c)

-----------------------------------------------------------------------------

RequestStep(c) ==
    \/ count(c)
    \/ findByIdForUpdate(c)
    \/ findDefault(c)
    \/ unsetDefault(c)
    \/ create(c)
    \/ update(c)
    \/ delete(c)
    \/ selectMostRecent(c)
    \/ promoteMostRecent(c)

Request(c) ==
    \/ /\ now < MaxWrites
       /\ \/ \E isDefault \in BOOLEAN :
                Start(c, IF isDefault THEN "unset" ELSE "count", "create", None,
                      isDefault)
          \/ \E a \in Saved, isDefault \in BOOLEAN :
                Start(c, "lock", "update", a, isDefault)
    \/ \E a \in Saved : Start(c, "lock", "delete", a, FALSE)

Next == \E c \in Conn : Request(c) \/ RequestStep(c) \/ Abort(c)

Spec == Init /\ [][Next]_vars

-----------------------------------------------------------------------------
(* Properties *)

\* Types of the rows and of the requests in progress; a default is a saved row.
TypeOK ==
    /\ updatedAt \in [Address -> Nat]
    /\ defaults \subseteq Saved
    /\ now \in Nat
    /\ contended \in BOOLEAN
    /\ tx \in [Conn -> Tx]

\* A user never has two defaults, although a request decides on the default from
\* a count and a row that another request may have changed since
\* (deliveryAddressService.ts lines 18-33; "a partial unique index permits at
\* most one default", data-lifecycle.md line 37).
OneDefault == \A a, b \in defaults : a = b

\* As long as no deletion has overlapped another request, a user with addresses
\* has a default: the first address becomes it and a deletion promotes another.
DefaultUnlessContended == ~contended /\ Saved # {} => defaults # {}

\* Only a deletion takes the default away: creating and editing addresses, at
\* whatever moments, replaces it at most (lines 36-58).
OnlyDeletionLosesDefault ==
    [][defaults # {} /\ defaults' = {} => Saved \ Saved' # {}]_vars
=============================================================================
