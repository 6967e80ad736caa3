--------------------------- MODULE OrderLifecycle ---------------------------
(***************************************************************************)
(* PATCH /orders/{orderId}/status as PostgreSQL runs it at READ COMMITTED:  *)
(* a transaction reads the order without a lock, decides, updates the row   *)
(* (the UPDATE waits for a concurrent one), reads the highest sequence of   *)
(* the order's history and appends the next entry, with a notification for  *)
(* the buyer and an audit event. Its writes appear when it commits.         *)
(***************************************************************************)
EXTENDS Naturals, Sequences

CONSTANTS
    Order,       \* order ids
    User,        \* accounts of one tenant
    BuyerOf,     \* BuyerOf[o] is the buyer of o
    SellersOf,   \* SellersOf[o]: the sellers with a line on o
    Conn,        \* database connections, one request each
    MaxHistory,  \* bound on the entries of an order's history
    None         \* nobody: a free lock, an unused field

ASSUME PartiesAssumption ==
    BuyerOf \in [Order -> User] /\ SellersOf \in [Order -> SUBSET User]
ASSUME BoundAssumption == MaxHistory \in Nat
ASSUME NobodyAssumption == None \notin Conn \cup Order \cup User

VARIABLES
    status,     \* status[o]: the status column of o, "none" without a row
    history,    \* history[o]: order_status_history of o, by sequence
    changes,    \* changes[o]: order.status_changed audit events of o
    inbox,      \* inbox[o]: the statuses of o announced to its buyer
    orderLock,  \* orderLock[o]: the connection holding the order row
    tx          \* tx[c]: the request the connection is executing

vars == <<status, history, changes, inbox, orderLock, tx>>
rows == <<status, history, changes, inbox>>

OrderStatus == {"placed", "confirmed", "shipped", "delivered", "cancelled"}

sellerOrderTransitions ==
    [placed |-> "confirmed", confirmed |-> "shipped", shipped |-> "delivered"]
buyerCancellableStatuses == {"placed", "confirmed"}

Entry == [status: OrderStatus, actor: User]
Change == [previous: OrderStatus, next: OrderStatus, actor: User]
Tx == [pc: {"idle", "decide", "count", "insert"}, order: Order \cup {None},
       user: User \cup {None}, target: OrderStatus, seen: OrderStatus,
       sequence: Nat]
Idle == [pc |-> "idle", order |-> None, user |-> None, target |-> "placed",
         seen |-> "placed", sequence |-> 0]

isBuyerCancellation(o, u, s) == BuyerOf[o] = u /\ s = "cancelled"
sellerOwnsOrder(o, u) == u \in SellersOf[o]

isValidSellerTransition(o, u, from, to) ==
    /\ sellerOwnsOrder(o, u)
    /\ from \in DOMAIN sellerOrderTransitions
    /\ sellerOrderTransitions[from] = to
isValidBuyerCancellation(o, u, from, to) ==
    isBuyerCancellation(o, u, to) /\ from \in buyerCancellableStatuses
ValidTransition(o, u, from, to) ==
    isValidSellerTransition(o, u, from, to)
        \/ isValidBuyerCancellation(o, u, from, to)

Init ==
    /\ status = [o \in Order |-> "none"]
    /\ history = [o \in Order |-> <<>>]
    /\ changes = [o \in Order |-> <<>>]
    /\ inbox = [o \in Order |-> <<>>]
    /\ orderLock = [o \in Order |-> None]
    /\ tx = [c \in Conn |-> Idle]

-----------------------------------------------------------------------------

\* A checkout commits order o with its first history entry.
createPlaced(o) ==
    /\ status[o] = "none"
    /\ status' = [status EXCEPT ![o] = "placed"]
    /\ history' = [history EXCEPT
          ![o] = <<[status |-> "placed", actor |-> BuyerOf[o]]>>]
    /\ UNCHANGED <<changes, inbox, orderLock, tx>>

\* The order row is read without a lock; who may ask for what never changes.
findById(c, o, u, s) ==
    /\ tx[c].pc = "idle"
    /\ status[o] # "none"
    /\ sellerOwnsOrder(o, u) \/ isBuyerCancellation(o, u, s)
    /\ tx' = [tx EXCEPT ![c] = [Idle EXCEPT !.pc = "decide", !.order = o,
                 !.user = u, !.target = s, !.seen = status[o]]]
    /\ UNCHANGED <<rows, orderLock>>

\* The order already has the requested status, or cannot get it.
LeaveStatus(c) ==
    /\ tx[c].pc = "decide"
    /\ \/ tx[c].seen = tx[c].target
       \/ ~ValidTransition(tx[c].order, tx[c].user, tx[c].seen, tx[c].target)
    /\ tx' = [tx EXCEPT ![c] = Idle]
    /\ UNCHANGED <<rows, orderLock>>

\* Mutants: the update does not wait for its row; the transition is not
\* validated.
updateStatus_NoWait(c) ==
    LET o == tx[c].order
    IN  /\ tx[c].pc = "decide"
        /\ tx[c].seen # tx[c].target
        /\ ValidTransition(o, tx[c].user, tx[c].seen, tx[c].target)
        /\ Len(history[o]) < MaxHistory
        /\ orderLock' = [orderLock EXCEPT ![o] = c]
        /\ tx' = [tx EXCEPT ![c].pc = "count"]
        /\ UNCHANGED rows
updateStatus_AnyTarget(c) ==
    LET o == tx[c].order
    IN  /\ tx[c].pc = "decide"
        /\ tx[c].seen # tx[c].target
        /\ Len(history[o]) < MaxHistory
        /\ orderLock[o] = None
        /\ orderLock' = [orderLock EXCEPT ![o] = c]
        /\ tx' = [tx EXCEPT ![c].pc = "count"]
        /\ UNCHANGED rows

\* UPDATE orders SET status: takes the row once it is free, whatever status it
\* has by then.
updateStatus(c) ==
    LET o == tx[c].order
    IN  /\ tx[c].pc = "decide"
        /\ tx[c].seen # tx[c].target
        /\ ValidTransition(o, tx[c].user, tx[c].seen, tx[c].target)
        /\ Len(history[o]) < MaxHistory
        /\ orderLock[o] = None
        /\ orderLock' = [orderLock EXCEPT ![o] = c]
        /\ tx' = [tx EXCEPT ![c].pc = "count"]
        /\ UNCHANGED rows

\* SELECT max(sequence).
ReadSequence(c) ==
    /\ tx[c].pc = "count"
    /\ tx' = [tx EXCEPT ![c].pc = "insert",
                        ![c].sequence = Len(history[tx[c].order]) + 1]
    /\ UNCHANGED <<rows, orderLock>>

\* Mutant: the row stays locked.
ReleaseOrder_Never(c) == UNCHANGED orderLock

ReleaseOrder(c) ==
    orderLock' = [o \in Order |-> IF orderLock[o] = c THEN None ELSE orderLock[o]]

\* The entry is inserted, which its primary key allows only for a sequence that
\* is not taken, the buyer is told, the change is audited, and all commits.
AppendEntry(c) ==
    LET o == tx[c].order
        s == tx[c].target
    IN  /\ tx[c].pc = "insert"
        /\ tx[c].sequence = Len(history[o]) + 1
        /\ status' = [status EXCEPT ![o] = s]
        /\ history' = [history EXCEPT
              ![o] = Append(@, [status |-> s, actor |-> tx[c].user])]
        /\ inbox' = [inbox EXCEPT ![o] = Append(@, s)]
        /\ changes' = [changes EXCEPT ![o] = Append(@,
              [previous |-> tx[c].seen, next |-> s, actor |-> tx[c].user])]
        /\ ReleaseOrder(c)
        /\ tx' = [tx EXCEPT ![c] = Idle]

\* The connection dies and its transaction is rolled back.
Abort(c) ==
    /\ tx[c].pc # "idle"
    /\ ReleaseOrder(c)
    /\ tx' = [tx EXCEPT ![c] = Idle]
    /\ UNCHANGED rows

StatusStep(c) ==
    LeaveStatus(c) \/ updateStatus(c) \/ ReadSequence(c) \/ AppendEntry(c)

Next ==
    \/ \E o \in Order : createPlaced(o)
    \/ \E c \in Conn : StatusStep(c) \/ Abort(c)
    \/ \E c \in Conn, o \in Order, u \in User, s \in OrderStatus :
          findById(c, o, u, s)

Spec == Init /\ [][Next]_vars

-----------------------------------------------------------------------------
(* Properties *)

\* Types of the rows, the row locks and the requests in progress.
TypeOK ==
    /\ status \in [Order -> OrderStatus \cup {"none"}]
    /\ history \in [Order -> Seq(Entry)]
    /\ changes \in [Order -> Seq(Change)]
    /\ inbox \in [Order -> Seq(OrderStatus)]
    /\ orderLock \in [Order -> Conn \cup {None}]
    /\ tx \in [Conn -> Tx]

\* A request whose UPDATE went through can append its entry: however the
\* transactions of an order interleave, the sequence it read stays the next one
\* until it commits, and no insert fails on the primary key of the history.
SequenceStaysFree ==
    \A c \in Conn :
        tx[c].pc = "insert" => tx[c].sequence = Len(history[tx[c].order]) + 1

\* The audit log explains the history entry by entry: every entry after the
\* first has its audit event by the same actor, whose previous status the order
\* had at some earlier time and from which that actor may ask for the next one.
\* The buyer was told every status in that order, and the status column is what
\* the history ends with.
Explained(o) ==
    /\ Len(history[o]) = Len(changes[o]) + 1
    /\ history[o][Len(history[o])].status = status[o]
    /\ inbox[o] = [i \in DOMAIN changes[o] |-> changes[o][i].next]
    /\ \A i \in DOMAIN changes[o] :
          LET change == changes[o][i]
          IN  /\ history[o][i + 1] = [status |-> change.next,
                                      actor |-> change.actor]
              /\ \E j \in 1..i : history[o][j].status = change.previous
              /\ ValidTransition(o, change.actor, change.previous, change.next)
HistoryExplained == \A o \in Order : status[o] # "none" => Explained(o)

\* Every request is answered although updates of an order wait for each other:
\* lock waiters queue up, hence strong fairness. A history that has reached
\* MaxHistory ends the model, not the program.
FairSpec == Spec /\ \A c \in Conn : SF_vars(StatusStep(c))
StatusRequestAnswered ==
    \A c \in Conn :
        tx[c].pc # "idle" ~>
            \/ tx[c].pc = "idle"
            \/ Len(history[tx[c].order]) >= MaxHistory
=============================================================================
