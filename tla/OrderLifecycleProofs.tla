------------------------ MODULE OrderLifecycleProofs ------------------------
(***************************************************************************)
(* Theorems of OrderLifecycle for every set of orders, users and            *)
(* connections and every bound on the histories. The row lock makes the     *)
(* sequence a transaction reads its own; the log explains the history       *)
(* because statuses, once entered, stay in it.                              *)
(***************************************************************************)
EXTENDS OrderLifecycle, TLAPS

\* What a request has established at each pc.
RequestOK(c) ==
    /\ tx[c].pc # "idle" =>
          /\ tx[c].order \in Order
          /\ tx[c].user \in User
          /\ \E j \in DOMAIN history[tx[c].order] :
                history[tx[c].order][j].status = tx[c].seen
    /\ tx[c].pc \in {"count", "insert"} =>
          /\ orderLock[tx[c].order] = c
          /\ ValidTransition(tx[c].order, tx[c].user, tx[c].seen, tx[c].target)

\* An order without a row has no history, and an order with one has its first
\* entry.
RowOK(o) ==
    /\ status[o] = "none" => history[o] = <<>> /\ changes[o] = <<>> /\ inbox[o] = <<>>
    /\ status[o] # "none" => history[o] # <<>>

StatusInv ==
    /\ TypeOK
    /\ \A c \in Conn : RequestOK(c)
    /\ \A o \in Order : RowOK(o)
    /\ SequenceStaysFree
    /\ HistoryExplained

LEMMA ExplainedFrame ==
    ASSUME NEW o, Explained(o),
           history'[o] = history[o], changes'[o] = changes[o],
           inbox'[o] = inbox[o], status'[o] = status[o]
    PROVE  Explained(o)'
  BY DEF Explained

LEMMA IdleType == Idle \in Tx /\ Idle.pc = "idle"
  BY DEF Idle, Tx, OrderStatus

LEMMA StatusInit == Init => StatusInv
  BY IdleType
  DEF Init, StatusInv, TypeOK, RequestOK, RowOK, SequenceStaysFree,
      HistoryExplained, OrderStatus

\* A step that leaves the rows alone and moves one request to a state with its
\* facts.
LEMMA KeepRows ==
    ASSUME StatusInv, UNCHANGED rows, NEW c \in Conn, NEW t \in Tx,
           tx' = [tx EXCEPT ![c] = t],
           orderLock' \in [Order -> Conn \cup {None}],
           RequestOK(c)',
           tx'[c].pc = "insert" =>
              tx'[c].sequence = Len(history[tx'[c].order]) + 1,
           \A d \in Conn \ {c} : tx[d].pc \in {"count", "insert"} =>
              orderLock'[tx[d].order] = orderLock[tx[d].order]
    PROVE  StatusInv'
  <1>1. TypeOK'
    BY DEF StatusInv, TypeOK, rows
  <1>2. \A d \in Conn \ {c} : tx'[d] = tx[d]
    BY DEF StatusInv, TypeOK
  <1>3. \A d \in Conn : RequestOK(d)'
    BY <1>2 DEF StatusInv, RequestOK, rows
  <1>4. SequenceStaysFree'
    BY <1>2 DEF StatusInv, SequenceStaysFree, rows
  <1>5. HistoryExplained'
    BY ExplainedFrame DEF StatusInv, HistoryExplained, rows
  <1> QED
    BY <1>1, <1>3, <1>4, <1>5 DEF StatusInv, RowOK, rows

LEMMA StatusNext == StatusInv /\ [Next]_vars => StatusInv'
  <1> SUFFICES ASSUME StatusInv, [Next]_vars PROVE StatusInv'
    OBVIOUS
  <1>1. TypeOK
    BY DEF StatusInv
  <1>2. ASSUME NEW c \in Conn, ReleaseOrder(c)
        PROVE  /\ orderLock' \in [Order -> Conn \cup {None}]
               /\ \A d \in Conn \ {c} : tx[d].pc \in {"count", "insert"} =>
                     orderLock'[tx[d].order] = orderLock[tx[d].order]
    BY <1>1, <1>2 DEF ReleaseOrder, TypeOK, StatusInv, RequestOK
  <1>3. ASSUME NEW o \in Order, createPlaced(o) PROVE StatusInv'
    <2>1. /\ history[o] = <<>> /\ changes[o] = <<>> /\ inbox[o] = <<>>
          /\ BuyerOf[o] \in User
      BY <1>1, <1>3, PartiesAssumption DEF createPlaced, StatusInv, RowOK
    <2>2. \A c \in Conn : tx[c].pc # "idle" => tx[c].order # o
      BY <2>1 DEF StatusInv, RequestOK
    <2>3. /\ status' \in [Order -> OrderStatus \cup {"none"}]
          /\ history' \in [Order -> Seq(Entry)]
      <3>1. [status |-> "placed", actor |-> BuyerOf[o]] \in Entry
        BY <2>1 DEF Entry, OrderStatus
      <3>2. <<[status |-> "placed", actor |-> BuyerOf[o]]>> \in Seq(Entry)
        BY <3>1
      <3> QED
        BY <1>1, <1>3, <3>2 DEF createPlaced, TypeOK, OrderStatus
    <2>4. TypeOK'
      BY <1>1, <1>3, <2>3 DEF createPlaced, TypeOK
    <2>5. /\ \A p \in Order \ {o} :
                history'[p] = history[p] /\ status'[p] = status[p]
          /\ status'[o] = "placed"
          /\ history'[o] = <<[status |-> "placed", actor |-> BuyerOf[o]]>>
          /\ UNCHANGED <<changes, inbox, orderLock, tx>>
      BY <1>1, <1>3 DEF createPlaced, TypeOK
    <2>6. \A c \in Conn : RequestOK(c)'
      <3>1. \A c \in Conn : tx[c].pc # "idle" =>
               history'[tx[c].order] = history[tx[c].order]
        BY <2>2, <2>5 DEF StatusInv, RequestOK
      <3> QED
        BY <2>5, <3>1 DEF StatusInv, RequestOK
    <2>7. \A p \in Order : RowOK(p)'
      BY <2>5 DEF StatusInv, RowOK
    <2>8. SequenceStaysFree'
      BY <2>2, <2>5 DEF StatusInv, RequestOK, SequenceStaysFree
    <2>9. HistoryExplained'
      <3>1. ASSUME NEW p \in Order \ {o}
            PROVE  /\ history'[p] = history[p] /\ changes'[p] = changes[p]
                   /\ inbox'[p] = inbox[p] /\ status'[p] = status[p]
        BY <2>5
      <3>2. /\ history'[o] = <<[status |-> "placed", actor |-> BuyerOf[o]]>>
            /\ changes'[o] = <<>> /\ inbox'[o] = <<>> /\ status'[o] = "placed"
        BY <2>1, <2>5
      <3>3. /\ Len(history'[o]) = 1 /\ Len(changes'[o]) = 0
            /\ DOMAIN changes'[o] = {}
            /\ history'[o][1].status = "placed"
        BY <3>2
      <3>4. inbox'[o] = [i \in DOMAIN changes'[o] |-> changes'[o][i].next]
        BY <3>2
      <3>5. HistoryExplained
        BY DEF StatusInv
      <3> QED
        <4>1. Explained(o)'
          BY <3>2, <3>3, <3>4 DEF Explained
        <4> QED
          BY <3>1, <3>5, <4>1, ExplainedFrame DEF HistoryExplained
    <2> QED
      BY <2>4, <2>6, <2>7, <2>8, <2>9 DEF StatusInv
  <1>4. ASSUME NEW c \in Conn, NEW o \in Order, NEW u \in User,
               NEW s \in OrderStatus, findById(c, o, u, s)
        PROVE  StatusInv'
    <2> DEFINE t == [Idle EXCEPT !.pc = "decide", !.order = o, !.user = u,
                                 !.target = s, !.seen = status[o]]
    <2>1. t \in Tx
      BY <1>1, <1>4, IdleType DEF findById, TypeOK, Tx
    <2>2. /\ t.pc = "decide" /\ t.order = o /\ t.user = u
          /\ t.seen = status[o]
      BY DEF Idle
    <2>3. \E j \in DOMAIN history[o] : history[o][j].status = status[o]
      <3>1. /\ history[o] # <<>> /\ history[o] \in Seq(Entry)
            /\ history[o][Len(history[o])].status = status[o]
        BY <1>1, <1>4
        DEF findById, StatusInv, RowOK, HistoryExplained, Explained, TypeOK
      <3>2. Len(history[o]) \in DOMAIN history[o]
        BY <3>1
      <3> QED
        BY <3>1, <3>2
    <2>4. /\ tx' = [tx EXCEPT ![c] = t]
          /\ UNCHANGED <<rows, orderLock>>
      BY <1>4 DEF findById
    <2> HIDE DEF t
    <2>5. RequestOK(c)'
      BY <1>1, <2>1, <2>2, <2>3, <2>4 DEF RequestOK, TypeOK, rows
    <2> QED
      BY <1>1, <2>1, <2>2, <2>4, <2>5, KeepRows DEF TypeOK
  <1>5. ASSUME NEW c \in Conn, LeaveStatus(c) PROVE StatusInv'
    <2>1. tx' = [tx EXCEPT ![c] = Idle] /\ UNCHANGED <<rows, orderLock>>
      BY <1>5 DEF LeaveStatus
    <2>2. tx'[c].pc = "idle" /\ RequestOK(c)'
      BY <1>1, <2>1, IdleType DEF TypeOK, RequestOK
    <2> QED
      BY <1>1, <2>1, <2>2, IdleType, KeepRows DEF TypeOK
  <1>6. ASSUME NEW c \in Conn, Abort(c) PROVE StatusInv'
    <2>1. tx' = [tx EXCEPT ![c] = Idle] /\ ReleaseOrder(c) /\ UNCHANGED rows
      BY <1>6 DEF Abort
    <2>2. tx'[c].pc = "idle" /\ RequestOK(c)'
      BY <1>1, <2>1, IdleType DEF TypeOK, RequestOK
    <2> QED
      BY <1>1, <1>2, <2>1, <2>2, IdleType, KeepRows
  <1>7. ASSUME NEW c \in Conn, updateStatus(c) PROVE StatusInv'
    <2> DEFINE t == [tx[c] EXCEPT !.pc = "count"]
    <2>1. tx[c] \in Tx /\ tx[c].order \in Order
      BY <1>1, <1>7 DEF updateStatus, StatusInv, RequestOK, TypeOK
    <2>2. /\ t \in Tx /\ t.pc = "count" /\ t.order = tx[c].order
          /\ t.user = tx[c].user /\ t.seen = tx[c].seen /\ t.target = tx[c].target
      BY <2>1 DEF Tx
    <2>3. tx' = [tx EXCEPT ![c] = t] /\ tx'[c] = t
      BY <1>1, <1>7 DEF updateStatus, TypeOK
    <2>4. /\ orderLock[tx[c].order] = None
          /\ orderLock' = [orderLock EXCEPT ![tx[c].order] = c]
          /\ UNCHANGED rows
          /\ tx[c].pc = "decide"
          /\ ValidTransition(tx[c].order, tx[c].user, tx[c].seen, tx[c].target)
      BY <1>7 DEF updateStatus
    <2> HIDE DEF t
    <2>5. RequestOK(c)'
      <3>1. orderLock'[tx[c].order] = c
        BY <1>1, <2>1, <2>4 DEF TypeOK
      <3>2. /\ tx[c].user \in User
            /\ \E j \in DOMAIN history[tx[c].order] :
                  history[tx[c].order][j].status = tx[c].seen
        BY <2>4 DEF StatusInv, RequestOK
      <3>3. history' = history /\ t.target = tx[c].target
        BY <2>2, <2>4 DEF rows
      <3> QED
        BY <2>1, <2>2, <2>3, <2>4, <3>1, <3>2, <3>3 DEF RequestOK
    <2>6. \A d \in Conn \ {c} : tx[d].pc \in {"count", "insert"} =>
             orderLock'[tx[d].order] = orderLock[tx[d].order]
      BY <1>1, <2>1, <2>4, NobodyAssumption DEF StatusInv, RequestOK, TypeOK
    <2>7. orderLock' \in [Order -> Conn \cup {None}]
      BY <1>1, <2>4 DEF TypeOK
    <2> QED
      BY <2>2, <2>3, <2>4, <2>5, <2>6, <2>7, KeepRows
  <1>8. ASSUME NEW c \in Conn, ReadSequence(c) PROVE StatusInv'
    <2> DEFINE t == [tx[c] EXCEPT !.pc = "insert",
                                  !.sequence = Len(history[tx[c].order]) + 1]
    <2>1. tx[c] \in Tx /\ tx[c].order \in Order
      BY <1>1, <1>8 DEF ReadSequence, StatusInv, RequestOK, TypeOK
    <2>2. /\ t \in Tx /\ t.pc = "insert" /\ t.order = tx[c].order
          /\ t.user = tx[c].user /\ t.seen = tx[c].seen /\ t.target = tx[c].target
          /\ t.sequence = Len(history[tx[c].order]) + 1
      <3>1. Len(history[tx[c].order]) + 1 \in Nat
        BY <1>1, <2>1 DEF TypeOK
      <3> QED
        BY <2>1, <3>1 DEF Tx
    <2>3. /\ tx' = [tx EXCEPT ![c] = t] /\ tx'[c] = t
          /\ UNCHANGED <<rows, orderLock>> /\ tx[c].pc = "count"
      BY <1>1, <1>8 DEF ReadSequence, TypeOK
    <2> HIDE DEF t
    <2>4. RequestOK(c)'
      BY <2>1, <2>2, <2>3 DEF StatusInv, RequestOK, rows
    <2> QED
      BY <1>1, <2>2, <2>3, <2>4, KeepRows DEF TypeOK
  <1>9. ASSUME NEW c \in Conn, AppendEntry(c) PROVE StatusInv'
    <2> DEFINE o == tx[c].order
               s == tx[c].target
               u == tx[c].user
               e == [status |-> s, actor |-> u]
               change == [previous |-> tx[c].seen, next |-> s, actor |-> u]
    <2>1. /\ o \in Order /\ u \in User /\ s \in OrderStatus
          /\ tx[c].seen \in OrderStatus /\ tx[c].pc = "insert"
          /\ ValidTransition(o, u, tx[c].seen, s)
          /\ orderLock[o] = c
          /\ \E j \in DOMAIN history[o] : history[o][j].status = tx[c].seen
      BY <1>1, <1>9 DEF AppendEntry, StatusInv, RequestOK, TypeOK, Tx
    <2>2. e \in Entry /\ change \in Change /\ e.status = s
      BY <2>1 DEF Entry, Change
    <2>3. /\ status' = [status EXCEPT ![o] = s]
          /\ history' = [history EXCEPT ![o] = Append(history[o], e)]
          /\ inbox' = [inbox EXCEPT ![o] = Append(inbox[o], s)]
          /\ changes' = [changes EXCEPT ![o] = Append(changes[o], change)]
          /\ ReleaseOrder(c)
          /\ tx' = [tx EXCEPT ![c] = Idle]
      BY <1>9 DEF AppendEntry
    <2>4. /\ history[o] \in Seq(Entry) /\ history[o] # <<>>
          /\ changes[o] \in Seq(Change) /\ inbox[o] \in Seq(OrderStatus)
          /\ status[o] # "none"
      BY <1>1, <2>1 DEF TypeOK, StatusInv, RowOK
    <2> HIDE DEF o, s, u, e, change
    <2>5. TypeOK'
      BY <1>1, <1>2, <2>1, <2>2, <2>3, <2>4, IdleType DEF TypeOK
    <2>6. /\ status'[o] = s
          /\ history'[o] = Append(history[o], e)
          /\ inbox'[o] = Append(inbox[o], s)
          /\ changes'[o] = Append(changes[o], change)
          /\ \A p \in Order \ {o} :
                /\ status'[p] = status[p] /\ history'[p] = history[p]
                /\ inbox'[p] = inbox[p] /\ changes'[p] = changes[p]
      BY <1>1, <2>1, <2>3 DEF TypeOK
    <2>7. /\ tx'[c] = Idle
          /\ \A d \in Conn \ {c} : tx'[d] = tx[d]
      BY <1>1, <2>3 DEF TypeOK
    <2>8. \A d \in Conn \ {c} :
             tx[d].pc \in {"count", "insert"} => tx[d].order # o
      BY <2>1 DEF StatusInv, RequestOK
    <2>9. \A d \in Conn : RequestOK(d)'
      <3>1. \A j \in DOMAIN history[o] :
               j \in DOMAIN history'[o] /\ history'[o][j] = history[o][j]
        BY <2>4, <2>6
      <3>2. \A d \in Conn \ {c} : tx[d].pc # "idle" =>
               \E j \in DOMAIN history'[tx[d].order] :
                  history'[tx[d].order][j].status = tx[d].seen
        BY <2>6, <3>1 DEF StatusInv, RequestOK
      <3> QED
        BY <1>2, <2>3, <2>7, <3>2, IdleType DEF StatusInv, RequestOK
    <2>10. \A p \in Order : RowOK(p)'
      BY <1>1, <2>1, <2>4, <2>6 DEF StatusInv, RowOK, OrderStatus
    <2>11. SequenceStaysFree'
      <3>1. ASSUME NEW d \in Conn \ {c}, tx[d].pc = "insert"
            PROVE  tx[d].sequence = Len(history'[tx[d].order]) + 1
        <4>1. tx[d].order \in Order \ {o}
          BY <2>8, <3>1 DEF StatusInv, RequestOK
        <4> QED
          BY <2>6, <3>1, <4>1 DEF StatusInv, SequenceStaysFree
      <3> QED
        BY <2>7, <3>1, IdleType DEF SequenceStaysFree
    <2>12. HistoryExplained'
      <3>1. /\ Len(history[o]) = Len(changes[o]) + 1
            /\ inbox[o] = [i \in DOMAIN changes[o] |-> changes[o][i].next]
            /\ \A i \in DOMAIN changes[o] :
                  /\ history[o][i + 1] = [status |-> changes[o][i].next,
                                          actor |-> changes[o][i].actor]
                  /\ \E j \in 1..i : history[o][j].status = changes[o][i].previous
                  /\ ValidTransition(o, changes[o][i].actor,
                        changes[o][i].previous, changes[o][i].next)
        BY <2>1, <2>4 DEF StatusInv, HistoryExplained, Explained
      <3> DEFINE n == Len(changes[o])
      <3>2. /\ n \in Nat
            /\ Len(history'[o]) = Len(changes'[o]) + 1
            /\ DOMAIN changes'[o] = 1 .. (n + 1)
            /\ \A i \in 1 .. n : changes'[o][i] = changes[o][i]
            /\ changes'[o][n + 1] = change
            /\ \A i \in 1 .. (n + 1) : history'[o][i] = history[o][i]
            /\ history'[o][n + 2] = e
            /\ Len(history'[o]) = n + 2
        BY <2>2, <2>4, <2>6, <3>1
      <3>3. inbox'[o] = [i \in DOMAIN changes'[o] |-> changes'[o][i].next]
        <4>1. DOMAIN inbox[o] = 1 .. n /\ Len(inbox[o]) = n
          BY <2>4, <3>1
        <4>2. DOMAIN inbox'[o] = 1 .. (n + 1)
          BY <2>1, <2>4, <2>6, <4>1
        <4>3. \A i \in 1 .. (n + 1) : inbox'[o][i] = changes'[o][i].next
          BY <2>1, <2>4, <2>6, <3>1, <3>2, <4>1 DEF change
        <4>4. inbox'[o] \in Seq(OrderStatus)
          BY <2>1, <2>4, <2>6
        <4>5. inbox'[o] = [i \in 1 .. (n + 1) |-> inbox'[o][i]]
          BY <4>2, <4>4
        <4> QED
          BY <3>2, <4>3, <4>5
      <3>4. ASSUME NEW i \in DOMAIN changes'[o]
            PROVE  /\ history'[o][i + 1] = [status |-> changes'[o][i].next,
                                            actor |-> changes'[o][i].actor]
                   /\ \E j \in 1..i :
                         history'[o][j].status = changes'[o][i].previous
                   /\ ValidTransition(o, changes'[o][i].actor,
                         changes'[o][i].previous, changes'[o][i].next)
        <4>1. CASE i \in 1 .. n
          <5>1. /\ i \in DOMAIN changes[o] /\ changes'[o][i] = changes[o][i]
                /\ i + 1 \in 1 .. (n + 1) /\ 1 .. i \subseteq 1 .. (n + 1)
            BY <2>4, <3>2, <4>1
          <5>2. history'[o][i + 1] = history[o][i + 1]
            BY <3>2, <5>1
          <5>3. \A j \in 1 .. i : history'[o][j] = history[o][j]
            BY <3>2, <5>1
          <5>4. /\ history[o][i + 1] = [status |-> changes[o][i].next,
                                        actor |-> changes[o][i].actor]
                /\ \E j \in 1..i :
                      history[o][j].status = changes[o][i].previous
                /\ ValidTransition(o, changes[o][i].actor,
                      changes[o][i].previous, changes[o][i].next)
            BY <3>1, <5>1
          <5> QED
            BY <5>1, <5>2, <5>3, <5>4
        <4>2. CASE i = n + 1
          <5>1. \E j \in 1 .. (n + 1) : history[o][j].status = tx[c].seen
            BY <2>1, <2>4, <3>1
          <5>2. /\ changes'[o][i].next = s /\ changes'[o][i].actor = u
                /\ changes'[o][i].previous = tx[c].seen
            BY <3>2, <4>2 DEF change
          <5>3. history'[o][i + 1] = [status |-> s, actor |-> u]
            <6>1. i + 1 = n + 2
              BY <3>2, <4>2
            <6> QED
              BY <3>2, <6>1 DEF e
          <5>4. \E j \in 1 .. i : history'[o][j].status = tx[c].seen
            BY <3>2, <4>2, <5>1
          <5> QED
            BY <2>1, <5>2, <5>3, <5>4
        <4> QED
          BY <3>2, <4>1, <4>2
      <3>5. history'[o][Len(history'[o])].status = status'[o]
        BY <2>2, <2>6, <3>2
      <3> HIDE DEF n
      <3>6. ASSUME NEW p \in Order, p = o PROVE Explained(p)'
        BY <3>2, <3>3, <3>4, <3>5, <3>6 DEF Explained
      <3> QED
        <4>1. HistoryExplained
          BY DEF StatusInv
        <4> QED
          BY <2>6, <3>6, <4>1, ExplainedFrame DEF HistoryExplained
    <2> QED
      BY <2>5, <2>9, <2>10, <2>11, <2>12 DEF StatusInv
  <1>10. CASE UNCHANGED vars
    <2>1. UNCHANGED <<status, history, changes, inbox, orderLock, tx>>
      BY <1>10 DEF vars
    <2>2. TypeOK' /\ SequenceStaysFree' /\ \A o \in Order : RowOK(o)'
      BY <2>1 DEF StatusInv, TypeOK, SequenceStaysFree, RowOK
    <2>3. \A c \in Conn : RequestOK(c)'
      BY <2>1 DEF StatusInv, RequestOK
    <2>4. HistoryExplained'
      BY <2>1, ExplainedFrame DEF StatusInv, HistoryExplained
    <2> QED
      BY <2>2, <2>3, <2>4 DEF StatusInv
  <1> QED
    BY <1>3, <1>4, <1>5, <1>6, <1>7, <1>8, <1>9, <1>10 DEF Next, StatusStep

\* StatusInv is inductive.
LEMMA StatusCorrect == Spec => []StatusInv
  BY StatusInit, StatusNext, PTL DEF Spec

\* Rows, locks and requests always have their types.
THEOREM StatusTypes == Spec => []TypeOK
  <1>1. StatusInv => TypeOK
    BY DEF StatusInv
  <1> QED
    BY <1>1, StatusCorrect, PTL

\* No accepted status change fails on the primary key of the history.
THEOREM SequencesFree == Spec => []SequenceStaysFree
  <1>1. StatusInv => SequenceStaysFree
    BY DEF StatusInv
  <1> QED
    BY <1>1, StatusCorrect, PTL

\* Every history entry has its audit event and notification, and is a valid
\* transition from a status the order once had.
THEOREM HistoriesExplained == Spec => []HistoryExplained
  <1>1. StatusInv => HistoryExplained
    BY DEF StatusInv
  <1> QED
    BY <1>1, StatusCorrect, PTL
=============================================================================
