--------------------------- MODULE CheckoutProofs ---------------------------
(***************************************************************************)
(* Theorems of Checkout for every set of users, products, keys and          *)
(* connections. Types come first; then what a connection's pc says about    *)
(* the locks it holds (LockDiscipline), from which the rest follows: orders *)
(* and their keys, waiting, cart lines, the audit log, announcements, the     *)
(* sums of Money and the amounts of orders, and the refinement of OrderBook.  *)
(***************************************************************************)
EXTENDS Checkout, SequenceTheorems, FunctionTheorems, FiniteSetTheorems, TLAPS

\* Types of the variables and of the request on each connection.
TypeInv == TypeOK /\ \A c \in Conn : RequestOK(c)

LEMMA IdleType ==
    \A r \in Reply : Idle(r) \in Tx /\ Idle(r).pc = "idle"
  BY DEF Idle, Tx, Quote, NoQuote, QuoteLine, NoLine, CartLine, NoItem,
         EmptyCart, ProductRow, BlankRow, Status, Option

LEMMA QuoteType ==
    ASSUME NEW items \in [Product -> CartLine],
           NEW rows \in [Product -> ProductRow],
           NEW address \in Nat, NEW option \in Option \cup {None}
    PROVE  calculateCheckoutQuote(items, rows, address, option) \in Quote
  BY DEF calculateCheckoutQuote, Quote, QuoteLine, NoLine, CartLine,
         ProductRow, Wanted

\* A request record that is well formed keeps the types when it starts.
LEMMA StartTypes ==
    ASSUME tx \in [Conn -> Tx], \A d \in Conn : RequestOK(d),
           NEW c \in Conn, NEW request \in Tx, Start(c, request),
           request.pc \in {"quote", "lockCart", "upsertItem"}
             => request.buyer \in Buyer,
           request.pc = "lockCart" => request.key \in Key,
           request.pc \in {"upsertItem", "setInventory", "setStatus"}
             => request.product \in Product,
           request.pc # "lockProducts"
    PROVE  tx' \in [Conn -> Tx] /\ \A d \in Conn : RequestOK(d)'
  <1>1. tx' = [tx EXCEPT ![c] = request]
    BY DEF Start
  <1>2. tx' \in [Conn -> Tx]
    BY <1>1
  <1>3. ASSUME NEW d \in Conn PROVE RequestOK(d)'
    <2>1. CASE d = c
      BY <1>1, <2>1 DEF RequestOK
    <2>2. CASE d # c
      <3>1. tx'[d] = tx[d]
        BY <1>1, <2>2
      <3> QED
        BY <3>1 DEF RequestOK
    <2> QED
      BY <2>1, <2>2
  <1> QED
    BY <1>2, <1>3

LEMMA RowTypes ==
    /\ \A line \in CartLine : line.quantity \in Nat
    /\ \A row \in ProductRow : row.inventory \in Nat
  <1>1. Quantity \cup {0} \subseteq Nat
    BY AmountAssumption
  <1> QED
    BY <1>1 DEF CartLine, ProductRow

LEMMA TypeInit == Init => TypeInv
  <1> SUFFICES ASSUME Init PROVE TypeInv
    OBVIOUS
  <1>1. products \in [Product -> ProductRow]
    BY AmountAssumption, MoneyAssumption DEF Init, ProductRow, Status
  <1>2. cartItems \in [Buyer -> [Product -> CartLine]]
    BY DEF Init, CartLine, NoItem
  <1>3. quotes \in [Buyer -> Quote]
    BY DEF Init, NoQuote, Quote, NoLine, QuoteLine, Option
  <1>4. tx \in [Conn -> Tx] /\ \A c \in Conn : RequestOK(c)
    BY IdleType DEF Init, RequestOK, Reply
  <1>5. QED
    BY <1>1, <1>2, <1>3, <1>4, UserAssumption DEF Init, TypeInv, TypeOK

LEMMA TypeNext == TypeInv /\ [Next]_vars => TypeInv'
  <1> SUFFICES ASSUME TypeInv, [Next]_vars PROVE TypeInv'
    OBVIOUS
  <1> USE DEF TypeInv
  <1>1. ASSUME NEW c \in Conn, NEW r \in Reply, Finish(c, r)
        PROVE  tx' \in [Conn -> Tx] /\ \A d \in Conn : RequestOK(d)'
    BY <1>1, IdleType DEF Finish, TypeOK, RequestOK
  <1>2. ASSUME NEW c \in Conn, ReleaseLocks(c)
        PROVE  /\ cartLock' \in [Buyer -> Conn \cup {None}]
               /\ productLock' \in [Product -> Conn \cup {None}]
    BY <1>2 DEF ReleaseLocks, TypeOK
  <1>3. ASSUME NEW c \in Conn, Abort(c) PROVE TypeInv'
    BY <1>1, <1>2, <1>3 DEF Abort, TypeOK, shop, Reply
  <1>4. ASSUME NEW c \in Conn, NEW b \in Buyer, NEW option \in Option,
               ReadCartForQuote(c, b, option)
        PROVE TypeInv'
    <2> DEFINE quote == [NoQuote EXCEPT !.address = addresses[b],
                                        !.option = option]
               request == [Idle("none") EXCEPT
                              !.pc = "quote", !.buyer = b,
                              !.items = cartItems[b], !.quote = quote]
    <2>1. quote \in Quote
      BY DEF TypeOK, NoQuote, Quote, QuoteLine, NoLine
    <2>2. request \in Tx /\ request.pc = "quote" /\ request.buyer = b
      BY <2>1, IdleType DEF TypeOK, Tx, Reply
    <2>3. Start(c, request)
      BY <1>4 DEF ReadCartForQuote
    <2> HIDE DEF request
    <2>4. tx' \in [Conn -> Tx] /\ \A d \in Conn : RequestOK(d)'
      BY <2>2, <2>3, StartTypes DEF TypeOK
    <2> QED
      BY <1>4, <2>4 DEF ReadCartForQuote, TypeOK, shop, locks
  <1>5. ASSUME NEW c \in Conn, ReceiveQuote(c) PROVE TypeInv'
    <2>1. tx[c] \in Tx /\ tx[c].buyer \in Buyer
      BY <1>5 DEF ReceiveQuote, TypeOK, RequestOK
    <2>2. calculateCheckoutQuote(tx[c].items, products, tx[c].quote.address,
                                 tx[c].quote.option) \in Quote
      BY <2>1, QuoteType DEF TypeOK, Tx, Quote
    <2> QED
      BY <1>1, <1>5, <2>1, <2>2 DEF ReceiveQuote, TypeOK, shop, locks, Reply
  <1>6. ASSUME NEW c \in Conn, NEW b \in Buyer, NEW k \in Key,
               BeginCheckout(c, b, k)
        PROVE TypeInv'
    <2> DEFINE request == [Idle("none") EXCEPT 
                              !.pc = "lockCart", !.buyer = b, !.key = k,
                              !.quote = quotes[b]]
    <2>1. request \in Tx /\ request.pc # "lockProducts" /\ request.pc = "lockCart"
          /\ request.buyer = b /\ request.key = k
      BY IdleType DEF TypeOK, Tx, Reply
    <2>2. Start(c, request)
      BY <1>6 DEF BeginCheckout
    <2> HIDE DEF request
    <2>3. tx' \in [Conn -> Tx] /\ \A d \in Conn : RequestOK(d)'
      BY <2>1, <2>2, StartTypes DEF TypeOK
    <2> QED
      BY <1>6, <2>3 DEF BeginCheckout, TypeOK, shop, locks
  <1>7. ASSUME NEW c \in Conn, NEW b \in Buyer, NEW p \in Product,
               NEW q \in Quantity, ReadProductForCart(c, b, p, q)
        PROVE TypeInv'
    <2> DEFINE request == [Idle("none") EXCEPT 
                              !.pc = "upsertItem", !.buyer = b, !.product = p,
                              !.quantity = q]
    <2>1. request \in Tx /\ request.pc # "lockProducts" /\ request.pc = "upsertItem"
          /\ request.buyer = b /\ request.product = p
      BY IdleType DEF TypeOK, Tx, Reply
    <2>2. Start(c, request)
      BY <1>7 DEF ReadProductForCart
    <2> HIDE DEF request
    <2>3. tx' \in [Conn -> Tx] /\ \A d \in Conn : RequestOK(d)'
      BY <2>1, <2>2, StartTypes DEF TypeOK
    <2> QED
      BY <1>7, <2>3 DEF ReadProductForCart, TypeOK, shop, locks
  <1>8. ASSUME NEW b \in Buyer, NEW p \in Product, removeItem(b, p)
        PROVE TypeInv'
    BY <1>8 DEF removeItem, TypeOK, RequestOK, locks, CartLine, NoItem
  <1>9. ASSUME NEW b \in Buyer, ChangeAddress(b) PROVE TypeInv'
    BY <1>9 DEF ChangeAddress, TypeOK, RequestOK, locks
  <1>10. ASSUME NEW c \in Conn, setItem(c) PROVE TypeInv'
    <2>1. tx[c] \in Tx /\ tx[c].buyer \in Buyer /\ tx[c].product \in Product
      BY <1>10 DEF setItem, TypeOK, RequestOK
    <2>2. cartItems' \in [Buyer -> [Product -> CartLine]]
      BY <1>10, <2>1 DEF setItem, TypeOK, CartLine, Tx
    <2> QED
      BY <1>1, <1>10, <2>2 DEF setItem, TypeOK, locks, Reply
  <1>11. ASSUME NEW c \in Conn, NEW p \in Product, NEW pc,
                ReadOwnProduct(c, p, pc)
         PROVE TypeInv'
    <2> DEFINE request == [Idle("none") EXCEPT 
                              !.pc = pc, !.product = p,
                              !.rows = [@ EXCEPT ![p] = products[p]]]
    <2>1. request \in Tx /\ request.pc # "lockProducts" /\ request.pc = pc
          /\ request.product = p /\ pc \in {"setInventory", "setStatus"}
      <3>1. /\ Idle("none") \in Tx /\ products[p] \in ProductRow
            /\ pc \in {"setInventory", "setStatus"}
        BY <1>11, IdleType DEF TypeOK, Reply, ReadOwnProduct
      <3> QED
        BY <3>1 DEF Tx
    <2>2. Start(c, request)
      BY <1>11 DEF ReadOwnProduct
    <2> HIDE DEF request
    <2>3. tx' \in [Conn -> Tx] /\ \A d \in Conn : RequestOK(d)'
      BY <2>1, <2>2, StartTypes DEF TypeOK
    <2> QED
      BY <1>11, <2>3 DEF ReadOwnProduct, TypeOK, shop, locks
  <1>12. ASSUME NEW c \in Conn, KeepInventory(c) PROVE TypeInv'
    BY <1>1, <1>12 DEF KeepInventory, TypeOK, shop, locks, Reply
  <1>13. ASSUME NEW c \in Conn, NEW inventory \in Stock,
                updateProductInventory(c, inventory)
         PROVE TypeInv'
    <2>1. tx[c] \in Tx /\ tx[c].product \in Product
      BY <1>13 DEF updateProductInventory, TypeOK, RequestOK
    <2>2. /\ tx[c].rows[tx[c].product] \in ProductRow
          /\ products[tx[c].product] \in ProductRow
          /\ inventory \in Nat
      BY <2>1, AmountAssumption DEF Tx, TypeOK
    <2>3. StatusForInventory(tx[c].rows[tx[c].product].status, inventory)
             \in Status
      BY <2>2 DEF StatusForInventory, ProductRow, Status
    <2>4. products' \in [Product -> ProductRow]
      BY <1>13, <2>1, <2>2, <2>3 DEF updateProductInventory, TypeOK, ProductRow
    <2>5. inventoryAudits' \in [Product -> Seq(AuditEvent)]
      <3>1. [event |-> "set",
             previous |-> tx[c].rows[tx[c].product].inventory,
             next |-> inventory] \in AuditEvent
        BY <2>2 DEF AuditEvent, ProductRow
      <3> QED
        BY <1>13, <2>1, <3>1 DEF updateProductInventory, TypeOK
    <2> QED
      BY <1>1, <1>13, <2>4, <2>5
      DEF updateProductInventory, TypeOK, locks, Reply
  <1>14. ASSUME NEW c \in Conn, NEW status \in Status,
                updateProductStatus(c, status)
         PROVE TypeInv'
    <2>1. tx[c].product \in Product
      BY <1>14 DEF updateProductStatus, TypeOK, RequestOK
    <2>2. products' \in [Product -> ProductRow]
      BY <1>14, <2>1 DEF updateProductStatus, TypeOK, ProductRow
    <2> QED
      BY <1>1, <1>14, <2>2 DEF updateProductStatus, TypeOK, locks, Reply
  <1>15. ASSUME NEW p \in Product, NEW price \in Price, updateProduct(p, price)
         PROVE TypeInv'
    <2>1. products' \in [Product -> ProductRow]
      BY <1>15 DEF updateProduct, TypeOK, ProductRow
    <2> QED
      BY <1>15, <2>1 DEF updateProduct, TypeOK, RequestOK, locks
  <1>16. ASSUME NEW c \in Conn, ReplayOrder(c) PROVE TypeInv'
    BY <1>1, <1>16 DEF ReplayOrder, TypeOK, shop, locks, Reply
  <1>17. ASSUME NEW c \in Conn, RejectEmptyCart(c) PROVE TypeInv'
    BY <1>1, <1>17 DEF RejectEmptyCart, TypeOK, shop, locks, Reply
  <1>18. ASSUME NEW c \in Conn, findForCheckout(c) PROVE TypeInv'
    <2>1. tx[c] \in Tx /\ tx[c].buyer \in Buyer
      BY <1>18 DEF findForCheckout, TypeOK, RequestOK
    <2>2. cartItems[tx[c].buyer] \in [Product -> CartLine]
      BY <2>1 DEF TypeOK
    <2>3. tx' \in [Conn -> Tx] /\ \A d \in Conn : RequestOK(d)'
      BY <1>18, <2>1, <2>2 DEF findForCheckout, TypeOK, RequestOK, Tx
    <2> QED
      BY <1>18, <2>1, <2>3 DEF findForCheckout, TypeOK, shop
  <1>19. ASSUME NEW c \in Conn, NEW p \in Product, findByIdsForUpdate(c, p)
         PROVE TypeInv'
    <2>1. tx[c] \in Tx /\ products[p] \in ProductRow
      BY DEF TypeOK
    <2>2. tx' \in [Conn -> Tx] /\ \A d \in Conn : RequestOK(d)'
      BY <1>19, <2>1 DEF findByIdsForUpdate, TypeOK, RequestOK, Tx
    <2> QED
      BY <1>19, <2>2 DEF findByIdsForUpdate, TypeOK, shop
  <1>20. ASSUME NEW c \in Conn, RejectUnavailable(c) PROVE TypeInv'
    BY <1>1, <1>2, <1>20 DEF RejectUnavailable, TypeOK, shop, Reply
  <1>21. ASSUME NEW c \in Conn, RejectChangedQuote(c) PROVE TypeInv'
    BY <1>1, <1>2, <1>21 DEF RejectChangedQuote, TypeOK, shop, Reply
  <1>22. ASSUME NEW c \in Conn, PlaceOrder(c) PROVE TypeInv'
    <2>1. tx[c] \in Tx /\ tx[c].buyer \in Buyer /\ tx[c].key \in Key
      BY <1>22 DEF PlaceOrder, RowsLocked, TypeOK, RequestOK
    <2>2. /\ tx[c].items \in [Product -> CartLine]
          /\ tx[c].rows \in [Product -> ProductRow]
          /\ tx[c].quote \in Quote
      BY <2>1 DEF Tx
    <2>3. orders' \in Seq(Order)
      <3>1. createPlaced(c) \in Order
        BY <2>1, <2>2 DEF createPlaced, Order, ProductRow
      <3> QED
        BY <1>22, <3>1 DEF PlaceOrder, TypeOK
    <2>4. products' \in [Product -> ProductRow]
      <3>1. ASSUME NEW p \in Wanted(tx[c].items)
            PROVE  [products[p] EXCEPT !.inventory = @ - tx[c].items[p].quantity]
                      \in ProductRow
        <4>1. /\ p \in Product
              /\ products[p] \in ProductRow
              /\ tx[c].items[p] \in CartLine
          BY <2>2 DEF Wanted, TypeOK
        <4>2. /\ products[p].inventory \in Nat
              /\ tx[c].items[p].quantity \in Nat
          BY <4>1, RowTypes
        <4>3. products[p].inventory >= tx[c].items[p].quantity
          BY <1>22 DEF PlaceOrder
        <4>4. products[p].inventory - tx[c].items[p].quantity \in Nat
          BY <4>2, <4>3
        <4> QED
          BY <4>1, <4>4 DEF ProductRow
      <3> QED
        BY <1>22, <3>1
        DEF PlaceOrder, decrementAvailableInventory, TypeOK
    <2>5. inventoryAudits' \in [Product -> Seq(AuditEvent)]
      <3>1. ASSUME NEW p \in Wanted(tx[c].items)
            PROVE [event |-> "decremented",
                   previous |-> tx[c].rows[p].inventory,
                   next |-> tx[c].rows[p].inventory - tx[c].items[p].quantity]
                     \in AuditEvent
        <4>1. tx[c].rows[p] \in ProductRow /\ tx[c].items[p] \in CartLine
          BY <2>2 DEF Wanted
        <4>2. /\ tx[c].rows[p].inventory \in Nat
              /\ tx[c].items[p].quantity \in Nat
          BY <4>1, RowTypes
        <4>3. tx[c].rows[p].inventory >= tx[c].items[p].quantity
          BY <1>22 DEF PlaceOrder, Sellable
        <4>4. tx[c].rows[p].inventory - tx[c].items[p].quantity \in Nat
          BY <4>2, <4>3
        <4> QED
          BY <4>2, <4>4 DEF AuditEvent
      <3> QED
        BY <1>22, <3>1 DEF PlaceOrder, appendDecrements, TypeOK
    <2>6. cartItems' \in [Buyer -> [Product -> CartLine]]
      BY <1>22 DEF PlaceOrder, clear, TypeOK, EmptyCart, NoItem, CartLine
    <2>7. notifications' \in [User -> Seq(Nat)]
      <3>1. Len(orders) + 1 \in Nat
        BY DEF TypeOK
      <3>2. ASSUME NEW inboxes \in [User -> Seq(Nat)], NEW users
            PROVE Notify(inboxes, users, Len(orders) + 1) \in [User -> Seq(Nat)]
        BY <3>1 DEF Notify
      <3>3. Notify(notifications, {tx[c].buyer}, Len(orders) + 1)
               \in [User -> Seq(Nat)]
        BY <3>2 DEF TypeOK
      <3> QED
        BY <1>22, <3>2, <3>3 DEF PlaceOrder
    <2> QED
      BY <1>1, <1>2, <1>22, <2>3, <2>4, <2>5, <2>6, <2>7
      DEF PlaceOrder, TypeOK, Reply
  <1>23. CASE UNCHANGED vars
    BY <1>23 DEF vars, TypeOK, RequestOK
  <1> QED
    BY <1>3, <1>4, <1>5, <1>6, <1>7, <1>8, <1>9, <1>10, <1>11, <1>12, <1>13,
       <1>14, <1>15, <1>16, <1>17, <1>18, <1>19, <1>20, <1>21, <1>22, <1>23
    DEF Next, CheckoutStep, ShopperNext, SellerNext

\* The rows, locks and requests always have their types.
THEOREM TypeCorrect == Spec => []TypeOK
  <1>1. Spec => []TypeInv
    BY TypeInit, TypeNext, PTL DEF Spec
  <1>2. TypeInv => TypeOK
    BY DEF TypeInv
  <1> QED
    BY <1>1, <1>2, PTL

-----------------------------------------------------------------------------
(* Kinds of steps: most actions matter to an invariant only by what they     *)
(* leave alone, so StepKinds sorts them into the few kinds that the proofs   *)
(* below distinguish.                                                        *)


\* A step outside the locked section of every checkout: it moves no lock and
\* changes no locked row.
QuietStep ==
    /\ UNCHANGED <<orders, cartLock, productLock>>
    /\ \A c \in Conn :
          \/ tx'[c] = tx[c]
          \/ tx[c].pc # "lockProducts" /\ tx'[c].pc # "lockProducts"
    /\ \A p \in Product : productLock[p] # None => products'[p] = products[p]

\* The transaction of c ends without an order.
RollbackStep(c) ==
    /\ ReleaseLocks(c)
    /\ \E r \in Reply : Finish(c, r)
    /\ UNCHANGED shop

LEMMA StepKinds ==
    ASSUME TypeInv, [Next]_vars
    PROVE  \/ QuietStep
           \/ \E c \in Conn : \/ RollbackStep(c)
                              \/ findForCheckout(c)
                              \/ \E p \in Product : findByIdsForUpdate(c, p)
                              \/ PlaceOrder(c)
  <1>1. ASSUME NEW c \in Conn, NEW r \in Reply, Finish(c, r),
               tx[c].pc # "lockProducts"
        PROVE  \A d \in Conn :
                  \/ tx'[d] = tx[d]
                  \/ tx[d].pc # "lockProducts" /\ tx'[d].pc # "lockProducts"
    BY <1>1, IdleType DEF Finish, TypeInv, TypeOK
  <1>2. ASSUME NEW c \in Conn, NEW request, Start(c, request),
               request.pc # "lockProducts"
        PROVE  \A d \in Conn :
                  \/ tx'[d] = tx[d]
                  \/ tx[d].pc # "lockProducts" /\ tx'[d].pc # "lockProducts"
    BY <1>2 DEF Start, TypeInv, TypeOK
  <1>3. ASSUME NEW c \in Conn, Abort(c) PROVE RollbackStep(c)
    BY <1>3 DEF Abort, RollbackStep, Reply
  <1>4. ASSUME NEW c \in Conn, RejectUnavailable(c) PROVE RollbackStep(c)
    BY <1>4 DEF RejectUnavailable, RollbackStep, Reply
  <1>5. ASSUME NEW c \in Conn, RejectChangedQuote(c) PROVE RollbackStep(c)
    BY <1>5 DEF RejectChangedQuote, RollbackStep, Reply
  <1>6. ASSUME NEW c \in Conn, ReplayOrder(c) \/ RejectEmptyCart(c)
        PROVE  QuietStep
    BY <1>1, <1>6 DEF ReplayOrder, RejectEmptyCart, QuietStep, Reply, shop, locks
  <1>7. ASSUME NEW c \in Conn, NEW b \in Buyer, NEW option \in Option,
               ReadCartForQuote(c, b, option)
        PROVE  QuietStep
    <2> DEFINE request == [Idle("none") EXCEPT
                    !.pc = "quote", !.buyer = b, !.items = cartItems[b],
                    !.quote = [NoQuote EXCEPT !.address = addresses[b],
                                              !.option = option]]
    <2>1. request.pc = "quote"
      BY DEF Idle
    <2>2. Start(c, request)
      BY <1>7 DEF ReadCartForQuote
    <2> HIDE DEF request
    <2> QED
      BY <1>2, <1>7, <2>1, <2>2 DEF ReadCartForQuote, QuietStep, shop, locks
  <1>8. ASSUME NEW c \in Conn, ReceiveQuote(c) PROVE QuietStep
    BY <1>1, <1>8 DEF ReceiveQuote, QuietStep, Reply, shop, locks
  <1>9. ASSUME NEW c \in Conn, NEW b \in Buyer, NEW k \in Key,
               BeginCheckout(c, b, k)
        PROVE  QuietStep
    BY <1>2, <1>9 DEF BeginCheckout, QuietStep, Idle, shop, locks
  <1>10. ASSUME NEW c \in Conn, NEW b \in Buyer, NEW p \in Product,
                NEW q \in Quantity, ReadProductForCart(c, b, p, q)
         PROVE  QuietStep
    BY <1>2, <1>10 DEF ReadProductForCart, QuietStep, Idle, shop, locks
  <1>11. ASSUME NEW b \in Buyer, NEW p \in Product, removeItem(b, p)
         PROVE  QuietStep
    BY <1>11 DEF removeItem, QuietStep, locks
  <1>12. ASSUME NEW c \in Conn, setItem(c) PROVE QuietStep
    BY <1>1, <1>12 DEF setItem, QuietStep, Reply, locks
  <1>13. ASSUME NEW c \in Conn, NEW p \in Product,
                NEW pc \in {"setInventory", "setStatus"},
                ReadOwnProduct(c, p, pc)
         PROVE  QuietStep
    BY <1>2, <1>13 DEF ReadOwnProduct, QuietStep, Idle, shop, locks
  <1>14. ASSUME NEW c \in Conn, KeepInventory(c) PROVE QuietStep
    BY <1>1, <1>14 DEF KeepInventory, QuietStep, Reply, shop, locks
  <1>15. ASSUME NEW c \in Conn, NEW inventory \in Stock,
                updateProductInventory(c, inventory)
         PROVE  QuietStep
    BY <1>1, <1>15
    DEF updateProductInventory, QuietStep, Reply, locks, TypeInv, TypeOK
  <1>16. ASSUME NEW c \in Conn, NEW status \in Status,
                updateProductStatus(c, status)
         PROVE  QuietStep
    BY <1>1, <1>16
    DEF updateProductStatus, QuietStep, Reply, locks, TypeInv, TypeOK
  <1>17. ASSUME NEW p \in Product, NEW price \in Price, updateProduct(p, price)
         PROVE  QuietStep
    BY <1>17 DEF updateProduct, QuietStep, locks, TypeInv, TypeOK
  <1>18. CASE UNCHANGED vars
    BY <1>18 DEF vars, QuietStep
  <1>19. ASSUME NEW b \in Buyer, ChangeAddress(b) PROVE QuietStep
    BY <1>19 DEF ChangeAddress, QuietStep, locks
  <1> QED
    BY <1>3, <1>4, <1>5, <1>6, <1>7, <1>8, <1>9, <1>10, <1>11, <1>12, <1>13,
       <1>14, <1>15, <1>16, <1>17, <1>18, <1>19
    DEF Next, CheckoutStep, ShopperNext, SellerNext

-----------------------------------------------------------------------------
(* Locks *)

LockInv == TypeInv /\ LockDiscipline /\ LockedRowsCurrent

LEMMA LockInit == Init => LockDiscipline /\ LockedRowsCurrent
  <1> SUFFICES ASSUME Init PROVE LockDiscipline /\ LockedRowsCurrent
    OBVIOUS
  <1>1. \A c \in Conn : tx[c].pc = "idle"
    BY IdleType DEF Init, Reply
  <1>2. \A c \in Conn, p \in Product : productLock[p] # c
    BY NoneAssumption DEF Init
  <1> QED
    BY <1>1, <1>2 DEF Init, LockDiscipline, LockedRowsCurrent

\* Whoever holds a lock is in the locked section of a checkout.
LEMMA HoldersCheckOut ==
    ASSUME LockInv, NEW c \in Conn, tx[c].pc # "lockProducts"
    PROVE  /\ \A b \in Buyer : cartLock[b] # c
           /\ \A p \in Product : productLock[p] # c
  BY NoneAssumption DEF LockInv, LockDiscipline, LockedRowsCurrent

\* While a checkout is in its locked section nobody else's locked section is
\* about the same buyer.
LEMMA OneCheckoutPerCart ==
    ASSUME LockInv, NEW c \in Conn, NEW d \in Conn,
           tx[c].pc = "lockProducts", tx[d].pc = "lockProducts",
           tx[c].buyer = tx[d].buyer
    PROVE  c = d
  BY DEF LockInv, LockDiscipline

LEMMA ReleaseKeepsLocks ==
    ASSUME LockInv, NEW c \in Conn, ReleaseLocks(c),
           \E r \in Reply : Finish(c, r),
           \A d \in Conn \ {c} : tx[d].pc = "lockProducts" =>
              /\ OrdersWith(tx[d].buyer, tx[d].key)' = {}
              /\ \A p \in Product : productLock[p] = d
                    => products'[p] = products[p]
    PROVE  LockDiscipline' /\ LockedRowsCurrent'
  <1>1. tx'[c].pc = "idle" /\ \A d \in Conn \ {c} : tx'[d] = tx[d]
    BY IdleType DEF Finish, LockInv, TypeInv, TypeOK
  <1>2. \A b \in Buyer :
           cartLock'[b] = IF cartLock[b] = c THEN None ELSE cartLock[b]
    BY DEF ReleaseLocks
  <1>3. \A p \in Product :
           productLock'[p] = IF productLock[p] = c THEN None ELSE productLock[p]
    BY DEF ReleaseLocks
  <1>4. \A d \in Conn : tx'[d].pc = "lockProducts" =>
            /\ cartLock'[tx'[d].buyer] = d
            /\ OrdersWith(tx[d].buyer, tx[d].key)' = {}
    BY <1>1, <1>2 DEF LockInv, LockDiscipline, TypeInv, RequestOK
  <1>5. \A b \in Buyer : cartLock'[b] # None =>
            /\ tx'[cartLock'[b]].pc = "lockProducts"
            /\ tx'[cartLock'[b]].buyer = b
    BY <1>1, <1>2 DEF LockInv, LockDiscipline, TypeInv, TypeOK
  <1>6. \A d \in Conn : \A p \in Product : \A q \in Wanted(tx'[d].items) :
            productLock'[p] = d /\ q < p => productLock'[q] = d
    BY <1>1, <1>3, NoneAssumption DEF LockInv, LockDiscipline, Wanted
  <1>7. LockedRowsCurrent'
    BY <1>1, <1>3, NoneAssumption
    DEF LockInv, LockedRowsCurrent, Wanted
  <1> QED
    BY <1>4, <1>5, <1>6, <1>7 DEF LockDiscipline, Wanted, OrdersWith

LEMMA LockNext == LockInv /\ [Next]_vars => LockDiscipline' /\ LockedRowsCurrent'
  <1> SUFFICES ASSUME LockInv, [Next]_vars
               PROVE  LockDiscipline' /\ LockedRowsCurrent'
    OBVIOUS
  <1>1. TypeInv /\ TypeInv'
    BY TypeNext DEF LockInv
  <1>2. CASE QuietStep
    <2>1. \A c \in Conn : tx'[c].pc = "lockProducts" => tx'[c] = tx[c]
      BY <1>2 DEF QuietStep
    <2>2. \A c \in Conn : tx[c].pc = "lockProducts" => tx'[c] = tx[c]
      BY <1>2 DEF QuietStep
    <2>3. LockedRowsCurrent'
      BY <1>2, <2>2, NoneAssumption
      DEF QuietStep, LockInv, LockedRowsCurrent, Wanted
    <2>4. \A c \in Conn : \A p \in Product :
             productLock[p] = c => tx'[c] = tx[c]
      BY <2>2 DEF LockInv, LockedRowsCurrent
    <2>5. \A b \in Buyer : cartLock[b] # None => tx'[cartLock[b]] = tx[cartLock[b]]
      BY <2>2, <1>1 DEF LockInv, LockDiscipline, TypeInv, TypeOK
    <2> QED
      BY <1>2, <2>1, <2>3, <2>4, <2>5
      DEF QuietStep, LockInv, LockDiscipline, Wanted, OrdersWith
  <1>3. ASSUME NEW c \in Conn, RollbackStep(c)
        PROVE  LockDiscipline' /\ LockedRowsCurrent'
    <2>1. ReleaseLocks(c) /\ (\E r \in Reply : Finish(c, r))
            /\ UNCHANGED <<orders, products>>
      BY <1>3 DEF RollbackStep, shop
    <2>2. \A d \in Conn \ {c} : tx'[d] = tx[d]
      BY <1>1, <2>1 DEF Finish, TypeInv, TypeOK
    <2>3. \A d \in Conn \ {c} : tx[d].pc = "lockProducts" =>
             OrdersWith(tx[d].buyer, tx[d].key)' = {}
      BY <2>1, <2>2 DEF LockInv, LockDiscipline, OrdersWith
    <2> QED
      BY <2>1, <2>3, ReleaseKeepsLocks
  <1>4. ASSUME NEW c \in Conn, findForCheckout(c)
        PROVE  LockDiscipline' /\ LockedRowsCurrent'
    <2>1. tx[c].buyer \in Buyer /\ tx[c].pc = "lockCart"
      BY <1>1, <1>4 DEF findForCheckout, TypeInv, RequestOK
    <2>2. /\ tx'[c].pc = "lockProducts"
          /\ tx'[c].buyer = tx[c].buyer
          /\ tx'[c].key = tx[c].key
          /\ \A d \in Conn \ {c} : tx'[d] = tx[d]
      BY <1>1, <1>4 DEF findForCheckout, TypeInv, TypeOK, Tx
    <2>3. /\ cartLock[tx[c].buyer] = None
          /\ cartLock' = [cartLock EXCEPT ![tx[c].buyer] = c]
          /\ UNCHANGED <<productLock, products, orders>>
          /\ OrdersWith(tx[c].buyer, tx[c].key) = {}
      BY <1>4 DEF findForCheckout, CartFree, shop
    <2>4. \A p \in Product : productLock[p] # c
      BY <2>1, HoldersCheckOut
    <2>5. LockedRowsCurrent'
      BY <2>2, <2>3, <2>4 DEF LockInv, LockedRowsCurrent, Wanted
    <2>6. \A d \in Conn : tx'[d].pc = "lockProducts" =>
             /\ cartLock'[tx'[d].buyer] = d
             /\ OrdersWith(tx'[d].buyer, tx'[d].key) = {}
      <3>1. cartLock'[tx[c].buyer] = c
        BY <1>1, <2>1, <2>3 DEF TypeInv, TypeOK
      <3>2. ASSUME NEW d \in Conn \ {c}, tx[d].pc = "lockProducts"
            PROVE  /\ cartLock'[tx[d].buyer] = d
                   /\ OrdersWith(tx[d].buyer, tx[d].key) = {}
        <4>1. /\ cartLock[tx[d].buyer] = d
              /\ OrdersWith(tx[d].buyer, tx[d].key) = {}
          BY <3>2 DEF LockInv, LockDiscipline
        <4>2. d # None /\ tx[d].buyer \in Buyer
          BY <1>1, <3>2, NoneAssumption DEF TypeInv, RequestOK
        <4> QED
          BY <1>1, <2>3, <4>1, <4>2 DEF TypeInv, TypeOK
      <3> QED
        BY <2>2, <2>3, <3>1, <3>2
    <2>7. ASSUME NEW b \in Buyer, cartLock'[b] # None
          PROVE  /\ tx'[cartLock'[b]].pc = "lockProducts"
                 /\ tx'[cartLock'[b]].buyer = b
      <3>1. CASE b = tx[c].buyer
        BY <1>1, <2>2, <2>3, <3>1 DEF TypeInv, TypeOK
      <3>2. CASE b # tx[c].buyer
        <4>1. cartLock'[b] = cartLock[b] /\ cartLock[b] \in Conn
          BY <1>1, <2>3, <2>7, <3>2 DEF TypeInv, TypeOK
        <4>2. /\ tx[cartLock[b]].pc = "lockProducts"
              /\ tx[cartLock[b]].buyer = b
          BY <2>7, <4>1 DEF LockInv, LockDiscipline
        <4> QED
          BY <2>1, <2>2, <4>1, <4>2
      <3> QED
        BY <3>1, <3>2
    <2>8. \A d \in Conn : \A p \in Product : \A q \in Wanted(tx'[d].items) :
             productLock'[p] = d /\ q < p => productLock'[q] = d
      BY <2>2, <2>3, <2>4 DEF LockInv, LockDiscipline, Wanted
    <2> QED
      BY <2>3, <2>5, <2>6, <2>7, <2>8 DEF LockDiscipline, Wanted, OrdersWith
  <1>5. ASSUME NEW c \in Conn, NEW p \in Product, findByIdsForUpdate(c, p)
        PROVE  LockDiscipline' /\ LockedRowsCurrent'
    <2>1. /\ tx[c].pc = "lockProducts" /\ p \in Wanted(tx[c].items)
          /\ productLock[p] = None
          /\ \A q \in Wanted(tx[c].items) : q < p => productLock[q] = c
          /\ productLock' = [productLock EXCEPT ![p] = c]
          /\ UNCHANGED <<cartLock, products, orders>>
      BY <1>5 DEF findByIdsForUpdate, shop
    <2>2. /\ tx'[c].pc = tx[c].pc /\ tx'[c].buyer = tx[c].buyer
          /\ tx'[c].key = tx[c].key /\ tx'[c].items = tx[c].items
          /\ \A d \in Conn \ {c} : tx'[d] = tx[d]
      BY <1>1, <1>5 DEF findByIdsForUpdate, TypeInv, TypeOK, Tx
    <2>3. /\ tx'[c].rows[p] = products[p]
          /\ \A q \in Product \ {p} : tx'[c].rows[q] = tx[c].rows[q]
      BY <1>1, <1>5 DEF findByIdsForUpdate, TypeInv, TypeOK, Tx
    <2>4. /\ productLock'[p] = c
          /\ \A q \in Product \ {p} : productLock'[q] = productLock[q]
      BY <1>1, <2>1 DEF TypeInv, TypeOK
    <2>5. LockedRowsCurrent'
      BY <2>1, <2>2, <2>3, <2>4 DEF LockInv, LockedRowsCurrent, Wanted
    <2>6. \A d \in Conn : \A r \in Product : \A q \in Wanted(tx'[d].items) :
             productLock'[r] = d /\ q < r => productLock'[q] = d
      BY <2>1, <2>2, <2>4, NoneAssumption DEF LockInv, LockDiscipline, Wanted
    <2>7. /\ \A d \in Conn : tx'[d].pc = "lockProducts" =>
               /\ cartLock'[tx'[d].buyer] = d
               /\ OrdersWith(tx'[d].buyer, tx'[d].key) = {}
          /\ \A b \in Buyer : cartLock'[b] # None =>
               /\ tx'[cartLock'[b]].pc = "lockProducts"
               /\ tx'[cartLock'[b]].buyer = b
      <3>1. \A d \in Conn : /\ tx'[d].pc = tx[d].pc
                             /\ tx'[d].buyer = tx[d].buyer
                             /\ tx'[d].key = tx[d].key
        BY <2>2
      <3>2. \A b \in Buyer : cartLock[b] # None => cartLock[b] \in Conn
        BY <1>1 DEF TypeInv, TypeOK
      <3> QED
        BY <2>1, <3>1, <3>2 DEF LockInv, LockDiscipline
    <2> QED
      BY <2>1, <2>5, <2>6, <2>7 DEF LockDiscipline, Wanted, OrdersWith
  <1>6. ASSUME NEW c \in Conn, PlaceOrder(c)
        PROVE  LockDiscipline' /\ LockedRowsCurrent'
    <2>1. /\ tx[c].pc = "lockProducts"
          /\ \A p \in Wanted(tx[c].items) : productLock[p] = c
          /\ orders' = Append(orders, createPlaced(c))
          /\ products' = decrementAvailableInventory(tx[c].items)
          /\ ReleaseLocks(c) /\ Finish(c, "placed")
      BY <1>6 DEF PlaceOrder, RowsLocked
    <2>2. ASSUME NEW d \in Conn \ {c}, tx[d].pc = "lockProducts"
          PROVE  OrdersWith(tx[d].buyer, tx[d].key)' = {}
      <3>1. tx[d].buyer # tx[c].buyer
        BY <2>1, <2>2, OneCheckoutPerCart
      <3>2. OrdersWith(tx[d].buyer, tx[d].key) = {}
        BY <2>2 DEF LockInv, LockDiscipline
      <3>3. orders \in Seq(Order) /\ createPlaced(c).buyer = tx[c].buyer
        BY <1>1 DEF TypeInv, TypeOK, createPlaced
      <3>4. tx'[d] = tx[d]
        BY <1>1, <2>1 DEF Finish, TypeInv, TypeOK
      <3>5. \A n \in DOMAIN orders' :
               ~(orders'[n].buyer = tx[d].buyer /\ orders'[n].key = tx[d].key)
        BY <2>1, <3>1, <3>2, <3>3 DEF OrdersWith
      <3> QED
        BY <3>4, <3>5 DEF OrdersWith
    <2>3. ASSUME NEW d \in Conn \ {c}, NEW p \in Product, productLock[p] = d
          PROVE  products'[p] = products[p]
      BY <2>1, <2>3 DEF decrementAvailableInventory
    <2> QED
      BY <2>1, <2>2, <2>3, ReleaseKeepsLocks DEF Reply
  <1> QED
    BY <1>1, <1>2, <1>3, <1>4, <1>5, <1>6, StepKinds

\* LockInv is inductive.
LEMMA LockCorrect == Spec => []LockInv
  <1>1. Init => LockInv
    BY TypeInit, LockInit DEF LockInv
  <1>2. LockInv /\ [Next]_vars => LockInv'
    BY TypeNext, LockNext DEF LockInv
  <1> QED
    BY <1>1, <1>2, PTL DEF Spec

\* What a checkout read from a locked row is what the row says until it commits.
THEOREM LockedRowsStayCurrent == Spec => []LockedRowsCurrent
  <1>1. LockInv => LockedRowsCurrent
    BY DEF LockInv
  <1> QED
    BY <1>1, LockCorrect, PTL

\* Requests that wait for each other's rows never form a cycle, because every
\* checkout locks its products in id order after its cart.
THEOREM WaitingIsOrdered == Spec => []NoLockCycle
  <1>1. ASSUME LockInv, NEW c \in Conn, NEW d \in Conn, NEW p \in Product,
               WaitsForProduct(c, p), productLock[p] = d
        PROVE  /\ c # d
               /\ \A q \in Product : WaitsForProduct(d, q) => p < q
               /\ \A q \in Holds(c) : q < p
               /\ tx[d].pc # "lockCart"
    <2>1. tx[d].pc = "lockProducts" /\ p \in Wanted(tx[d].items)
      BY <1>1 DEF LockInv, LockedRowsCurrent
    <2>2. c # d
      BY <1>1, <2>1 DEF WaitsForProduct
    <2>3. ASSUME NEW q \in Product, WaitsForProduct(d, q) PROVE p < q
      <3>1. /\ q \in Wanted(tx[d].items)
            /\ productLock[q] # d
        BY <2>1, <2>3 DEF WaitsForProduct
      <3>2. ~(q < p)
        BY <1>1, <3>1 DEF LockInv, LockDiscipline
      <3>3. q # p
        BY <1>1, <3>1
      <3>4. p \in Nat /\ q \in Nat
        BY ProductAssumption
      <3> QED
        BY <3>2, <3>3, <3>4
    <2>4. ASSUME NEW q \in Holds(c) PROVE q < p
      <3>1. tx[c].pc = "lockProducts" /\ q \in Product /\ productLock[q] = c
        BY <1>1, <2>4 DEF Holds, LockInv, LockedRowsCurrent
      <3>2. p \in Wanted(tx[c].items)
        BY <1>1, <3>1 DEF WaitsForProduct
      <3>3. ~(p < q)
        BY <1>1, <2>2, <3>1, <3>2 DEF LockInv, LockDiscipline
      <3> QED
        BY <1>1, <2>2, <3>1, <3>3, ProductAssumption
    <2> QED
      BY <2>1, <2>2, <2>3, <2>4
  <1>2. LockInv => NoLockCycle
    BY <1>1 DEF NoLockCycle
  <1> QED
    BY <1>2, LockCorrect, PTL

-----------------------------------------------------------------------------
(* Orders *)

\* Orders appear only in PlaceOrder.
LEMMA OrdersAppear ==
    ASSUME TypeInv, [Next]_vars
    PROVE  orders' = orders \/ \E c \in Conn : PlaceOrder(c)
  BY StepKinds
  DEF QuietStep, RollbackStep, findForCheckout, findByIdsForUpdate, shop

LEMMA OneOrderNext == LockInv /\ OneOrderPerKey /\ [Next]_vars => OneOrderPerKey'
  <1> SUFFICES ASSUME LockInv, OneOrderPerKey, [Next]_vars
               PROVE  OneOrderPerKey'
    OBVIOUS
  <1>1. CASE orders' = orders
    BY <1>1 DEF OneOrderPerKey
  <1>2. ASSUME NEW c \in Conn, PlaceOrder(c) PROVE OneOrderPerKey'
    <2>1. /\ orders \in Seq(Order)
          /\ orders' = Append(orders, createPlaced(c))
          /\ tx[c].pc = "lockProducts"
      BY <1>2 DEF PlaceOrder, RowsLocked, LockInv, TypeInv, TypeOK
    <2>2. /\ createPlaced(c).buyer = tx[c].buyer
          /\ createPlaced(c).key = tx[c].key
      BY DEF createPlaced
    <2>3. \A n \in DOMAIN orders :
             ~(orders[n].buyer = tx[c].buyer /\ orders[n].key = tx[c].key)
      BY <2>1 DEF LockInv, LockDiscipline, OrdersWith
    <2>4. DOMAIN orders' = DOMAIN orders \cup {Len(orders) + 1}
      BY <2>1
    <2>5. /\ \A n \in DOMAIN orders : orders'[n] = orders[n]
          /\ orders'[Len(orders) + 1] = createPlaced(c)
      BY <2>1
    <2> QED
      BY <2>2, <2>3, <2>4, <2>5 DEF OneOrderPerKey
  <1> QED
    BY <1>1, <1>2, OrdersAppear DEF LockInv

\* A buyer never gets two orders for one idempotency key, on however many
\* connections the key is sent.
THEOREM OneOrder == Spec => []OneOrderPerKey
  <1>1. Init => OneOrderPerKey
    BY DEF Init, OneOrderPerKey
  <1> QED
    BY <1>1, OneOrderNext, LockCorrect, PTL DEF Spec

\* A request whose key has an order is answered with it, or its connection is
\* lost: it is never rejected and never placed again.
THEOREM RetriesAnswered == Spec => RetryAnswered
  <1>1. ASSUME TypeInv, [Next]_vars, NEW c \in Conn,
               tx[c].pc = "lockCart", OrdersWith(tx[c].buyer, tx[c].key) # {}
        PROVE  tx'[c] = tx[c] \/ tx'[c].reply \in {"replayed", "lost"}
    <2>1. ASSUME NEW r \in Reply PROVE Idle(r).reply = r
      BY DEF Idle
    <2>2. ASSUME NEW d \in Conn, NEW r \in Reply, Finish(d, r),
                 d = c => r \in {"replayed", "lost"}
          PROVE  tx'[c] = tx[c] \/ tx'[c].reply \in {"replayed", "lost"}
      BY <2>1, <2>2 DEF Finish, TypeInv, TypeOK
    <2>3. ASSUME NEW d \in Conn, NEW request, Start(d, request)
          PROVE  tx'[c] = tx[c]
      BY <1>1, <2>3 DEF Start, TypeInv, TypeOK
    <2>4. ASSUME NEW d \in Conn, CheckoutStep(d) \/ Abort(d)
          PROVE  tx'[c] = tx[c] \/ tx'[c].reply \in {"replayed", "lost"}
      <3>1. CASE Abort(d)
        BY <2>2, <3>1 DEF Abort, Reply
      <3>2. CASE ReplayOrder(d)
        BY <2>2, <3>2 DEF ReplayOrder, Reply
      <3>3. CASE RejectEmptyCart(d)
        BY <1>1, <2>2, <3>3 DEF RejectEmptyCart, Reply
      <3>4. CASE findForCheckout(d)
        BY <1>1, <3>4 DEF findForCheckout, TypeInv, TypeOK
      <3>5. ASSUME NEW p \in Product, findByIdsForUpdate(d, p)
            PROVE  tx'[c] = tx[c]
        BY <1>1, <3>5 DEF findByIdsForUpdate, TypeInv, TypeOK
      <3>6. CASE RejectUnavailable(d)
        BY <1>1, <2>2, <3>6 DEF RejectUnavailable, RowsLocked, Reply
      <3>7. CASE RejectChangedQuote(d)
        BY <1>1, <2>2, <3>7 DEF RejectChangedQuote, RowsLocked, Reply
      <3>8. CASE PlaceOrder(d)
        BY <1>1, <2>2, <3>8 DEF PlaceOrder, RowsLocked, Reply
      <3> QED
        BY <2>4, <3>1, <3>2, <3>3, <3>4, <3>5, <3>6, <3>7, <3>8
        DEF CheckoutStep
    <2>5. ASSUME NEW d \in Conn,
                 ReceiveQuote(d) \/ setItem(d) \/ KeepInventory(d)
          PROVE  tx'[c] = tx[c]
      BY <1>1, <2>5
      DEF ReceiveQuote, setItem, KeepInventory, Finish, TypeInv, TypeOK
    <2>6. ASSUME NEW d \in Conn, NEW x,
                 updateProductInventory(d, x) \/ updateProductStatus(d, x)
          PROVE  tx'[c] = tx[c]
      BY <1>1, <2>6
      DEF updateProductInventory, updateProductStatus, Finish, TypeInv, TypeOK
    <2>7. ASSUME ShopperNext PROVE tx'[c] = tx[c]
      <3>1. ASSUME NEW d \in Conn, NEW b \in Buyer, NEW option \in Option,
                   ReadCartForQuote(d, b, option)
            PROVE  tx'[c] = tx[c]
        BY <2>3, <3>1 DEF ReadCartForQuote
      <3>2. ASSUME NEW d \in Conn, NEW b \in Buyer, NEW k \in Key,
                   BeginCheckout(d, b, k)
            PROVE  tx'[c] = tx[c]
        BY <2>3, <3>2 DEF BeginCheckout
      <3>3. ASSUME NEW d \in Conn, NEW b \in Buyer, NEW p \in Product,
                   NEW q \in Quantity, ReadProductForCart(d, b, p, q)
            PROVE  tx'[c] = tx[c]
        BY <2>3, <3>3 DEF ReadProductForCart
      <3>4. ASSUME NEW b \in Buyer, NEW p \in Product, removeItem(b, p)
            PROVE  tx' = tx
        BY <3>4 DEF removeItem
      <3>5. ASSUME NEW b \in Buyer, ChangeAddress(b) PROVE tx' = tx
        BY <3>5 DEF ChangeAddress
      <3> QED
        BY <2>5, <2>7, <3>1, <3>2, <3>3, <3>4, <3>5 DEF ShopperNext
    <2>8. ASSUME SellerNext PROVE tx'[c] = tx[c]
      <3>1. ASSUME NEW d \in Conn, NEW p \in Product, NEW pc,
                   ReadOwnProduct(d, p, pc)
            PROVE  tx'[c] = tx[c]
        BY <2>3, <3>1 DEF ReadOwnProduct
      <3>2. ASSUME NEW p \in Product, NEW price \in Price,
                   updateProduct(p, price)
            PROVE  tx' = tx
        BY <3>2 DEF updateProduct
      <3> QED
        BY <2>5, <2>6, <2>8, <3>1, <3>2 DEF SellerNext
    <2> QED
      BY <1>1, <2>4, <2>7, <2>8 DEF Next, vars
  <1>2. Spec => []TypeInv
    BY TypeInit, TypeNext, PTL DEF Spec
  <1>3. TypeInv /\ [Next]_vars =>
          [\A c \in Conn :
              tx[c].pc = "lockCart" /\ OrdersWith(tx[c].buyer, tx[c].key) # {}
                => tx'[c] = tx[c] \/ tx'[c].reply \in {"replayed", "lost"}]_vars
    BY <1>1
  <1> QED
    BY <1>2, <1>3, PTL DEF Spec, RetryAnswered

-----------------------------------------------------------------------------
(* Cart lines *)

\* The steps that change a cart.
LEMMA CartSteps ==
    ASSUME TypeInv, [Next]_vars
    PROVE  /\ writes' >= writes
           /\ \/ cartItems' = cartItems
              \/ \E c \in Conn : setItem(c) \/ PlaceOrder(c)
              \/ \E b \in Buyer, p \in Product : removeItem(b, p)
  <1>1. writes \in Nat
    BY DEF TypeInv, TypeOK
  <1>2. ASSUME NEW c \in Conn, CheckoutStep(c) \/ Abort(c)
        PROVE  writes' = writes /\ (cartItems' = cartItems \/ PlaceOrder(c))
    BY <1>2
    DEF CheckoutStep, Abort, ReplayOrder, RejectEmptyCart, findForCheckout,
        findByIdsForUpdate, RejectUnavailable, RejectChangedQuote, PlaceOrder,
        shop
  <1>3. ASSUME ShopperNext
        PROVE  /\ writes' = writes \/ writes' = writes + 1
               /\ \/ cartItems' = cartItems
                  \/ \E c \in Conn : setItem(c)
                  \/ \E b \in Buyer, p \in Product : removeItem(b, p)
    BY <1>3
    DEF ShopperNext, ReadCartForQuote, BeginCheckout, ReadProductForCart,
        removeItem, ChangeAddress, ReceiveQuote, setItem, shop
  <1>4. ASSUME SellerNext
        PROVE  (writes' = writes \/ writes' = writes + 1)
                  /\ cartItems' = cartItems
    BY <1>4
    DEF SellerNext, ReadOwnProduct, KeepInventory, updateProductInventory,
        updateProductStatus, updateProduct, shop
  <1> QED
    BY <1>1, <1>2, <1>3, <1>4 DEF Next, vars

StampInv == LockInv /\ StampsSpent /\ LineOrderedOnce

LEMMA StampInit == Init => StampsSpent /\ LineOrderedOnce
  <1> SUFFICES ASSUME Init PROVE StampsSpent /\ LineOrderedOnce
    OBVIOUS
  <1>1. DOMAIN orders = {}
    BY DEF Init
  <1>2. \A c \in Conn : tx[c].pc = "idle"
    BY IdleType DEF Init, Reply
  <1>3. \A b \in Buyer, p \in Product : cartItems[b][p].stamp \in {0, 1}
    BY DEF Init, NoItem
  <1>4. writes = 1
    BY DEF Init
  <1> QED
    BY <1>1, <1>2, <1>3, <1>4 DEF StampsSpent, LineOrderedOnce

LEMMA StampNext == StampInv /\ [Next]_vars => StampsSpent' /\ LineOrderedOnce'
  <1> SUFFICES ASSUME StampInv, [Next]_vars
               PROVE  StampsSpent' /\ LineOrderedOnce'
    OBVIOUS
  <1>1. TypeInv /\ TypeInv' /\ LockInv
    BY TypeNext DEF StampInv, LockInv
  <1>2. /\ writes \in Nat /\ writes' \in Nat /\ writes' >= writes
        /\ \A b \in Buyer, p \in Product : cartItems[b][p].stamp \in Nat
        /\ \A c \in Conn, p \in Product : tx[c].items[p].stamp \in Nat
        /\ \A n \in DOMAIN orders : /\ orders[n] \in Order
                                    /\ orders[n].buyer \in Buyer
        /\ \A n \in DOMAIN orders : \A p \in Product :
              orders[n].items[p].stamp \in Nat
    <2>1. writes \in Nat /\ writes' \in Nat /\ writes' >= writes
      BY <1>1, CartSteps DEF TypeInv, TypeOK
    <2>2. \A b \in Buyer, p \in Product : cartItems[b][p] \in CartLine
      BY <1>1 DEF TypeInv, TypeOK
    <2>3. \A c \in Conn : tx[c].items \in [Product -> CartLine]
      BY <1>1 DEF TypeInv, TypeOK, Tx
    <2>4. \A n \in DOMAIN orders : orders[n] \in Order
      BY <1>1 DEF TypeInv, TypeOK
    <2>5. \A n \in DOMAIN orders : /\ orders[n].buyer \in Buyer
                                   /\ orders[n].items \in [Product -> CartLine]
      BY <2>4 DEF Order
    <2>6. \A line \in CartLine : line.stamp \in Nat
      BY DEF CartLine
    <2> QED
      BY <2>1, <2>2, <2>3, <2>4, <2>5, <2>6
  <1>3. ASSUME NEW c \in Conn, PlaceOrder(c)
        PROVE  StampsSpent' /\ LineOrderedOnce'
    <2> DEFINE b == tx[c].buyer
               items == tx[c].items
               N == Len(orders) + 1
    <2>1. /\ orders \in Seq(Order)
          /\ orders' = Append(orders, createPlaced(c))
          /\ tx[c].pc = "lockProducts" /\ b \in Buyer
          /\ cartItems' = [cartItems EXCEPT ![b] = EmptyCart]
          /\ tx' = [tx EXCEPT ![c] = Idle("placed")]
      BY <1>1, <1>3
      DEF PlaceOrder, RowsLocked, Finish, clear, TypeInv, TypeOK, RequestOK
    <2>2. /\ DOMAIN orders' = DOMAIN orders \cup {N}
          /\ N \notin DOMAIN orders
          /\ orders'[N].buyer = b /\ orders'[N].items = items
          /\ \A n \in DOMAIN orders : orders'[n] = orders[n]
      BY <2>1 DEF createPlaced
    <2>3. /\ cartItems'[b] = EmptyCart
          /\ \A x \in Buyer \ {b} : cartItems'[x] = cartItems[x]
          /\ \A p \in Product : EmptyCart[p].quantity = 0 /\ EmptyCart[p].stamp = 0
      BY <1>1, <2>1 DEF EmptyCart, NoItem, TypeInv, TypeOK
    <2>4. /\ tx'[c].pc = "idle"
          /\ \A d \in Conn \ {c} : tx'[d] = tx[d]
          /\ \A d \in Conn \ {c} : tx[d].pc = "lockProducts" => tx[d].buyer # b
      BY <1>1, <2>1, IdleType, OneCheckoutPerCart DEF TypeInv, TypeOK, Reply
    <2> HIDE DEF N, b, items
    <2>5. \A n \in DOMAIN orders : \A p \in Wanted(orders[n].items) :
             orders[n].buyer = b /\ p \in Wanted(items)
                => items[p].stamp # orders[n].items[p].stamp
      BY <2>1 DEF StampInv, StampsSpent, b, items
    <2>6. LineOrderedOnce'
      <3>1. \A m, n \in DOMAIN orders : \A p \in Product :
               /\ orders'[m].buyer = orders'[n].buyer
               /\ p \in Wanted(orders'[m].items)
               /\ p \in Wanted(orders'[n].items)
               /\ orders'[m].items[p].stamp = orders'[n].items[p].stamp
               => m = n
        BY <2>2 DEF StampInv, LineOrderedOnce, SameLine
      <3> QED
        BY <2>2, <2>5, <3>1 DEF LineOrderedOnce, SameLine, Wanted
    <2>7. \A x \in Buyer, p \in Product : cartItems'[x][p].stamp <= writes'
      BY <1>2, <2>3 DEF StampInv, StampsSpent
    <2>8. \A d \in Conn, p \in Product :
             tx'[d].pc = "lockProducts" => tx'[d].items[p].stamp <= writes'
      BY <1>2, <2>4 DEF StampInv, StampsSpent
    <2>9. ASSUME NEW n \in DOMAIN orders', NEW p \in Wanted(orders'[n].items)
          PROVE  LET x == orders'[n].buyer
                     stamp == orders'[n].items[p].stamp
                 IN  /\ stamp <= writes'
                     /\ p \in Wanted(cartItems'[x])
                           => cartItems'[x][p].stamp # stamp
                     /\ \A d \in Conn :
                           tx'[d].pc = "lockProducts" /\ tx'[d].buyer = x
                             /\ p \in Wanted(tx'[d].items)
                           => tx'[d].items[p].stamp # stamp
      <3>1. p \in Product /\ (orders'[n].buyer = b => p \notin Wanted(cartItems'[b]))
        BY <2>3 DEF Wanted
      <3>2. CASE n = N
        BY <1>2, <2>1, <2>2, <2>4, <3>1, <3>2
        DEF StampInv, StampsSpent, b, items, Wanted
      <3>3. CASE n \in DOMAIN orders
        <4>1. /\ orders'[n] = orders[n] /\ p \in Wanted(orders[n].items)
              /\ orders[n].buyer \in Buyer
              /\ orders[n].items[p].stamp \in Nat
          BY <1>2, <2>2, <3>1, <3>3, <2>9
        <4>2. orders[n].items[p].stamp <= writes'
          BY <1>2, <3>3, <4>1 DEF StampInv, StampsSpent
        <4>3. p \in Wanted(cartItems'[orders[n].buyer]) =>
                 cartItems'[orders[n].buyer][p].stamp # orders[n].items[p].stamp
          BY <2>3, <3>1, <3>3, <4>1 DEF StampInv, StampsSpent
        <4>4. \A d \in Conn :
                 tx'[d].pc = "lockProducts" /\ tx'[d].buyer = orders[n].buyer
                   /\ p \in Wanted(tx'[d].items)
                 => tx'[d].items[p].stamp # orders[n].items[p].stamp
          BY <2>4, <3>3, <4>1 DEF StampInv, StampsSpent
        <4> QED
          BY <4>1, <4>2, <4>3, <4>4
      <3> QED
        BY <2>2, <3>2, <3>3
    <2> QED
      BY <2>6, <2>7, <2>8, <2>9 DEF StampsSpent, Wanted
  <1>4. ASSUME NEW c \in Conn, findForCheckout(c)
        PROVE  StampsSpent' /\ LineOrderedOnce'
    <2>1. /\ UNCHANGED <<cartItems, orders, writes>>
          /\ tx'[c].buyer = tx[c].buyer /\ tx[c].buyer \in Buyer
          /\ tx'[c].items = cartItems[tx[c].buyer]
          /\ \A d \in Conn \ {c} : tx'[d] = tx[d]
      BY <1>1, <1>4
      DEF findForCheckout, shop, TypeInv, TypeOK, RequestOK, Tx
    <2>2. LineOrderedOnce'
      BY <2>1 DEF StampInv, LineOrderedOnce, SameLine, Wanted
    <2> QED
      BY <2>1, <2>2 DEF StampInv, StampsSpent, Wanted
  <1>5. ASSUME orders' = orders,
               \A d \in Conn : tx'[d].pc = "lockProducts" =>
                  /\ tx[d].pc = "lockProducts" /\ tx'[d].buyer = tx[d].buyer
                  /\ tx'[d].items = tx[d].items
        PROVE  StampsSpent' /\ LineOrderedOnce'
    <2>1. LineOrderedOnce'
      BY <1>5 DEF StampInv, LineOrderedOnce, SameLine, Wanted
    <2>2. \A d \in Conn, p \in Product :
             tx'[d].pc = "lockProducts" => tx'[d].items[p].stamp <= writes'
      BY <1>2, <1>5 DEF StampInv, StampsSpent
    <2>3. \A n \in DOMAIN orders : \A p \in Wanted(orders[n].items) :
             /\ orders[n].items[p].stamp <= writes'
             /\ \A d \in Conn :
                   tx'[d].pc = "lockProducts" /\ tx'[d].buyer = orders[n].buyer
                     /\ p \in Wanted(tx'[d].items)
                   => tx'[d].items[p].stamp # orders[n].items[p].stamp
      BY <1>2, <1>5 DEF StampInv, StampsSpent, Wanted
    <2>4. ASSUME \A b \in Buyer, p \in Product :
                    \/ cartItems'[b][p] = cartItems[b][p]
                    \/ cartItems'[b][p] = NoItem
                    \/ cartItems'[b][p].stamp = writes' /\ writes' > writes
          PROVE  StampsSpent'
      <3>1. \A b \in Buyer, p \in Product : cartItems'[b][p].stamp <= writes'
        BY <1>2, <2>4 DEF StampInv, StampsSpent, NoItem
      <3>2. ASSUME NEW n \in DOMAIN orders, NEW p \in Wanted(orders[n].items),
                   p \in Wanted(cartItems'[orders[n].buyer])
            PROVE  cartItems'[orders[n].buyer][p].stamp
                      # orders[n].items[p].stamp
        <4>1. /\ p \in Product /\ orders[n].buyer \in Buyer
              /\ orders[n].items[p].stamp \in Nat
              /\ cartItems'[orders[n].buyer][p].quantity > 0
          BY <1>2, <3>2 DEF Wanted
        <4>2. /\ orders[n].items[p].stamp <= writes
              /\ cartItems[orders[n].buyer][p].quantity > 0 =>
                    cartItems[orders[n].buyer][p].stamp
                       # orders[n].items[p].stamp
          BY <4>1 DEF StampInv, StampsSpent, Wanted
        <4>3. CASE cartItems'[orders[n].buyer][p] = cartItems[orders[n].buyer][p]
          BY <4>1, <4>2, <4>3
        <4>4. CASE cartItems'[orders[n].buyer][p] = NoItem
          BY <4>1, <4>4 DEF NoItem
        <4>5. CASE /\ cartItems'[orders[n].buyer][p].stamp = writes'
                   /\ writes' > writes
          BY <1>2, <4>1, <4>2, <4>5
        <4> QED
          BY <2>4, <4>1, <4>3, <4>4, <4>5
      <3> QED
        BY <1>5, <2>2, <2>3, <3>1, <3>2 DEF StampsSpent, Wanted
    <2>5. CASE cartItems' = cartItems
      BY <2>1, <2>4, <2>5
    <2>6. ASSUME NEW c \in Conn, setItem(c) PROVE StampsSpent'
      <3>1. /\ cartItems' = [cartItems EXCEPT ![tx[c].buyer][tx[c].product] =
                  [quantity |-> tx[c].quantity, stamp |-> writes + 1]]
            /\ writes' = writes + 1
        BY <2>6 DEF setItem
      <3>2. \A b \in Buyer, p \in Product :
               \/ cartItems'[b][p] = cartItems[b][p]
               \/ cartItems'[b][p].stamp = writes'
        BY <1>1, <3>1 DEF TypeInv, TypeOK
      <3> QED
        BY <1>2, <2>4, <3>1, <3>2
    <2>7. ASSUME NEW b \in Buyer, NEW p \in Product, removeItem(b, p)
          PROVE  StampsSpent'
      <3>1. \A x \in Buyer, q \in Product :
               cartItems'[x][q] = cartItems[x][q] \/ cartItems'[x][q] = NoItem
        BY <1>1, <2>7 DEF removeItem, TypeInv, TypeOK
      <3> QED
        BY <2>4, <3>1
    <2> QED
      BY <1>1, <1>3, <2>1, <2>5, <2>6, <2>7, CartSteps
  <1>6. ASSUME NEW c \in Conn, RollbackStep(c)
        PROVE  StampsSpent' /\ LineOrderedOnce'
    BY <1>1, <1>5, <1>6, IdleType
    DEF RollbackStep, Finish, shop, TypeInv, TypeOK
  <1>8. ASSUME NEW c \in Conn, NEW p \in Product, findByIdsForUpdate(c, p)
        PROVE  StampsSpent' /\ LineOrderedOnce'
    <2>1. orders' = orders /\ tx[c].pc = "lockProducts"
      BY <1>8 DEF findByIdsForUpdate, shop
    <2>2. /\ tx'[c].buyer = tx[c].buyer /\ tx'[c].items = tx[c].items
          /\ \A d \in Conn \ {c} : tx'[d] = tx[d]
      BY <1>1, <1>8 DEF findByIdsForUpdate, TypeInv, TypeOK, Tx
    <2> QED
      BY <1>5, <2>1, <2>2
  <1>7. CASE QuietStep
    BY <1>5, <1>7 DEF QuietStep
  <1> QED
    BY <1>1, <1>3, <1>4, <1>6, <1>7, <1>8, StepKinds

LEMMA StampsCorrect == Spec => [](StampsSpent /\ LineOrderedOnce)
  <1>1. LockInv /\ StampsSpent /\ LineOrderedOnce /\ [Next]_vars
           => StampsSpent' /\ LineOrderedOnce'
    BY StampNext DEF StampInv
  <1> QED
    BY <1>1, StampInit, LockCorrect, PTL DEF Spec

\* A line that was put in a cart once is on at most one order.
THEOREM LinesOrderedOnce == Spec => []LineOrderedOnce
  BY StampsCorrect, PTL

-----------------------------------------------------------------------------
(* Products and their audit log *)

\* The steps that change a product row, and how.
LEMMA ProductSteps ==
    ASSUME TypeInv, [Next]_vars
    PROVE  \/ UNCHANGED <<products, inventoryAudits>>
           \/ \E c \in Conn : PlaceOrder(c)
           \/ \E c \in Conn, inventory \in Stock :
                 updateProductInventory(c, inventory)
           \/ \E c \in Conn, status \in Status : updateProductStatus(c, status)
           \/ \E p \in Product, price \in Price : updateProduct(p, price)
  <1>1. ASSUME NEW c \in Conn, CheckoutStep(c) \/ Abort(c)
        PROVE  UNCHANGED <<products, inventoryAudits>> \/ PlaceOrder(c)
    BY <1>1
    DEF CheckoutStep, Abort, ReplayOrder, RejectEmptyCart, findForCheckout,
        findByIdsForUpdate, RejectUnavailable, RejectChangedQuote, shop
  <1>2. ASSUME ShopperNext PROVE UNCHANGED <<products, inventoryAudits>>
    BY <1>2
    DEF ShopperNext, ReadCartForQuote, BeginCheckout, ReadProductForCart,
        removeItem, ChangeAddress, ReceiveQuote, setItem, shop
  <1>3. ASSUME SellerNext
        PROVE  \/ UNCHANGED <<products, inventoryAudits>>
               \/ \E c \in Conn, inventory \in Stock :
                     updateProductInventory(c, inventory)
               \/ \E c \in Conn, status \in Status :
                     updateProductStatus(c, status)
               \/ \E p \in Product, price \in Price : updateProduct(p, price)
    BY <1>3 DEF SellerNext, ReadOwnProduct, KeepInventory, shop
  <1> QED
    BY <1>1, <1>2, <1>3 DEF Next, vars

AuditInv == LockInv /\ StockAudited /\ DecrementsChain

\* Event e is appended to the log of p and leaves p's inventory as it says.
Audited(p, e) ==
    /\ inventoryAudits'[p] = Append(inventoryAudits[p], e)
    /\ e.next = products'[p].inventory
    /\ e.event = "decremented" => e.previous = products[p].inventory

LEMMA AuditedSteps ==
    ASSUME LockInv, [Next]_vars, NEW p \in Product
    PROVE  \/ /\ inventoryAudits'[p] = inventoryAudits[p]
              /\ products'[p].inventory = products[p].inventory
           \/ \E e : Audited(p, e)
  <1> USE DEF LockInv, TypeInv
  <1>1. ASSUME NEW c \in Conn, PlaceOrder(c), p \in Wanted(tx[c].items)
        PROVE  \E e : Audited(p, e)
    <2> DEFINE e == [event |-> "decremented",
                     previous |-> tx[c].rows[p].inventory,
                     next |-> tx[c].rows[p].inventory - tx[c].items[p].quantity]
    <2>1. tx[c].rows[p] = products[p] /\ products[p] \in ProductRow
      BY <1>1 DEF PlaceOrder, RowsLocked, LockedRowsCurrent, TypeOK
    <2>2. inventoryAudits'[p] = Append(inventoryAudits[p], e)
      BY <1>1 DEF PlaceOrder, appendDecrements
    <2>3. products'[p]
             = [products[p] EXCEPT !.inventory = @ - tx[c].items[p].quantity]
      BY <1>1 DEF PlaceOrder, decrementAvailableInventory
    <2>4. e.next = products'[p].inventory
      BY <2>1, <2>3 DEF ProductRow
    <2>5. Audited(p, e)
      BY <2>1, <2>2, <2>4 DEF Audited
    <2> QED
      BY <2>5
  <1>2. ASSUME NEW c \in Conn, PlaceOrder(c), p \notin Wanted(tx[c].items)
        PROVE  inventoryAudits'[p] = inventoryAudits[p]
                  /\ products'[p] = products[p]
    BY <1>2 DEF PlaceOrder, appendDecrements, decrementAvailableInventory
  <1>3. ASSUME NEW c \in Conn, NEW inventory \in Stock,
               updateProductInventory(c, inventory), p = tx[c].product
        PROVE  \E e : Audited(p, e)
    <2> DEFINE e == [event |-> "set",
                     previous |-> tx[c].rows[p].inventory, next |-> inventory]
    <2>1. inventoryAudits'[p] = Append(inventoryAudits[p], e)
      BY <1>3 DEF updateProductInventory, TypeOK
    <2>2. products'[p].inventory = inventory
      <3>1. products[p] \in ProductRow
        BY DEF TypeOK
      <3> QED
        BY <1>3, <3>1 DEF updateProductInventory, TypeOK, ProductRow
    <2>3. Audited(p, e)
      BY <2>1, <2>2 DEF Audited
    <2> QED
      BY <2>3
  <1>4. ASSUME NEW c \in Conn, NEW inventory \in Stock,
               updateProductInventory(c, inventory), p # tx[c].product
        PROVE  inventoryAudits'[p] = inventoryAudits[p]
                  /\ products'[p] = products[p]
    BY <1>4 DEF updateProductInventory, TypeOK
  <1>5. ASSUME NEW c \in Conn, NEW status \in Status,
               updateProductStatus(c, status)
        PROVE  /\ inventoryAudits'[p] = inventoryAudits[p]
               /\ products'[p].inventory = products[p].inventory
    BY <1>5 DEF updateProductStatus, TypeOK, ProductRow
  <1>6. ASSUME NEW q \in Product, NEW price \in Price, updateProduct(q, price)
        PROVE  /\ inventoryAudits'[p] = inventoryAudits[p]
               /\ products'[p].inventory = products[p].inventory
    BY <1>6 DEF updateProduct, TypeOK, ProductRow
  <1> QED
    BY <1>1, <1>2, <1>3, <1>4, <1>5, <1>6, ProductSteps

LEMMA AuditNext ==
    AuditInv /\ [Next]_vars => StockAudited' /\ DecrementsChain'
  <1> SUFFICES ASSUME AuditInv, [Next]_vars, NEW p \in Product
        PROVE  /\ inventoryAudits'[p] # <<>> =>
                     inventoryAudits'[p][Len(inventoryAudits'[p])].next
                        = products'[p].inventory
               /\ \A i \in DOMAIN inventoryAudits'[p] \ {1} :
                     inventoryAudits'[p][i].event = "decremented" =>
                        inventoryAudits'[p][i].previous
                           = inventoryAudits'[p][i - 1].next
    BY DEF StockAudited, DecrementsChain, Decrements
  <1> DEFINE log == inventoryAudits[p]
             log2 == inventoryAudits'[p]
  <1>1. log \in Seq(AuditEvent)
    BY DEF AuditInv, LockInv, TypeInv, TypeOK
  <1>2. log # <<>> => log[Len(log)].next = products[p].inventory
    BY DEF AuditInv, StockAudited
  <1>3. \A i \in DOMAIN log \ {1} :
           log[i].event = "decremented" => log[i].previous = log[i - 1].next
    BY DEF AuditInv, DecrementsChain, Decrements
  <1>4. CASE /\ log2 = log
             /\ products'[p].inventory = products[p].inventory
    BY <1>2, <1>3, <1>4
  <1>5. ASSUME NEW e, Audited(p, e)
        PROVE  /\ log2 # <<>> => log2[Len(log2)].next = products'[p].inventory
               /\ \A i \in DOMAIN log2 \ {1} :
                     log2[i].event = "decremented" =>
                        log2[i].previous = log2[i - 1].next
    <2>1. /\ log2 = Append(log, e)
          /\ e.next = products'[p].inventory
          /\ e.event = "decremented" => e.previous = products[p].inventory
      BY <1>5 DEF Audited
    <2> HIDE DEF log, log2
    <2>2. /\ Len(log) \in Nat /\ DOMAIN log = 1 .. Len(log)
          /\ Len(log2) = Len(log) + 1
          /\ DOMAIN log2 = 1 .. (Len(log) + 1)
          /\ log2[Len(log) + 1] = e
          /\ \A i \in 1 .. Len(log) : log2[i] = log[i]
      BY <1>1, <2>1
    <2>3. ASSUME NEW i \in DOMAIN log2 \ {1}, log2[i].event = "decremented"
          PROVE  log2[i].previous = log2[i - 1].next
      <3>1. CASE i = Len(log) + 1
        <4>1. Len(log) # 0 /\ log # <<>>
          BY <1>1, <2>2, <2>3, <3>1
        <4>2. i - 1 = Len(log) /\ log2[Len(log)] = log[Len(log)]
          BY <2>2, <3>1, <4>1
        <4> QED
          BY <1>2, <2>1, <2>2, <2>3, <3>1, <4>1, <4>2
      <3>2. CASE i # Len(log) + 1
        BY <1>3, <2>2, <2>3, <3>2
      <3> QED
        BY <3>1, <3>2
    <2> QED
      BY <2>1, <2>2, <2>3
  <1> QED
    BY <1>4, <1>5, AuditedSteps DEF AuditInv

\* The stock a product has is the one its last audit entry records, and each
\* decrement starts from the stock its predecessor in the log left.
THEOREM DecrementsAreChained == Spec => [](StockAudited /\ DecrementsChain)
  <1>1. Init => StockAudited /\ DecrementsChain
    BY DEF Init, StockAudited, DecrementsChain, Decrements
  <1>2. LockInv /\ (StockAudited /\ DecrementsChain) /\ [Next]_vars
           => (StockAudited /\ DecrementsChain)'
    BY AuditNext DEF AuditInv
  <1> QED
    BY <1>1, <1>2, LockCorrect, PTL DEF Spec

-----------------------------------------------------------------------------
(* Orders against the audit log *)

\* A step that places no order adds no decrement to any log.
LEMMA DecrementsAppear ==
    ASSUME LockInv, [Next]_vars, orders' = orders, NEW p \in Product
    PROVE  /\ Decrements(p)' = Decrements(p)
           /\ \A i \in Decrements(p) :
                 inventoryAudits'[p][i] = inventoryAudits[p][i]
  <1> USE DEF LockInv, TypeInv
  <1>1. inventoryAudits[p] \in Seq(AuditEvent)
    BY DEF TypeOK
  <1>2. CASE inventoryAudits'[p] = inventoryAudits[p]
    BY <1>2 DEF Decrements
  <1>3. ASSUME NEW e, e.event = "set",
               inventoryAudits'[p] = Append(inventoryAudits[p], e)
        PROVE  /\ Decrements(p)' = Decrements(p)
               /\ \A i \in Decrements(p) :
                     inventoryAudits'[p][i] = inventoryAudits[p][i]
    <2>1. /\ DOMAIN inventoryAudits'[p]
               = DOMAIN inventoryAudits[p] \cup {Len(inventoryAudits[p]) + 1}
          /\ inventoryAudits'[p][Len(inventoryAudits[p]) + 1] = e
          /\ \A i \in DOMAIN inventoryAudits[p] :
                inventoryAudits'[p][i] = inventoryAudits[p][i]
      BY <1>1, <1>3
    <2> QED
      BY <1>3, <2>1 DEF Decrements
  <1>4. ASSUME NEW c \in Conn, PlaceOrder(c) PROVE FALSE
    <2>1. Len(orders') = Len(orders) + 1 /\ Len(orders) \in Nat
      BY <1>4 DEF PlaceOrder, TypeOK
    <2> QED
      BY <2>1
  <1>5. ASSUME NEW c \in Conn, NEW inventory \in Stock,
               updateProductInventory(c, inventory)
        PROVE  \/ inventoryAudits'[p] = inventoryAudits[p]
               \/ \E e : /\ e.event = "set"
                         /\ inventoryAudits'[p] = Append(inventoryAudits[p], e)
    <2> DEFINE e == [event |-> "set",
                     previous |-> tx[c].rows[p].inventory, next |-> inventory]
    <2>1. CASE p = tx[c].product
      <3>1. inventoryAudits'[p] = Append(inventoryAudits[p], e)
        BY <1>5, <2>1 DEF updateProductInventory, TypeOK
      <3>2. e.event = "set"
        OBVIOUS
      <3> QED
        BY <3>1, <3>2
    <2>2. CASE p # tx[c].product
      BY <1>5, <2>2 DEF updateProductInventory, TypeOK
    <2> QED
      BY <2>1, <2>2
  <1>6. ASSUME \/ \E c \in Conn, status \in Status : updateProductStatus(c, status)
               \/ \E q \in Product, price \in Price : updateProduct(q, price)
        PROVE  inventoryAudits'[p] = inventoryAudits[p]
    BY <1>6 DEF updateProductStatus, updateProduct
  <1> QED
    BY <1>2, <1>3, <1>4, <1>5, <1>6, ProductSteps

\* An order writes one decrement of its quantity into the log of each of its
\* products, and nothing into the others.
LEMMA OrderIsAudited ==
    ASSUME LockInv, NEW c \in Conn, PlaceOrder(c), NEW p \in Product,
           SalesAudited(p)
    PROVE  SalesAudited(p)'
  <1> USE DEF LockInv, TypeInv
  <1> DEFINE items == tx[c].items
             e == [event |-> "decremented", previous |-> tx[c].rows[p].inventory,
                   next |-> tx[c].rows[p].inventory - items[p].quantity]
  <1>0. PICK n, k : /\ n = Len(orders) + 1
                    /\ k = Len(inventoryAudits[p]) + 1
    OBVIOUS
  <1>1. PICK entry \in Bijection(OrdersOf(p), Decrements(p)) :
             \A m \in OrdersOf(p) : Accounts(p, m, entry[m])
    BY DEF SalesAudited
  <1>2. /\ entry \in [OrdersOf(p) -> Decrements(p)]
        /\ \A l, m \in OrdersOf(p) : entry[l] = entry[m] => l = m
        /\ \A i \in Decrements(p) : \E m \in OrdersOf(p) : entry[m] = i
    BY <1>1, Fun_BijectionProperties
  <1>3. /\ n \notin DOMAIN orders
        /\ DOMAIN orders' = DOMAIN orders \cup {n}
        /\ \A m \in DOMAIN orders : orders'[m] = orders[m]
        /\ orders'[n].items = items
    <2>1. orders \in Seq(Order) /\ orders' = Append(orders, createPlaced(c))
      BY DEF PlaceOrder, TypeOK
    <2>2. createPlaced(c).items = items
      BY DEF createPlaced
    <2> QED
      BY <1>0, <2>1, <2>2
  <1>4. inventoryAudits[p] \in Seq(AuditEvent)
    BY DEF TypeOK
  <1>5. CASE p \notin Wanted(items)
    <2>1. inventoryAudits'[p] = inventoryAudits[p]
      BY <1>5 DEF PlaceOrder, appendDecrements
    <2>2. OrdersOf(p)' = OrdersOf(p)
      BY <1>3, <1>5 DEF OrdersOf, Wanted
    <2>3. Decrements(p)' = Decrements(p)
      BY <2>1 DEF Decrements
    <2>4. \A m \in OrdersOf(p) : Accounts(p, m, entry[m])'
      BY <1>1, <1>3, <2>1 DEF Accounts, OrdersOf
    <2> QED
      BY <1>1, <2>2, <2>3, <2>4 DEF SalesAudited
  <1>6. CASE p \in Wanted(items)
    <2>0. PICK entry2 : entry2 = [m \in OrdersOf(p) \cup {n} |->
                                     IF m = n THEN k ELSE entry[m]]
      OBVIOUS
    <2>1. inventoryAudits'[p] = Append(inventoryAudits[p], e)
      BY <1>6 DEF PlaceOrder, appendDecrements
    <2>2. e.event = "decremented" /\ e.previous - e.next = items[p].quantity
      <3>1. tx[c].rows[p] \in ProductRow /\ items[p] \in CartLine
        BY DEF TypeOK, Tx
      <3>2. tx[c].rows[p].inventory \in Nat /\ items[p].quantity \in Nat
        BY <3>1, RowTypes
      <3> QED
        BY <3>2
    <2> HIDE DEF e
    <2>3. /\ k \notin DOMAIN inventoryAudits[p]
          /\ DOMAIN inventoryAudits'[p] = DOMAIN inventoryAudits[p] \cup {k}
          /\ inventoryAudits'[p][k] = e
          /\ \A i \in DOMAIN inventoryAudits[p] :
                inventoryAudits'[p][i] = inventoryAudits[p][i]
      BY <1>0, <1>4, <2>1
    <2>4. OrdersOf(p)' = OrdersOf(p) \cup {n}
      BY <1>3, <1>6 DEF OrdersOf, Wanted
    <2>5. Decrements(p)' = Decrements(p) \cup {k}
      BY <2>2, <2>3 DEF Decrements
    <2>6. n \notin OrdersOf(p) /\ k \notin Decrements(p)
      BY <1>3, <2>3 DEF OrdersOf, Decrements
    <2>7. /\ entry2[n] = k
          /\ \A m \in OrdersOf(p) : entry2[m] = entry[m]
          /\ entry2 \in [OrdersOf(p) \cup {n} -> Decrements(p) \cup {k}]
      BY <1>2, <2>0, <2>6
    <2>8. \A l, m \in OrdersOf(p) \cup {n} : entry2[l] = entry2[m] => l = m
      BY <1>2, <2>6, <2>7
    <2>9. \A i \in Decrements(p) \cup {k} :
             \E m \in OrdersOf(p) \cup {n} : entry2[m] = i
      BY <1>2, <2>7
    <2>10. entry2 \in Bijection(OrdersOf(p)', Decrements(p)')
      BY <2>4, <2>5, <2>7, <2>8, <2>9, Fun_IsBij
    <2>11. ASSUME NEW m \in OrdersOf(p) PROVE Accounts(p, m, entry2[m])'
      <3>1. entry[m] \in DOMAIN inventoryAudits[p] /\ m \in DOMAIN orders
        BY <1>2 DEF Decrements, OrdersOf
      <3> QED
        BY <1>1, <1>3, <2>3, <2>7, <3>1 DEF Accounts
    <2>12. Accounts(p, n, entry2[n])'
      BY <1>3, <2>2, <2>3, <2>7 DEF Accounts
    <2> QED
      BY <2>4, <2>10, <2>11, <2>12 DEF SalesAudited
  <1> QED
    BY <1>5, <1>6

\* For every product the audited decrements are the lines of the committed
\* orders, one for one, and the log ends with what is in stock.
THEOREM BooksAlwaysBalance == Spec => []BooksBalance
  <1> DEFINE Audit == \A p \in Product : SalesAudited(p)
  <1>1. Init => Audit
    <2> SUFFICES ASSUME Init, NEW p \in Product PROVE SalesAudited(p)
      OBVIOUS
    <2>1. OrdersOf(p) = {} /\ Decrements(p) = {}
      BY DEF Init, OrdersOf, Decrements
    <2> DEFINE entry == [m \in {} |-> m]
    <2>2. entry \in [OrdersOf(p) -> Decrements(p)]
      BY <2>1
    <2>3. entry \in Bijection(OrdersOf(p), Decrements(p))
      BY <2>1, <2>2, Fun_IsBij
    <2> QED
      BY <2>1, <2>3 DEF SalesAudited
  <1>2. LockInv /\ Audit /\ [Next]_vars => Audit'
    <2> SUFFICES ASSUME LockInv, Audit, [Next]_vars, NEW p \in Product
                 PROVE  SalesAudited(p)'
      OBVIOUS
    <2>1. CASE orders' = orders
      <3>1. PICK entry \in Bijection(OrdersOf(p), Decrements(p)) :
                 \A m \in OrdersOf(p) : Accounts(p, m, entry[m])
        BY DEF SalesAudited
      <3>2. /\ Decrements(p)' = Decrements(p)
            /\ \A i \in Decrements(p) :
                  inventoryAudits'[p][i] = inventoryAudits[p][i]
        BY <2>1, DecrementsAppear
      <3>3. OrdersOf(p)' = OrdersOf(p)
        BY <2>1 DEF OrdersOf
      <3>4. \A m \in OrdersOf(p) : entry[m] \in Decrements(p)
        BY <3>1, Fun_BijectionProperties
      <3>5. \A m \in OrdersOf(p) : Accounts(p, m, entry[m])'
        BY <2>1, <3>1, <3>2, <3>4 DEF Accounts
      <3> QED
        BY <3>1, <3>2, <3>3, <3>5 DEF SalesAudited
    <2>2. ASSUME NEW c \in Conn, PlaceOrder(c) PROVE SalesAudited(p)'
      BY <2>2, OrderIsAudited
    <2> QED
      BY <2>1, <2>2, OrdersAppear DEF LockInv
  <1>3. (StockAudited /\ DecrementsChain) /\ Audit => BooksBalance
    BY DEF BooksBalance
  <1> HIDE DEF Audit
  <1> QED
    BY <1>1, <1>2, <1>3, LockCorrect, DecrementsAreChained, PTL DEF Spec

-----------------------------------------------------------------------------
(* Announcements *)

\* Where the order n is announced in an inbox.
Positions(inbox, n) == {i \in DOMAIN inbox : inbox[i] = n}

LEMMA PositionsFinite ==
    ASSUME NEW inbox \in Seq(Nat), NEW n
    PROVE  /\ IsFiniteSet(Positions(inbox, n))
           /\ Cardinality(Positions(inbox, n)) \in Nat
  <1>1. Len(inbox) \in Nat /\ DOMAIN inbox = 1 .. Len(inbox)
    OBVIOUS
  <1>2. IsFiniteSet(1 .. Len(inbox))
    BY <1>1, FS_Interval
  <1>3. Positions(inbox, n) \subseteq 1 .. Len(inbox)
    BY <1>1 DEF Positions
  <1> QED
    BY <1>2, <1>3, FS_Subset, FS_CardinalityType

\* An announcement is counted for its order only.
LEMMA AppendCounts ==
    ASSUME NEW inbox \in Seq(Nat), NEW n \in Nat, NEW m
    PROVE  /\ m = n => Cardinality(Positions(Append(inbox, n), m))
                         = Cardinality(Positions(inbox, m)) + 1
           /\ m # n => Cardinality(Positions(Append(inbox, n), m))
                         = Cardinality(Positions(inbox, m))
  <1> DEFINE k == Len(inbox) + 1
  <1>1. /\ k \notin DOMAIN inbox
        /\ DOMAIN Append(inbox, n) = DOMAIN inbox \cup {k}
        /\ Append(inbox, n)[k] = n
        /\ \A i \in DOMAIN inbox : Append(inbox, n)[i] = inbox[i]
    OBVIOUS
  <1>2. IsFiniteSet(Positions(inbox, m))
    BY PositionsFinite
  <1> HIDE DEF k
  <1>3. CASE m = n
    <2>1. Positions(Append(inbox, n), m) = Positions(inbox, m) \cup {k}
      BY <1>1, <1>3 DEF Positions
    <2>2. k \notin Positions(inbox, m)
      BY <1>1 DEF Positions
    <2>3. Cardinality(Positions(inbox, m) \cup {k})
            = Cardinality(Positions(inbox, m)) + 1
      BY <1>2, <2>2, FS_AddElement
    <2> QED
      BY <1>3, <2>1, <2>3
  <1>4. CASE m # n
    <2>1. Positions(Append(inbox, n), m) = Positions(inbox, m)
      BY <1>1, <1>4 DEF Positions
    <2> QED
      BY <1>4, <2>1
  <1> QED
    BY <1>3, <1>4

LEMMA AppendedWithin ==
    ASSUME NEW inbox \in Seq(Nat), NEW n \in Nat, NEW S,
           \A i \in DOMAIN inbox : inbox[i] \in S,
           NEW longer \in {inbox, Append(inbox, n)}
    PROVE  /\ longer \in Seq(Nat)
           /\ \A i \in DOMAIN longer : longer[i] \in S \cup {n}
  <1>1. CASE longer = inbox
    BY <1>1
  <1>2. CASE longer = Append(inbox, n)
    <2>1. /\ longer \in Seq(Nat)
          /\ DOMAIN longer = DOMAIN inbox \cup {Len(inbox) + 1}
          /\ \A i \in DOMAIN inbox : longer[i] = inbox[i]
          /\ longer[Len(inbox) + 1] = n
      BY <1>2
    <2> QED
      BY <2>1
  <1> QED
    BY <1>1, <1>2

\* What the proof of AnnouncedOnce needs besides: inboxes name committed orders
\* only.
AnnouncedOrders ==
    \A u \in User : \A i \in DOMAIN notifications[u] :
        notifications[u][i] \in DOMAIN orders

Announced(n, u) == Cardinality(Positions(notifications[u], n))

LEMMA AnnouncedInit == Init => AnnouncedOrders /\ AnnouncedOnce
  BY DEF Init, AnnouncedOrders, AnnouncedOnce

LEMMA AnnouncementsAppear ==
    ASSUME TypeInv, [Next]_vars
    PROVE  UNCHANGED <<orders, notifications>> \/ \E c \in Conn : PlaceOrder(c)
  <1>1. ASSUME NEW c \in Conn, CheckoutStep(c) \/ Abort(c)
        PROVE  UNCHANGED <<orders, notifications>> \/ PlaceOrder(c)
    BY <1>1
    DEF CheckoutStep, Abort, ReplayOrder, RejectEmptyCart, findForCheckout,
        findByIdsForUpdate, RejectUnavailable, RejectChangedQuote, shop
  <1>2. ASSUME ShopperNext PROVE UNCHANGED <<orders, notifications>>
    BY <1>2
    DEF ShopperNext, ReadCartForQuote, BeginCheckout, ReadProductForCart,
        removeItem, ChangeAddress, ReceiveQuote, setItem, shop
  <1>3. ASSUME SellerNext PROVE UNCHANGED <<orders, notifications>>
    BY <1>3
    DEF SellerNext, ReadOwnProduct, KeepInventory, updateProductInventory,
        updateProductStatus, updateProduct, shop
  <1> QED
    BY <1>1, <1>2, <1>3 DEF Next, vars

LEMMA AnnouncedNext ==
    TypeInv /\ AnnouncedOrders /\ AnnouncedOnce /\ [Next]_vars
        => AnnouncedOrders' /\ AnnouncedOnce'
  <1> SUFFICES ASSUME TypeInv, AnnouncedOrders, AnnouncedOnce, [Next]_vars
               PROVE  AnnouncedOrders' /\ AnnouncedOnce'
    OBVIOUS
  <1> USE DEF TypeInv
  <1>1. CASE UNCHANGED <<orders, notifications>>
    BY <1>1 DEF AnnouncedOrders, AnnouncedOnce
  <1>2. ASSUME NEW c \in Conn, PlaceOrder(c)
        PROVE  AnnouncedOrders' /\ AnnouncedOnce'
    <2>1. PICK n, b, sellers, told :
             /\ n = Len(orders) + 1
             /\ b = tx[c].buyer
             /\ sellers = Sellers(tx[c].items)
             /\ told = Notify(notifications, {b}, n)
      OBVIOUS
    <2>2. /\ n \in Nat
          /\ n \notin DOMAIN orders
          /\ DOMAIN orders' = DOMAIN orders \cup {n}
          /\ \A m \in DOMAIN orders : orders'[m] = orders[m]
          /\ orders'[n].items = tx[c].items
          /\ orders'[n].buyer = b
      <3>1. orders \in Seq(Order) /\ orders' = Append(orders, createPlaced(c))
        BY <1>2 DEF PlaceOrder, TypeOK
      <3>2. createPlaced(c).items = tx[c].items /\ createPlaced(c).buyer = b
        BY <2>1 DEF createPlaced
      <3> QED
        BY <2>1, <3>1, <3>2
    <2>3. notifications' = Notify(told, sellers, n)
      BY <1>2, <2>1 DEF PlaceOrder
    <2>4. ASSUME NEW u \in User
          PROVE  /\ notifications[u] \in Seq(Nat)
                 /\ told[u] \in Seq(Nat)
                 /\ told[u] = IF u = b THEN Append(notifications[u], n)
                              ELSE notifications[u]
                 /\ notifications'[u] = IF u \in sellers THEN Append(told[u], n)
                                        ELSE told[u]
      <3>1. /\ notifications[u] \in Seq(Nat)
            /\ told[u] = IF u = b THEN Append(notifications[u], n)
                         ELSE notifications[u]
            /\ notifications'[u] = IF u \in sellers THEN Append(told[u], n)
                                   ELSE told[u]
        BY <2>1, <2>3 DEF TypeOK, Notify
      <3> QED
        BY <2>2, <3>1, AppendProperties
    <2>5. ASSUME NEW u \in User, NEW m
          PROVE  Cardinality(Positions(notifications'[u], m))
                   = Announced(m, u)
                     + (IF u = b /\ m = n THEN 1 ELSE 0)
                     + (IF u \in sellers /\ m = n THEN 1 ELSE 0)
      <3>1. /\ Announced(m, u) \in Nat
            /\ Cardinality(Positions(told[u], m)) \in Nat
        BY <2>4, PositionsFinite DEF Announced
      <3>2. Cardinality(Positions(told[u], m))
              = Announced(m, u) + (IF u = b /\ m = n THEN 1 ELSE 0)
        BY <2>2, <2>4, <3>1, AppendCounts DEF Announced
      <3>3. Cardinality(Positions(notifications'[u], m))
              = Cardinality(Positions(told[u], m))
                + (IF u \in sellers /\ m = n THEN 1 ELSE 0)
        BY <2>2, <2>4, <3>1, AppendCounts
      <3> QED
        BY <3>1, <3>2, <3>3
    <2>6. ASSUME NEW u \in User PROVE Announced(n, u) = 0
      <3>1. Positions(notifications[u], n) = {}
        BY <2>2 DEF AnnouncedOrders, Positions
      <3> QED
        BY <3>1, FS_EmptySet DEF Announced
    <2>7. AnnouncedOrders'
      <3> SUFFICES ASSUME NEW u \in User, NEW i \in DOMAIN notifications'[u]
                   PROVE  notifications'[u][i] \in DOMAIN orders \cup {n}
        BY <2>2 DEF AnnouncedOrders
      <3>1. /\ notifications[u] \in Seq(Nat)
            /\ told[u] \in {notifications[u], Append(notifications[u], n)}
        BY <2>4
      <3>2. /\ told[u] \in Seq(Nat)
            /\ \A j \in DOMAIN told[u] : told[u][j] \in DOMAIN orders \cup {n}
        BY <2>2, <3>1, AppendedWithin DEF AnnouncedOrders
      <3>3. notifications'[u] \in {told[u], Append(told[u], n)}
        BY <2>4
      <3> QED
        BY <2>2, <3>2, <3>3, AppendedWithin
    <2>8. AnnouncedOnce'
      <3> SUFFICES ASSUME NEW m \in DOMAIN orders', NEW u \in User
                   PROVE  Cardinality(Positions(notifications'[u], m))
                            = (IF u = orders'[m].buyer THEN 1 ELSE 0)
                              + (IF u \in Sellers(orders'[m].items)
                                 THEN 1 ELSE 0)
        BY DEF AnnouncedOnce, Positions, Sellers, Wanted
      <3>1. CASE m = n
        BY <2>1, <2>2, <2>6, <2>5, <3>1
      <3>2. CASE m # n
        <4>1. Announced(m, u)
                = (IF u = orders[m].buyer THEN 1 ELSE 0)
                  + (IF u \in Sellers(orders[m].items) THEN 1 ELSE 0)
          BY <2>2, <3>2 DEF AnnouncedOnce, Announced, Positions
        <4> QED
          BY <2>2, <2>5, <3>2, <4>1
      <3> QED
        BY <3>1, <3>2
    <2> QED
      BY <2>7, <2>8
  <1> QED
    BY <1>1, <1>2, AnnouncementsAppear

\* Buyer and sellers of an order hear of it exactly once, others never, however
\* often its key is sent again.
THEOREM OrdersAreAnnouncedOnce == Spec => []AnnouncedOnce
  <1>1. Init => AnnouncedOrders /\ AnnouncedOnce
    BY AnnouncedInit
  <1>2. Spec => []TypeInv
    BY TypeInit, TypeNext, PTL DEF Spec
  <1>3. Spec => [](AnnouncedOrders /\ AnnouncedOnce)
    BY <1>1, <1>2, AnnouncedNext, PTL DEF Spec
  <1> QED
    BY <1>3, PTL

-----------------------------------------------------------------------------
(* Finite sets and the sums over them. Induction runs over sets of numbers   *)
(* and over the subsets of a finite set by their size, from the fact that     *)
(* the naturals are well founded.                                            *)

\* Every set of naturals that is not empty has a least element.
LEMMA LeastNumber ==
    ASSUME NEW T \in SUBSET Nat, T # {}
    PROVE  \E n \in T : \A m \in T : n <= m
  <1>1. PICK R : R = OpToRel(<, Nat)
    OBVIOUS
  <1>2. IsWellFoundedOn(R, Nat)
    BY <1>1, NatLessThanWellFounded
  <1>3. PICK n \in T : \A m \in T : ~ (<<m, n>> \in R)
    BY <1>2, WFMin
  <1>4. ASSUME NEW m \in T PROVE n <= m
    <2>1. m < n => <<m, n>> \in R
      BY <1>1 DEF OpToRel
    <2> QED
      BY <1>3, <2>1
  <1> QED
    BY <1>4

\* Induction over the naturals, for a property given by the set it holds on.
LEMMA SetOfNumbers ==
    ASSUME NEW T \in SUBSET Nat, 0 \in T, \A n \in T : n + 1 \in T
    PROVE  T = Nat
  <1> SUFFICES ASSUME Nat \ T # {} PROVE FALSE
    OBVIOUS
  <1>1. PICK n \in Nat \ T : \A m \in Nat \ T : n <= m
    BY LeastNumber
  <1>2. n - 1 \in Nat /\ ~ (n <= n - 1)
    BY <1>1
  <1>3. n - 1 \in T
    BY <1>1, <1>2
  <1> QED
    BY <1>1, <1>3

\* Finite sets by their size: if a set T has the property whenever all smaller
\* subsets of S have it, every subset of S has it.
LEMMA SetsBySize ==
    ASSUME NEW S, IsFiniteSet(S), NEW G \in SUBSET SUBSET S,
           \A T \in SUBSET S :
              (\A U \in SUBSET S : Cardinality(U) < Cardinality(T) => U \in G)
                 => T \in G
    PROVE  G = SUBSET S
  <1>1. \A T \in SUBSET S : Cardinality(T) \in Nat
    BY FS_Subset, FS_CardinalityType
  <1> DEFINE N == {n \in Nat : \A T \in SUBSET S : Cardinality(T) < n => T \in G}
  <1>2. 0 \in N
    BY <1>1
  <1>3. ASSUME NEW n \in N PROVE n + 1 \in N
    <2>1. ASSUME NEW T \in SUBSET S, Cardinality(T) < n + 1 PROVE T \in G
      <3>1. Cardinality(T) \in Nat /\ Cardinality(T) <= n
        BY <1>1, <2>1
      <3>2. ASSUME NEW U \in SUBSET S, Cardinality(U) < Cardinality(T)
            PROVE  U \in G
        BY <1>1, <3>1, <3>2
      <3> QED
        BY <3>2
    <2> QED
      BY <2>1
  <1>4. N = Nat
    BY <1>2, <1>3, SetOfNumbers
  <1>5. ASSUME NEW T \in SUBSET S PROVE T \in G
    <2>1. Cardinality(T) + 1 \in N /\ Cardinality(T) < Cardinality(T) + 1
      BY <1>1, <1>4
    <2> QED
      BY <2>1
  <1> QED
    BY <1>5

\* Taking an element from a subset of a finite set leaves a smaller one.
LEMMA SmallerSet ==
    ASSUME NEW S, IsFiniteSet(S), NEW T \in SUBSET S, NEW x \in T
    PROVE  /\ T \ {x} \in SUBSET S
           /\ Cardinality(T \ {x}) \in Nat
           /\ Cardinality(T) = Cardinality(T \ {x}) + 1
           /\ Cardinality(T \ {x}) < Cardinality(T)
  <1>1. IsFiniteSet(T) /\ Cardinality(T) \in Nat
    BY FS_Subset, FS_CardinalityType
  <1>2. IsFiniteSet(T \ {x}) /\ Cardinality(T \ {x}) = Cardinality(T) - 1
    BY <1>1, FS_RemoveElement
  <1>3. Cardinality(T \ {x}) \in Nat
    BY <1>2, FS_CardinalityType
  <1> QED
    BY <1>1, <1>2, <1>3

\* A function on the subsets of a finite set may be defined by recursion: pick
\* says which element to take from a subset, step what to do with it and with
\* the value of what is left.
SolvesFold(g, S, V, base, pick, step) ==
    /\ g \in [SUBSET S -> V]
    /\ \A T \in SUBSET S :
          g[T] = IF T = {} THEN base
                 ELSE step[<<pick[T], g[T \ {pick[T]}]>>]
LEMMA FoldExists ==
    ASSUME NEW S, IsFiniteSet(S), NEW V, NEW base \in V,
           NEW pick, \A T \in SUBSET S : T # {} => pick[T] \in T,
           NEW step \in [S \X V -> V]
    PROVE  \E g : SolvesFold(g, S, V, base, pick, step)
  <1> DEFINE Small(n) == {T \in SUBSET S : Cardinality(T) <= n}
             Solves(g, n) ==
                \A T \in Small(n) :
                   g[T] = IF T = {} THEN base
                          ELSE step[<<pick[T], g[T \ {pick[T]}]>>]
             N == {n \in Nat : \E g \in [Small(n) -> V] : Solves(g, n)}
  <1>1. \A T \in SUBSET S : /\ Cardinality(T) \in Nat
                            /\ Cardinality(T) <= Cardinality(S)
    BY FS_Subset, FS_CardinalityType
  <1>2. \A T \in SUBSET S : Cardinality(T) = 0 <=> T = {}
    BY FS_Subset, FS_EmptySet
  <1>3. 0 \in N
    <2> DEFINE g == [T \in Small(0) |-> base]
    <2>1. \A T \in Small(0) : T = {}
      BY <1>1, <1>2
    <2>2. g \in [Small(0) -> V] /\ Solves(g, 0)
      BY <2>1
    <2> QED
      BY <2>2
  <1>4. ASSUME NEW n \in N PROVE n + 1 \in N
    <2>1. PICK g \in [Small(n) -> V] : Solves(g, n)
      OBVIOUS
    <2> DEFINE h == [T \in Small(n + 1) |->
                        IF T = {} THEN base
                        ELSE step[<<pick[T], g[T \ {pick[T]}]>>]]
    <2>2. ASSUME NEW T \in Small(n + 1), T # {}
          PROVE  pick[T] \in S /\ T \ {pick[T]} \in Small(n)
      BY <2>2, <1>1, SmallerSet
    <2>3. h \in [Small(n + 1) -> V]
      BY <2>2
    <2>4. ASSUME NEW T \in Small(n) PROVE h[T] = g[T]
      <3>1. T \in Small(n + 1)
        BY <1>1
      <3> QED
        BY <2>1, <3>1
    <2>5. Solves(h, n + 1)
      BY <2>2, <2>4
    <2> HIDE DEF h, Small, Solves
    <2>6. \E f \in [Small(n + 1) -> V] : Solves(f, n + 1)
      BY <2>3, <2>5
    <2> QED
      BY <2>6
  <1>5. N = Nat
    <2>1. N \in SUBSET Nat
      OBVIOUS
    <2> HIDE DEF N
    <2> QED
      BY <1>3, <1>4, <2>1, SetOfNumbers
  <1>6. Cardinality(S) \in N
    BY <1>5, <1>1
  <1>7. Small(Cardinality(S)) = SUBSET S
    BY <1>1
  <1> HIDE DEF Small
  <1> QED
    BY <1>6, <1>7 DEF SolvesFold

\* Two functions on the subsets of a finite set are equal if they agree on a set
\* whenever they agree on all smaller ones.
SameOnSubsets(g, h, S) == \A T \in SUBSET S : g[T] = h[T]
LEMMA FoldUnique ==
    ASSUME NEW S, IsFiniteSet(S), NEW g, NEW h,
           \A T \in SUBSET S :
              (\A x \in T : g[T \ {x}] = h[T \ {x}]) => g[T] = h[T]
    PROVE  SameOnSubsets(g, h, S)
  <1> DEFINE G == {T \in SUBSET S : g[T] = h[T]}
  <1>1. ASSUME NEW T \in SUBSET S,
               \A U \in SUBSET S : Cardinality(U) < Cardinality(T) => U \in G
        PROVE  T \in G
    <2>1. ASSUME NEW x \in T PROVE g[T \ {x}] = h[T \ {x}]
      BY <1>1, SmallerSet
    <2> QED
      BY <2>1
  <1>2. G \in SUBSET SUBSET S
    OBVIOUS
  <1> HIDE DEF G
  <1>3. G = SUBSET S
    BY <1>1, <1>2, SetsBySize
  <1> QED
    BY <1>3 DEF G, SameOnSubsets

\* The sum over a finite set, with the recursion that computes it.
SumsByChoice(u, a, S) ==
    /\ u \in [SUBSET S -> Int]
    /\ \A T \in SUBSET S :
          u[T] = IF T = {} THEN 0
                 ELSE a[CHOOSE x \in T : TRUE]
                        + u[T \ {CHOOSE x \in T : TRUE}]
LEMMA SumRecursion ==
    ASSUME NEW S, IsFiniteSet(S), NEW a \in [S -> Int]
    PROVE  \E u : SumsByChoice(u, a, S) /\ u[S] = SumFunctionOnSet(a, S)
  <1> DEFINE pick == [T \in SUBSET S |-> CHOOSE x \in T : TRUE]
             step == [e \in S \X Int |-> a[e[1]] + e[2]]
             F(g) == [T \in SUBSET S |->
                        IF T = {} THEN 0
                        ELSE LET x == CHOOSE x \in T : TRUE
                             IN  a[x] + g[T \ {x}]]
             iter == CHOOSE g : g = F(g)
  <1>1. step \in [S \X Int -> Int]
    OBVIOUS
  <1>2. \A T \in SUBSET S : T # {} => pick[T] \in T
    OBVIOUS
  <1>3. PICK g \in [SUBSET S -> Int] : \A T \in SUBSET S :
              g[T] = IF T = {} THEN 0
                     ELSE step[<<pick[T], g[T \ {pick[T]}]>>]
    <2> HIDE DEF pick, step, F, iter
    <2>1. PICK V : V = Int
      OBVIOUS
    <2>2. step \in [S \X V -> V] /\ 0 \in V
      BY <1>1, <2>1
    <2>3. PICK g : SolvesFold(g, S, V, 0, pick, step)
      BY <1>2, <2>2, FoldExists
    <2> QED
      BY <2>1, <2>3 DEF SolvesFold
  <1>4. g = F(g)
    <2>1. ASSUME NEW T \in SUBSET S PROVE g[T] = F(g)[T]
      <3>1. CASE T = {}
        BY <1>3, <3>1
      <3>2. CASE T # {}
        <4>1. pick[T] \in S /\ g[T \ {pick[T]}] \in Int
          BY <1>2, <3>2
        <4> QED
          BY <1>3, <3>2, <4>1
      <3> QED
        BY <3>1, <3>2
    <2> QED
      BY <2>1
  <1>5. iter = F(iter)
    BY <1>4
  <1>6. SumFunctionOnSet(a, S) = iter[S]
    BY DEF SumFunctionOnSet, FoldFunctionOnSet, MapThenFoldSet
  <1>7. \A f : f = F(f) =>
           \A T \in SUBSET S : f[T] = IF T = {} THEN 0
                                      ELSE a[CHOOSE x \in T : TRUE]
                                         + f[T \ {CHOOSE x \in T : TRUE}]
    OBVIOUS
  <1>8. SameOnSubsets(g, iter, S)
    <2> HIDE DEF iter, F
    <2>1. ASSUME NEW T \in SUBSET S,
                 \A x \in T : g[T \ {x}] = iter[T \ {x}]
          PROVE  g[T] = iter[T]
      <3>1. CASE T = {}
        BY <1>4, <1>5, <1>7, <3>1
      <3>2. CASE T # {}
        <4>1. PICK x \in T : x = CHOOSE y \in T : TRUE
          BY <3>2
        <4>2. ASSUME NEW f, f = F(f) PROVE f[T] = a[x] + f[T \ {x}]
          <5>1. f[T] = a[CHOOSE y \in T : TRUE] + f[T \ {CHOOSE y \in T : TRUE}]
            BY <1>7, <3>2, <4>2
          <5> QED
            BY <4>1, <5>1
        <4>3. g[T] = a[x] + g[T \ {x}]
          BY <1>4, <4>2
        <4>4. iter[T] = a[x] + iter[T \ {x}]
          BY <1>5, <4>2
        <4> QED
          BY <2>1, <4>3, <4>4
      <3> QED
        BY <3>1, <3>2
    <2> QED
      BY <2>1, FoldUnique
  <1> HIDE DEF iter, F
  <1>9. g[S] = SumFunctionOnSet(a, S)
    BY <1>6, <1>8 DEF SameOnSubsets
  <1>10. \A T \in SUBSET S : g[T] = IF T = {} THEN 0
                                    ELSE a[CHOOSE x \in T : TRUE]
                                       + g[T \ {CHOOSE x \in T : TRUE}]
    BY <1>4, <1>7
  <1> HIDE DEF pick, step
  <1> QED
    BY <1>3, <1>9, <1>10 DEF SumsByChoice

\* A sum over a finite set adds up its elements in any order.
AddsUp(u, a, S) ==
    \A T \in SUBSET S : \A x \in T : u[T] = a[x] + u[T \ {x}]
LEMMA SumAddsUp ==
    ASSUME NEW S, IsFiniteSet(S), NEW a \in [S -> Int],
           NEW u, SumsByChoice(u, a, S)
    PROVE  AddsUp(u, a, S)
  <1> DEFINE G == {T \in SUBSET S : \A x \in T : u[T] = a[x] + u[T \ {x}]}
  <1>1. ASSUME NEW T \in SUBSET S,
               \A U \in SUBSET S : Cardinality(U) < Cardinality(T) => U \in G
        PROVE  T \in G
    <2> SUFFICES ASSUME NEW x \in T PROVE u[T] = a[x] + u[T \ {x}]
      OBVIOUS
    <2>1. PICK c \in T : c = CHOOSE y \in T : TRUE
      OBVIOUS
    <2>2. u[T] = a[c] + u[T \ {c}]
      BY <2>1 DEF SumsByChoice
    <2>3. CASE c = x
      BY <2>2, <2>3
    <2>4. CASE c # x
      <3>1. T \ {c} \in G /\ T \ {x} \in G
        <4>1. \A y \in T : T \ {y} \in SUBSET S
                            /\ Cardinality(T \ {y}) < Cardinality(T)
          BY SmallerSet
        <4> HIDE DEF G
        <4> QED
          BY <1>1, <4>1
      <3>2. x \in T \ {c} /\ c \in T \ {x}
        BY <2>4
      <3>3. /\ u[T \ {c}] = a[x] + u[(T \ {c}) \ {x}]
            /\ u[T \ {x}] = a[c] + u[(T \ {x}) \ {c}]
        BY <3>1, <3>2
      <3>4. (T \ {c}) \ {x} = (T \ {x}) \ {c}
        OBVIOUS
      <3>5. PICK rest \in Int : rest = u[(T \ {x}) \ {c}]
        BY DEF SumsByChoice
      <3>6. a[c] \in Int /\ a[x] \in Int
        OBVIOUS
      <3>7. u[T] = a[c] + (a[x] + rest) /\ u[T \ {x}] = a[c] + rest
        BY <2>2, <3>3, <3>4, <3>5
      <3>8. a[c] + (a[x] + rest) = a[x] + (a[c] + rest)
        BY <3>6
      <3> QED
        BY <3>7, <3>8
    <2> QED
      BY <2>3, <2>4
  <1>2. G \in SUBSET SUBSET S
    OBVIOUS
  <1> HIDE DEF G
  <1>3. G = SUBSET S
    BY <1>1, <1>2, SetsBySize
  <1> QED
    BY <1>3 DEF G, AddsUp

\* What a sum is, whatever computes it: a function on the subsets of its index
\* set, 0 at the empty one, that grows by an element's amount.
SumsOf(u, a, S) ==
    /\ u \in [SUBSET S -> Int]
    /\ u[{}] = 0
    /\ AddsUp(u, a, S)
    /\ u[S] = SumFunctionOnSet(a, S)
LEMMA SumsExist ==
    ASSUME NEW S, IsFiniteSet(S), NEW a \in [S -> Int]
    PROVE  \E u : SumsOf(u, a, S)
  <1>1. PICK u : SumsByChoice(u, a, S) /\ u[S] = SumFunctionOnSet(a, S)
    BY SumRecursion
  <1>2. AddsUp(u, a, S)
    BY <1>1, SumAddsUp
  <1>3. u \in [SUBSET S -> Int] /\ u[{}] = 0
    BY <1>1 DEF SumsByChoice
  <1> QED
    BY <1>1, <1>2, <1>3 DEF SumsOf

\* Summing over the indices of a list that names every element once is summing
\* over the elements.
Reindexes(f, b, D, a, S) ==
    /\ a \in [S -> Int]
    /\ b \in [D -> Int]
    /\ f \in Bijection(D, S)
    /\ \A i \in D : b[i] = a[f[i]]
LEMMA SumReindexed ==
    ASSUME NEW S, IsFiniteSet(S), NEW D, IsFiniteSet(D),
           NEW a, NEW b, NEW f, Reindexes(f, b, D, a, S)
    PROVE  SumFunctionOnSet(b, D) = SumFunctionOnSet(a, S)
  <1>0. /\ a \in [S -> Int] /\ b \in [D -> Int] /\ f \in Bijection(D, S)
        /\ \A i \in D : b[i] = a[f[i]]
    BY DEF Reindexes
  <1>1. PICK u : SumsOf(u, a, S)
    BY <1>0, SumsExist
  <1>2. PICK v : SumsOf(v, b, D)
    BY <1>0, SumsExist
  <1>3. f \in [D -> S] /\ (\A i, j \in D : f[i] = f[j] => i = j)
        /\ \A x \in S : \E i \in D : f[i] = x
    BY <1>0 DEF Bijection, Injection, Surjection, IsInjective
  <1> DEFINE image(T) == {f[i] : i \in T}
             w == [T \in SUBSET D |-> u[image(T)]]
  <1>4. ASSUME NEW T \in SUBSET D, \A i \in T : v[T \ {i}] = w[T \ {i}]
        PROVE  v[T] = w[T]
    <2>1. CASE T = {}
      <3>1. image(T) = {}
        BY <2>1
      <3> QED
        BY <1>1, <1>2, <2>1, <3>1 DEF SumsOf, AddsUp
    <2>2. CASE T # {}
      <3>1. PICK i \in T : TRUE
        BY <2>2
      <3>2. image(T) \in SUBSET S /\ f[i] \in image(T)
        BY <1>3
      <3>3. image(T \ {i}) = image(T) \ {f[i]}
        BY <1>3
      <3> HIDE DEF image
      <3>4. v[T] = b[i] + v[T \ {i}]
        BY <1>2 DEF SumsOf, AddsUp
      <3>5. u[image(T)] = a[f[i]] + u[image(T \ {i})]
        <4>1. PICK y, Y : y = f[i] /\ Y = image(T)
          OBVIOUS
        <4>2. u[Y] = a[y] + u[Y \ {y}]
          BY <1>1, <3>2, <4>1 DEF SumsOf, AddsUp
        <4> QED
          BY <3>3, <4>1, <4>2
      <3>6. w[T] = u[image(T)] /\ w[T \ {i}] = u[image(T \ {i})]
        OBVIOUS
      <3> QED
        BY <1>0, <1>4, <3>4, <3>5, <3>6
    <2> QED
      BY <2>1, <2>2
  <1>5. image(D) = S
    BY <1>3
  <1>6. w[D] = u[image(D)]
    OBVIOUS
  <1> HIDE DEF w, image
  <1>7. SameOnSubsets(v, w, D)
    BY <1>4, FoldUnique
  <1> QED
    BY <1>1, <1>2, <1>5, <1>6, <1>7 DEF SumsOf, AddsUp, SameOnSubsets

\* A finite set of naturals has a greatest element, the one that Max chooses.
LEMMA GreatestNumber ==
    ASSUME NEW S \in SUBSET Nat, IsFiniteSet(S)
    PROVE  \A T \in SUBSET S : T # {} => Max(T) \in T
  <1> DEFINE G == {T \in SUBSET S : T # {} => \E m \in T : \A n \in T : m >= n}
  <1>1. ASSUME NEW T \in SUBSET S,
               \A U \in SUBSET S : Cardinality(U) < Cardinality(T) => U \in G
        PROVE  T \in G
    <2> SUFFICES ASSUME T # {} PROVE \E m \in T : \A n \in T : m >= n
      OBVIOUS
    <2>1. PICK x \in T : TRUE
      OBVIOUS
    <2>2. T \ {x} \in G
      BY <1>1, SmallerSet
    <2>3. CASE T \ {x} = {}
      BY <2>1, <2>3
    <2>4. CASE T \ {x} # {}
      <3>1. PICK y \in T \ {x} : \A n \in T \ {x} : y >= n
        BY <2>2, <2>4
      <3>2. x \in Nat /\ \A n \in T : n \in Nat
        OBVIOUS
      <3>3. CASE x >= y
        BY <2>1, <3>1, <3>2, <3>3
      <3>4. CASE ~ (x >= y)
        BY <2>1, <3>1, <3>2, <3>4
      <3> QED
        BY <3>3, <3>4
    <2> QED
      BY <2>3, <2>4
  <1>2. G \in SUBSET SUBSET S
    OBVIOUS
  <1> HIDE DEF G
  <1>3. G = SUBSET S
    BY <1>1, <1>2, SetsBySize
  <1> QED
    BY <1>3 DEF G, Max

\* Sums of amounts that are not negative are not negative.
LEMMA SumsAreNatural ==
    ASSUME NEW S, IsFiniteSet(S), NEW b \in [S -> Nat], NEW u, SumsOf(u, b, S)
    PROVE  \A T \in SUBSET S : u[T] \in Nat
  <1> DEFINE G == {T \in SUBSET S : u[T] \in Nat}
  <1>1. ASSUME NEW T \in SUBSET S,
               \A U \in SUBSET S : Cardinality(U) < Cardinality(T) => U \in G
        PROVE  T \in G
    <2>1. CASE T = {}
      BY <2>1 DEF SumsOf
    <2>2. CASE T # {}
      <3>1. PICK x \in T : TRUE
        BY <2>2
      <3>2. T \ {x} \in G
        BY <1>1, <3>1, SmallerSet
      <3>3. u[T] = b[x] + u[T \ {x}] /\ b[x] \in Nat
        BY DEF SumsOf, AddsUp
      <3> QED
        BY <3>2, <3>3
    <2> QED
      BY <2>1, <2>2
  <1>2. G \in SUBSET SUBSET S
    OBVIOUS
  <1> HIDE DEF G
  <1>3. G = SUBSET S
    BY <1>1, <1>2, SetsBySize
  <1> QED
    BY <1>3 DEF G

\* An amount as the checks leave it: itself, or null above the maximum.
Checked(n) == IF n <= MaxMoney THEN n ELSE NoAmount

\* Adding two checked amounts checks their sum, on the server and in the browser.
LEMMA CheckedAdds ==
    ASSUME NEW m \in Nat, NEW n \in Nat
    PROVE  /\ addLine(Checked(m), Checked(n)) = Checked(m + n)
           /\ addValue(Checked(n), Checked(m)) = Checked(m + n)
           /\ checkedMoneyMultiply(m, n) = Checked(m * n)
  BY MaxMoneyAssumption
     DEF Checked, addLine, addValue, checkedMoneyAdd, checkedMoneyMultiply,
         moneyMinorValue, Amount, NoAmount

\* The pricing loop checks every line and every running subtotal; what it
\* returns is the exact sum of the lines, or null exactly when that sum is
\* above the maximum.
THEOREM PricingIsExact ==
    ASSUME NEW S \in SUBSET Nat, IsFiniteSet(S), NEW b \in [S -> Nat],
           NEW line, DOMAIN line = S, \A i \in S : line[i] = Checked(b[i])
    PROVE  /\ SumFunctionOnSet(b, S) \in Nat
           /\ pricingLoop(line) = Checked(SumFunctionOnSet(b, S))
  <1>1. PICK u : SumsOf(u, b, S)
    <2>1. b \in [S -> Int]
      OBVIOUS
    <2> QED
      BY <2>1, SumsExist
  <1>2. \A T \in SUBSET S : u[T] \in Nat
    BY <1>1, SumsAreNatural
  <1> DEFINE F(g) == [T \in SUBSET S |->
                        IF T = {} THEN 0
                        ELSE LET x == Max(T)
                             IN  addLine(line[x], g[T \ {x}])]
             iter == CHOOSE g : g = F(g)
             r == [T \in SUBSET S |-> Checked(u[T])]
  <1>3. ASSUME NEW T \in SUBSET S, T # {}
        PROVE  /\ Max(T) \in T
               /\ r[T] = addLine(line[Max(T)], r[T \ {Max(T)}])
    <2>1. PICK x \in T : x = Max(T)
      BY <1>3, GreatestNumber
    <2>2. u[T] = b[x] + u[T \ {x}]
      BY <1>1 DEF SumsOf, AddsUp
    <2>3. b[x] \in Nat /\ u[T \ {x}] \in Nat /\ line[x] = Checked(b[x])
      BY <1>2
    <2>4. r[T] = Checked(u[T]) /\ r[T \ {x}] = Checked(u[T \ {x}])
      OBVIOUS
    <2> HIDE DEF r
    <2> QED
      BY <2>1, <2>2, <2>3, <2>4, CheckedAdds
  <1>4. r[{}] = 0
    BY <1>1, MaxMoneyAssumption DEF SumsOf, Checked
  <1>5. r = F(r)
    <2>1. ASSUME NEW T \in SUBSET S PROVE r[T] = F(r)[T]
      <3> HIDE DEF r
      <3> QED
        BY <1>3, <1>4
    <2> QED
      BY <2>1
  <1>6. iter = F(iter)
    BY <1>5
  <1>7. pricingLoop(line) = iter[S]
    BY DEF pricingLoop, MapThenFoldSet
  <1>8. \A f : f = F(f) =>
           /\ f[{}] = 0
           /\ \A T \in SUBSET S :
                 T # {} => f[T] = addLine(line[Max(T)], f[T \ {Max(T)}])
    OBVIOUS
  <1>9. r[S] = Checked(u[S])
    OBVIOUS
  <1> HIDE DEF iter, F, r
  <1>10. SameOnSubsets(r, iter, S)
    <2>1. ASSUME NEW T \in SUBSET S,
                 \A x \in T : r[T \ {x}] = iter[T \ {x}]
          PROVE  r[T] = iter[T]
      <3>1. CASE T = {}
        BY <1>4, <1>6, <1>8, <3>1
      <3>2. CASE T # {}
        <4>1. PICK x \in T : x = Max(T)
          BY <1>3, <3>2
        <4>2. /\ r[T] = addLine(line[x], r[T \ {x}])
              /\ iter[T] = addLine(line[x], iter[T \ {x}])
          BY <1>3, <1>6, <1>8, <3>2, <4>1
        <4> QED
          BY <2>1, <4>2
      <3> QED
        BY <3>1, <3>2
    <2> QED
      BY <2>1, FoldUnique
  <1> QED
    BY <1>1, <1>2, <1>7, <1>9, <1>10 DEF SumsOf, SameOnSubsets

\* The browser's sum of a list of values is exact in the same sense.
THEOREM SumMoneyIsExact ==
    ASSUME NEW n \in Nat, NEW b \in [1 .. n -> Nat],
           NEW values, DOMAIN values = 1 .. n,
           \A i \in 1 .. n : values[i] = Checked(b[i])
    PROVE  sumMoney(values) = Checked(SumFunctionOnSet(b, 1 .. n))
  <1>1. PICK S : S = 1 .. n
    OBVIOUS
  <1>2. IsFiniteSet(S) /\ S \in SUBSET Nat
    BY <1>1, FS_Interval
  <1>3. PICK u : SumsOf(u, b, S)
    BY <1>1, <1>2, SumsExist
  <1>4. \A T \in SUBSET S : u[T] \in Nat
    BY <1>1, <1>2, <1>3, SumsAreNatural
  <1> DEFINE F(g) == [T \in SUBSET S |->
                        IF T = {} THEN 0
                        ELSE LET x == Max(T)
                             IN  addValue(g[T \ {x}], values[x])]
             iter == CHOOSE g : g = F(g)
             r == [T \in SUBSET S |-> Checked(u[T])]
  <1>5. ASSUME NEW T \in SUBSET S, T # {}
        PROVE  /\ Max(T) \in T
               /\ r[T] = addValue(r[T \ {Max(T)}], values[Max(T)])
    <2>1. PICK x \in T : x = Max(T)
      BY <1>2, <1>5, GreatestNumber
    <2>2. u[T] = b[x] + u[T \ {x}]
      BY <1>3 DEF SumsOf, AddsUp
    <2>3. b[x] \in Nat /\ u[T \ {x}] \in Nat /\ values[x] = Checked(b[x])
      BY <1>1, <1>4
    <2>4. r[T] = Checked(u[T]) /\ r[T \ {x}] = Checked(u[T \ {x}])
      OBVIOUS
    <2> HIDE DEF r
    <2> QED
      BY <2>1, <2>2, <2>3, <2>4, CheckedAdds
  <1>6. r[{}] = 0
    BY <1>3, MaxMoneyAssumption DEF SumsOf, Checked
  <1>7. r = F(r)
    <2>1. ASSUME NEW T \in SUBSET S PROVE r[T] = F(r)[T]
      <3> HIDE DEF r
      <3> QED
        BY <1>5, <1>6
    <2> QED
      BY <2>1
  <1>8. iter = F(iter)
    BY <1>7
  <1>9. sumMoney(values) = iter[S]
    BY <1>1 DEF sumMoney, FoldLeft, MapThenFoldSet
  <1>10. \A f : f = F(f) =>
           /\ f[{}] = 0
           /\ \A T \in SUBSET S :
                 T # {} => f[T] = addValue(f[T \ {Max(T)}], values[Max(T)])
    OBVIOUS
  <1>11. r[S] = Checked(u[S])
    OBVIOUS
  <1> HIDE DEF iter, F, r
  <1>12. SameOnSubsets(r, iter, S)
    <2>1. ASSUME NEW T \in SUBSET S,
                 \A x \in T : r[T \ {x}] = iter[T \ {x}]
          PROVE  r[T] = iter[T]
      <3>1. CASE T = {}
        BY <1>6, <1>8, <1>10, <3>1
      <3>2. CASE T # {}
        <4>1. PICK x \in T : x = Max(T)
          BY <1>5, <3>2
        <4>2. /\ r[T] = addValue(r[T \ {x}], values[x])
              /\ iter[T] = addValue(iter[T \ {x}], values[x])
          BY <1>5, <1>8, <1>10, <3>2, <4>1
        <4> QED
          BY <2>1, <4>2
      <3> QED
        BY <3>1, <3>2
    <2> QED
      BY <1>2, <2>1, FoldUnique
  <1> QED
    BY <1>1, <1>3, <1>9, <1>11, <1>12 DEF SumsOf, SameOnSubsets

\* No element of a sum of amounts exceeds the sum.
LEMMA SumBoundsElements ==
    ASSUME NEW S, IsFiniteSet(S), NEW b \in [S -> Nat]
    PROVE  \A x \in S : b[x] <= SumFunctionOnSet(b, S)
  <1>1. b \in [S -> Int]
    OBVIOUS
  <1>2. PICK u : SumsOf(u, b, S)
    BY <1>1, SumsExist
  <1>3. \A T \in SUBSET S : u[T] \in Nat
    BY <1>2, SumsAreNatural
  <1>4. ASSUME NEW x \in S PROVE b[x] <= SumFunctionOnSet(b, S)
    <2>1. u[S] = b[x] + u[S \ {x}] /\ u[S] = SumFunctionOnSet(b, S)
      BY <1>2 DEF SumsOf, AddsUp
    <2>2. b[x] \in Nat /\ u[S \ {x}] \in Nat
      BY <1>3
    <2> QED
      BY <2>1, <2>2
  <1> QED
    BY <1>4

\* A list that SetToSeqs makes of a finite set is a bijection.
LEMMA PagesAreBijections ==
    ASSUME NEW S, IsFiniteSet(S), NEW page \in SetToSeqs(S)
    PROVE  /\ Cardinality(S) \in Nat
           /\ page \in Bijection(1 .. Cardinality(S), S)
           /\ IsFiniteSet(1 .. Cardinality(S))
  <1>1. Cardinality(S) \in Nat
    BY FS_CardinalityType
  <1>2. PICK D : D = 1 .. Cardinality(S)
    OBVIOUS
  <1>3. IsFiniteSet(D) /\ Cardinality(D) = Cardinality(S)
    BY <1>1, <1>2, FS_Interval
  <1>4. page \in Injection(D, S)
    BY <1>2 DEF SetToSeqs, Injection, IsInjective
  <1>5. page \in Surjection(D, S)
    BY <1>3, <1>4, FS_Injection
  <1> QED
    BY <1>1, <1>2, <1>3, <1>4, <1>5 DEF Bijection

\* What the server and the browser compute for an order whose quote was taken
\* from its own lines.
LEMMA QuotedOrderExact ==
    ASSUME NEW items \in [Product -> CartLine],
           NEW rows \in [Product -> ProductRow], Sellable(items, rows),
           NEW address, NEW option \in Option,
           NEW quote, quote = calculateCheckoutQuote(items, rows, address, option),
           totalMinor(quote) # NoAmount,
           NEW order, order.items = items, order.quote = quote,
           \A p \in Wanted(items) : order.unitPrice[p] = rows[p].price
    PROVE  OrderExact(order)
  <1> DEFINE b == LineSubtotals(order)
             line == [p \in Ordered(quote) |->
                        checkedMoneyMultiply(quote.lines[p].unitPrice,
                                             quote.lines[p].quantity)]
  <1>1. PICK S : S = Wanted(items)
    OBVIOUS
  <1>2. S \in SUBSET Nat /\ S \in SUBSET Product /\ IsFiniteSet(S)
    BY <1>1, ProductAssumption, FS_Subset DEF Wanted
  <1>3. ASSUME NEW p \in S
        PROVE  /\ items[p].quantity \in Nat
               /\ order.unitPrice[p] = rows[p].price
               /\ rows[p].price \in Amount /\ rows[p].price \in Nat
               /\ quote.lines[p].unitPrice = rows[p].price
               /\ quote.lines[p].quantity = items[p].quantity
    <2>1. items[p].quantity \in Nat
      BY <1>2, RowTypes
    <2>2. rows[p].price \in Price
      BY <1>1, <1>2 DEF Sellable, ProductRow
    <2>3. rows[p].price \in Amount /\ rows[p].price \in Nat
      BY <2>2, MoneyAssumption DEF Amount
    <2> QED
      BY <1>1, <1>2, <2>1, <2>3 DEF calculateCheckoutQuote
  <1>4. Ordered(quote) = S
    <2>1. \A p \in Product : items[p].quantity \in Nat
      BY RowTypes
    <2>2. \A p \in Product :
             quote.lines[p].quantity =
                IF p \in Wanted(items) THEN items[p].quantity ELSE 0
      BY DEF calculateCheckoutQuote, NoLine
    <2> QED
      BY <1>1, <2>1, <2>2 DEF Ordered, Wanted
  <1>5. /\ b \in [S -> Nat]
        /\ \A p \in S : b[p] = items[p].quantity * rows[p].price
    BY <1>1, <1>3 DEF LineSubtotals
  <1>6. /\ DOMAIN line = S
        /\ \A p \in S : line[p] = Checked(b[p])
    <2>1. ASSUME NEW p \in S PROVE line[p] = Checked(b[p])
      <3>1. line[p] = checkedMoneyMultiply(rows[p].price, items[p].quantity)
        BY <1>3, <1>4
      <3>2. PICK m \in Nat, q \in Nat : m = rows[p].price /\ q = items[p].quantity
        BY <1>3
      <3>3. line[p] = Checked(m * q)
        BY <3>1, <3>2, CheckedAdds
      <3>4. b[p] = q * m /\ q * m = m * q
        BY <1>5, <3>2
      <3> QED
        BY <3>3, <3>4
    <2> QED
      BY <1>4, <2>1
  <1>7. PICK sum : sum = SumFunction(b)
    OBVIOUS
  <1>8. sum = SumFunctionOnSet(b, S)
    BY <1>5, <1>7 DEF SumFunction
  <1>9. subtotalMinor(quote) = pricingLoop(line)
    BY DEF subtotalMinor
  <1> HIDE DEF b, line
  <1>10. sum \in Nat /\ subtotalMinor(quote) = Checked(sum)
    BY <1>2, <1>5, <1>6, <1>8, <1>9, PricingIsExact
  <1>11. Shipping[option] \in Amount /\ Shipping[option] \in Nat
    BY MoneyAssumption DEF Option, Amount
  <1>12. /\ totalMinor(quote) = sum + Shipping[option]
         /\ sum + Shipping[option] <= MaxMoney
    <2>1. quote.option = option
      BY DEF calculateCheckoutQuote
    <2>2. totalMinor(quote) = addLine(Shipping[option], Checked(sum))
      BY <1>10, <2>1 DEF totalMinor
    <2>3. Shipping[option] = Checked(Shipping[option])
      BY <1>11 DEF Checked, Amount
    <2>4. totalMinor(quote) = Checked(Shipping[option] + sum)
      BY <1>10, <1>11, <2>2, <2>3, CheckedAdds
    <2> QED
      BY <1>10, <1>11, <2>4 DEF Checked
  <1>13. sum <= MaxMoney /\ subtotalMinor(quote) = sum
    BY <1>10, <1>11, <1>12, MaxMoneyAssumption DEF Checked
  <1>14. sum + Shipping[option] \in Amount
    BY <1>10, <1>11, <1>12, MaxMoneyAssumption DEF Amount
  <1>15. Range(b) \subseteq Amount
    <2>1. ASSUME NEW p \in S PROVE b[p] \in Amount
      <3>1. b[p] \in Nat /\ b[p] <= sum
        BY <1>2, <1>5, <1>8, SumBoundsElements
      <3> QED
        BY <1>10, <1>13, <3>1, MaxMoneyAssumption DEF Amount
    <2> QED
      BY <1>5, <2>1 DEF Range
  <1>16. ASSUME NEW page \in SetToSeqs(S)
         PROVE  getCartQuote(items, order.unitPrice, page) = sum
    <2>1. PICK n : n = Cardinality(S)
      OBVIOUS
    <2>2. /\ n \in Nat /\ page \in Bijection(1 .. n, S)
          /\ IsFiniteSet(1 .. n)
      BY <1>2, <2>1, PagesAreBijections
    <2>3. DOMAIN page = 1 .. n /\ \A i \in 1 .. n : page[i] \in S
      BY <2>2 DEF Bijection, Injection
    <2> DEFINE d == [i \in 1 .. n |-> b[page[i]]]
               values == [i \in DOMAIN page |->
                            multiplyMoney(order.unitPrice[page[i]],
                                          items[page[i]].quantity)]
    <2>4. d \in [1 .. n -> Nat]
      BY <1>5, <2>3
    <2>5. ASSUME NEW i \in 1 .. n PROVE values[i] = Checked(d[i])
      <3>1. PICK p \in S : p = page[i]
        BY <2>3
      <3>2. values[i] = multiplyMoney(rows[p].price, items[p].quantity)
        BY <1>3, <2>3, <3>1
      <3>3. PICK m \in Nat, q \in Nat : m = rows[p].price /\ q = items[p].quantity
        BY <1>3
      <3>4. moneyMinorValue(m) = m /\ m # NoAmount
        BY <1>3, <3>3 DEF moneyMinorValue, NoAmount
      <3>5. m * q \in Nat /\ q * m = m * q
        BY <3>3
      <3>6. values[i] = Checked(m * q)
        <4>1. PICK product \in Nat : product = m * q
          BY <3>5
        <4> QED
          BY <3>2, <3>3, <3>4, <4>1, MaxMoneyAssumption
             DEF multiplyMoney, Checked
      <3>7. d[i] = q * m
        BY <1>5, <3>1, <3>3
      <3> QED
        BY <3>5, <3>6, <3>7
    <2>6. DOMAIN values = 1 .. n
      BY <2>3
    <2>7. getCartQuote(items, order.unitPrice, page) = sumMoney(values)
      BY DEF getCartQuote
    <2>8. \A i \in 1 .. n : d[i] = b[page[i]]
      OBVIOUS
    <2> HIDE DEF d, values
    <2>9. sumMoney(values) = Checked(SumFunctionOnSet(d, 1 .. n))
      BY <2>2, <2>4, <2>5, <2>6, SumMoneyIsExact
    <2>10. SumFunctionOnSet(d, 1 .. n) = SumFunctionOnSet(b, S)
      <3>1. d \in [1 .. n -> Int] /\ b \in [S -> Int]
        BY <1>5, <2>4
      <3>2. PICK D : D = 1 .. n
        OBVIOUS
      <3>3. IsFiniteSet(D) /\ Reindexes(page, d, D, b, S)
        BY <2>2, <2>8, <3>1, <3>2 DEF Reindexes
      <3>4. SumFunctionOnSet(d, D) = SumFunctionOnSet(b, S)
        BY <1>2, <3>1, <3>3, SumReindexed
      <3> QED
        BY <3>2, <3>4
    <2> QED
      BY <1>8, <1>13, <2>7, <2>9, <2>10 DEF Checked
  <1> QED
    BY <1>1, <1>7, <1>12, <1>13, <1>14, <1>15, <1>16
       DEF OrderExact, b, calculateCheckoutQuote
-----------------------------------------------------------------------------
(* Amounts of orders *)

LEMMA OptionInit == Init => QuotedOptions
  <1>1. \A c \in Conn : Init => tx[c].pc = "idle"
    BY IdleType DEF Init, Reply
  <1> QED
    BY <1>1 DEF Init, QuotedOptions

LEMMA OptionNext == TypeInv /\ QuotedOptions /\ [Next]_vars => QuotedOptions'
  <1> SUFFICES ASSUME TypeInv, QuotedOptions, [Next]_vars PROVE QuotedOptions'
    OBVIOUS
  <1> DEFINE Kept(d) == tx'[d].pc \in {"quote", "lockCart", "lockProducts"}
                           => tx'[d].quote.option \in Option
  <1>1. ASSUME NEW c \in Conn, NEW r \in Reply, Finish(c, r)
        PROVE  \A d \in Conn : Kept(d)
    BY <1>1, IdleType DEF Finish, QuotedOptions, TypeInv, TypeOK
  <1>2. ASSUME NEW c \in Conn, NEW request, Start(c, request),
               request.pc \in {"quote", "lockCart", "lockProducts"}
                  => request.quote.option \in Option
        PROVE  \A d \in Conn : Kept(d)
    BY <1>2 DEF Start, QuotedOptions, TypeInv, TypeOK
  <1>3. ASSUME \A d \in Conn : Kept(d),
               \A b \in Buyer : \/ quotes'[b] = quotes[b]
                               \/ quotes'[b].option \in Option
        PROVE  QuotedOptions'
    BY <1>3 DEF QuotedOptions
  <1>4. ASSUME NEW c \in Conn, ReceiveQuote(c) PROVE QuotedOptions'
    <2>1. /\ tx[c].quote.option \in Option
          /\ \E quote : /\ quote.option = tx[c].quote.option
                        /\ quotes' = [quotes EXCEPT ![tx[c].buyer] = quote]
      BY <1>4 DEF ReceiveQuote, QuotedOptions, calculateCheckoutQuote
    <2>2. \A b \in Buyer : \/ quotes'[b] = quotes[b]
                            \/ quotes'[b].option \in Option
      BY <2>1 DEF TypeInv, TypeOK
    <2> QED
      BY <1>1, <1>3, <1>4, <2>2 DEF ReceiveQuote, Reply
  <1>5. ASSUME NEW c \in Conn, NEW b \in Buyer, NEW option \in Option,
               ReadCartForQuote(c, b, option)
        PROVE  QuotedOptions'
    <2> DEFINE quote == [NoQuote EXCEPT !.address = addresses[b],
                                        !.option = option]
               request == [Idle("none") EXCEPT
                              !.pc = "quote", !.buyer = b,
                              !.items = cartItems[b], !.quote = quote]
    <2>1. quote.option = option
      BY DEF NoQuote
    <2>2. request.quote = quote
      BY DEF Idle
    <2>3. Start(c, request) /\ quotes' = quotes
      BY <1>5 DEF ReadCartForQuote
    <2> HIDE DEF request, quote
    <2> QED
      BY <1>2, <1>3, <2>1, <2>2, <2>3
  <1>6. ASSUME NEW c \in Conn, NEW b \in Buyer, NEW k \in Key,
               BeginCheckout(c, b, k)
        PROVE  QuotedOptions'
    <2> DEFINE request == [Idle("none") EXCEPT
                              !.pc = "lockCart", !.buyer = b, !.key = k,
                              !.quote = quotes[b]]
    <2>1. request.quote = quotes[b]
      BY DEF Idle
    <2>2. Start(c, request) /\ quotes' = quotes /\ quotes[b].option \in Option
      BY <1>6 DEF BeginCheckout, QuotedOptions
    <2> HIDE DEF request
    <2> QED
      BY <1>2, <1>3, <2>1, <2>2
  <1>7. ASSUME NEW c \in Conn, NEW b \in Buyer, NEW p \in Product,
               NEW q \in Quantity, ReadProductForCart(c, b, p, q)
        PROVE  QuotedOptions'
    <2> DEFINE request == [Idle("none") EXCEPT
                              !.pc = "upsertItem", !.buyer = b, !.product = p,
                              !.quantity = q]
    <2>1. request.pc = "upsertItem"
      BY DEF Idle
    <2>2. Start(c, request) /\ quotes' = quotes
      BY <1>7 DEF ReadProductForCart
    <2> HIDE DEF request
    <2> QED
      BY <1>2, <1>3, <2>1, <2>2
  <1>8. ASSUME NEW c \in Conn, NEW p \in Product,
               NEW pc \in {"setInventory", "setStatus"},
               ReadOwnProduct(c, p, pc)
        PROVE  QuotedOptions'
    <2> DEFINE request == [Idle("none") EXCEPT !.pc = pc, !.product = p,
                              !.rows = [@ EXCEPT ![p] = products[p]]]
    <2>1. request.pc = pc
      BY DEF Idle
    <2>2. Start(c, request) /\ quotes' = quotes
      BY <1>8 DEF ReadOwnProduct
    <2> HIDE DEF request
    <2> QED
      BY <1>2, <1>3, <2>1, <2>2
  <1>9. ASSUME NEW c \in Conn, NEW r \in Reply, Finish(c, r), quotes' = quotes
        PROVE  QuotedOptions'
    BY <1>1, <1>3, <1>9
  <1>10. ASSUME NEW c \in Conn,
                findForCheckout(c) \/ \E p \in Product : findByIdsForUpdate(c, p)
         PROVE  QuotedOptions'
    <2>1. /\ quotes' = quotes
          /\ tx[c].pc \in {"lockCart", "lockProducts"}
          /\ tx'[c].quote = tx[c].quote
          /\ \A d \in Conn \ {c} : tx'[d] = tx[d]
      <3>1. tx \in [Conn -> Tx] /\ quotes' = quotes
        BY <1>10 DEF findForCheckout, findByIdsForUpdate, TypeInv, TypeOK
      <3>2. CASE findForCheckout(c)
        BY <3>1, <3>2 DEF findForCheckout, Tx
      <3>3. ASSUME NEW p \in Product, findByIdsForUpdate(c, p)
            PROVE  /\ tx[c].pc = "lockProducts"
                   /\ tx'[c].quote = tx[c].quote
                   /\ \A d \in Conn \ {c} : tx'[d] = tx[d]
        BY <3>1, <3>3 DEF findByIdsForUpdate, Tx
      <3> QED
        BY <1>10, <3>1, <3>2, <3>3
    <2>2. \A d \in Conn : Kept(d)
      BY <2>1 DEF QuotedOptions
    <2> QED
      BY <1>3, <2>1, <2>2
  <1>11. ASSUME UNCHANGED <<quotes, tx>> PROVE QuotedOptions'
    BY <1>11 DEF QuotedOptions
  <1>12. ASSUME NEW c \in Conn, CheckoutStep(c) \/ Abort(c)
         PROVE  QuotedOptions'
    <2>1. \/ findForCheckout(c) \/ \E p \in Product : findByIdsForUpdate(c, p)
          \/ quotes' = quotes /\ \E r \in Reply : Finish(c, r)
      BY <1>12
      DEF CheckoutStep, Abort, ReplayOrder, RejectEmptyCart, RejectUnavailable,
          RejectChangedQuote, PlaceOrder, Reply
    <2> QED
      BY <1>9, <1>10, <2>1
  <1>13. ASSUME ShopperNext PROVE QuotedOptions'
    <2>1. ASSUME NEW c \in Conn, setItem(c) PROVE QuotedOptions'
      BY <1>9, <2>1 DEF setItem, Reply
    <2>2. ASSUME NEW b \in Buyer,
                 ChangeAddress(b) \/ \E p \in Product : removeItem(b, p)
          PROVE  QuotedOptions'
      BY <1>11, <2>2 DEF ChangeAddress, removeItem
    <2> QED
      BY <1>4, <1>5, <1>6, <1>7, <1>13, <2>1, <2>2 DEF ShopperNext
  <1>14. ASSUME SellerNext PROVE QuotedOptions'
    <2>1. ASSUME NEW c \in Conn,
                 \/ KeepInventory(c)
                 \/ \E inventory \in Stock : updateProductInventory(c, inventory)
                 \/ \E status \in Status : updateProductStatus(c, status)
          PROVE  QuotedOptions'
      BY <1>9, <2>1
      DEF KeepInventory, updateProductInventory, updateProductStatus, Reply
    <2>2. ASSUME NEW p \in Product, NEW price \in Price, updateProduct(p, price)
          PROVE  QuotedOptions'
      BY <1>11, <2>2 DEF updateProduct
    <2> QED
      BY <1>8, <1>14, <2>1, <2>2 DEF SellerNext
  <1> QED
    BY <1>11, <1>12, <1>13, <1>14 DEF Next, vars

LEMMA AmountsNext ==
    TypeInv /\ QuotedOptions /\ AmountsExact /\ [Next]_vars => AmountsExact'
  <1> SUFFICES ASSUME TypeInv, QuotedOptions, AmountsExact, [Next]_vars
               PROVE  AmountsExact'
    OBVIOUS
  <1>1. CASE orders' = orders
    BY <1>1 DEF AmountsExact
  <1>2. ASSUME NEW c \in Conn, PlaceOrder(c) PROVE AmountsExact'
    <2>1. /\ orders \in Seq(Order)
          /\ orders' = Append(orders, createPlaced(c))
          /\ tx[c].pc = "lockProducts"
          /\ Sellable(tx[c].items, tx[c].rows)
          /\ LockedQuote(c) = tx[c].quote
          /\ totalMinor(tx[c].quote) # NoAmount
      BY <1>2 DEF PlaceOrder, RowsLocked, QuoteAccepted, TypeInv, TypeOK
    <2>2. /\ tx[c].items \in [Product -> CartLine]
          /\ tx[c].rows \in [Product -> ProductRow]
          /\ tx[c].quote.option \in Option
      BY <2>1 DEF TypeInv, TypeOK, Tx, QuotedOptions
    <2>3. PICK order : order = createPlaced(c)
      OBVIOUS
    <2>4. /\ order.items = tx[c].items
          /\ order.quote = tx[c].quote
          /\ \A p \in Wanted(tx[c].items) :
                order.unitPrice[p] = tx[c].rows[p].price
      BY <2>3 DEF createPlaced, Wanted
    <2>5. tx[c].quote = calculateCheckoutQuote(tx[c].items, tx[c].rows,
                           addresses[tx[c].buyer], tx[c].quote.option)
      BY <2>1 DEF LockedQuote
    <2>6. OrderExact(order)
      BY <2>1, <2>2, <2>4, <2>5, QuotedOrderExact
    <2>7. /\ DOMAIN orders' = DOMAIN orders \cup {Len(orders) + 1}
          /\ \A n \in DOMAIN orders : orders'[n] = orders[n]
          /\ orders'[Len(orders) + 1] = order
      BY <2>1, <2>3
    <2> QED
      BY <2>6, <2>7 DEF AmountsExact
  <1> QED
    BY <1>1, <1>2, OrdersAppear

\* For every set of prices, quantities, products and delivery options within the
\* maximum: the checks along the way let exactly the orders pass whose exact
\* total fits its column, in whatever order the lines are added up, and the
\* browser's cart page, which adds them up in its own order, shows that subtotal.
THEOREM AmountsAreExact == Spec => []AmountsExact
  <1>1. Init => AmountsExact
    BY DEF Init, AmountsExact
  <1>2. Spec => []TypeInv
    BY TypeInit, TypeNext, PTL DEF Spec
  <1>3. Spec => []QuotedOptions
    BY <1>2, OptionInit, OptionNext, PTL DEF Spec
  <1> QED
    BY <1>1, <1>2, <1>3, AmountsNext, PTL DEF Spec

-----------------------------------------------------------------------------
\* The parts together: what a checkout relies on between its locks and its
\* commit, whatever shoppers and sellers do meanwhile.
THEOREM CheckoutSafe == Spec => []CheckoutInv
  <1>0. Spec => []QuotedOptions
    <2>1. Spec => []TypeInv
      BY TypeInit, TypeNext, PTL DEF Spec
    <2> QED
      BY <2>1, OptionInit, OptionNext, PTL DEF Spec
  <1>1. LockInv => TypeOK /\ (\A c \in Conn : RequestOK(c))
                     /\ LockDiscipline /\ LockedRowsCurrent
    BY DEF LockInv, TypeInv
  <1>2. (/\ TypeOK /\ (\A c \in Conn : RequestOK(c))
         /\ LockDiscipline /\ LockedRowsCurrent) /\ QuotedOptions
           /\ OneOrderPerKey
           /\ (StampsSpent /\ LineOrderedOnce)
           /\ (StockAudited /\ DecrementsChain) => CheckoutInv
    BY DEF CheckoutInv
  <1> QED
    BY <1>0, <1>1, <1>2, LockCorrect, OneOrder, StampsCorrect,
       DecrementsAreChained, PTL

-----------------------------------------------------------------------------
(* Refinement *)

LEMMA PlacingImplementsBook ==
    ASSUME LockInv, NEW c \in Conn, PlaceOrder(c)
    PROVE  Book!Next
  <1> DEFINE o == createPlaced(c)
             items == tx[c].items
  <1>1. /\ tx[c].pc = "lockProducts"
        /\ \A p \in Wanted(items) : tx[c].rows[p] = products[p]
    BY DEF PlaceOrder, RowsLocked, LockInv, LockedRowsCurrent, Wanted
  <1>2. /\ orders \in Seq(Order)
        /\ orders' = Append(orders, o)
        /\ products' = decrementAvailableInventory(items)
    BY DEF PlaceOrder, LockInv, TypeInv, TypeOK
  <1>3. /\ Len(orders) + 1 \in DOMAIN orders'
        /\ orders'[Len(orders) + 1] = o
    BY <1>2
  <1>4. Book!Ordered(o) = Wanted(items)
    BY DEF Book!Ordered, Wanted, createPlaced
  <1>5. Wanted(items) # {}
    BY <1>1 DEF LockInv, TypeInv, RequestOK
  <1>6. \A n \in DOMAIN orders :
           ~(orders[n].buyer = o.buyer /\ orders[n].key = o.key)
    BY <1>1 DEF LockInv, LockDiscipline, OrdersWith, createPlaced
  <1>7. ASSUME NEW p \in Wanted(items)
        PROVE  /\ products[p].status = "active"
               /\ products[p].inventory >= o.items[p].quantity
               /\ products[p].price = o.unitPrice[p]
               /\ o.quote.lines[p].quantity = o.items[p].quantity
               /\ o.quote.lines[p].unitPrice = o.unitPrice[p]
    <2>1. /\ o.items = items /\ o.quote = LockedQuote(c)
          /\ o.unitPrice[p] = tx[c].rows[p].price
      BY DEF createPlaced, PlaceOrder, QuoteAccepted, Wanted
    <2>2. /\ LockedQuote(c).lines[p].quantity = items[p].quantity
          /\ LockedQuote(c).lines[p].unitPrice = tx[c].rows[p].price
      BY DEF LockedQuote, calculateCheckoutQuote, Wanted
    <2>3. /\ products[p].status = "active"
          /\ products[p].inventory >= items[p].quantity
      BY DEF PlaceOrder
    <2> QED
      BY <1>1, <2>1, <2>2, <2>3
  <1>8. products' = [p \in Product |->
           IF p \in Book!Ordered(o)
           THEN [products[p] EXCEPT !.inventory = @ - o.items[p].quantity]
           ELSE products[p]]
    BY <1>2, <1>4 DEF decrementAvailableInventory, createPlaced
  <1> HIDE DEF o, items
  <1>9. Book!Place(o)
    BY <1>2, <1>4, <1>5, <1>6, <1>7, <1>8 DEF Book!Place
  <1> QED
    BY <1>3, <1>9 DEF Book!Next

\* The checkout, with its carts, quotes, locks and retries, implements the
\* order book: orders are placed in single steps from what is in stock then.
THEOREM CheckoutImplementsOrderBook == Spec => ImplementsOrderBook
  <1>1. Init => Book!Init
    BY DEF Init, Book!Init
  <1>2. LockInv /\ [Next]_vars => [Book!Next]_(Book!vars)
    <2> SUFFICES ASSUME LockInv, [Next]_vars PROVE [Book!Next]_(Book!vars)
      OBVIOUS
    <2> USE DEF LockInv, TypeInv
    <2>1. ASSUME NEW c \in Conn, PlaceOrder(c) PROVE Book!Next
      BY <2>1, PlacingImplementsBook
    <2>2. ASSUME NEW c \in Conn, NEW inventory \in Stock,
                 updateProductInventory(c, inventory)
          PROVE  Book!Next
      <3>1. tx[c].product \in Product
        BY <2>2 DEF updateProductInventory, RequestOK
      <3>2. Book!Manage(tx[c].product)
        BY <2>2, <3>1
        DEF updateProductInventory, TypeOK, ProductRow, Book!Manage
      <3> QED
        BY <3>1, <3>2 DEF Book!Next
    <2>3. ASSUME NEW c \in Conn, NEW status \in Status,
                 updateProductStatus(c, status)
          PROVE  Book!Next
      <3>1. tx[c].product \in Product
        BY <2>3 DEF updateProductStatus, RequestOK
      <3>2. Book!Manage(tx[c].product)
        BY <2>3, <3>1
        DEF updateProductStatus, TypeOK, ProductRow, Book!Manage
      <3> QED
        BY <3>1, <3>2 DEF Book!Next
    <2>4. ASSUME NEW p \in Product, NEW price \in Price, updateProduct(p, price)
          PROVE  Book!Next
      <3>1. Book!Manage(p)
        BY <2>4 DEF updateProduct, TypeOK, ProductRow, Book!Manage
      <3> QED
        BY <3>1 DEF Book!Next
    <2> QED
      BY <2>1, <2>2, <2>3, <2>4, ProductSteps, OrdersAppear DEF Book!vars
  <1>3. Spec => Book!Spec
    BY <1>1, <1>2, LockCorrect, PTL DEF Spec, Book!Spec
  <1> QED
    BY <1>3 DEF ImplementsOrderBook
=============================================================================
