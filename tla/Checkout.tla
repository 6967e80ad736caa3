------------------------------ MODULE Checkout ------------------------------
(***************************************************************************)
(* The checkout of backend/src/services/checkoutService.ts as PostgreSQL    *)
(* runs it at READ COMMITTED: connections (Conn) execute quote, checkout,   *)
(* cart and seller requests, one database statement or one locked section   *)
(* per step, against the carts, products, addresses and orders they share.  *)
(*                                                                         *)
(* A transaction's own writes are invisible until it commits, so the write  *)
(* phase of a checkout (order, lines, decrements, audits, cart clearing,    *)
(* notifications) is the single action PlaceOrder; what other requests can  *)
(* see or wait for, the row locks taken before it, are steps of their own.  *)
(***************************************************************************)
EXTENDS Integers, Sequences, FiniteSets, FiniteSetsExt, Money

CONSTANTS
    User,       \* accounts of one tenant
    Buyer,      \* the accounts that shop
    Product,    \* product ids; their order is the order of the UUIDs
    Owner,      \* Owner[p] is the seller of p
    Key,        \* idempotency keys that clients send
    Conn,       \* database connections, one request each
    Price,      \* unit prices in minor units
    Quantity,   \* quantities a cart line may ask for
    Stock,      \* inventories a seller may set
    Shipping,   \* Shipping[o] is the price of delivery option o
    MaxWrites,  \* bound on the cart, address and seller writes of a behaviour
    None        \* nobody: a free lock, an unused field

ASSUME UserAssumption == Buyer \subseteq User /\ Owner \in [Product -> User]
ASSUME ProductAssumption == Product \subseteq Nat /\ IsFiniteSet(Product)
ASSUME MoneyAssumption ==
    /\ Price \subseteq Amount      \* products_price_shape_check
    /\ Shipping \in [DOMAIN Shipping -> Amount]
ASSUME AmountAssumption ==
    /\ Quantity \subseteq Nat \ {0}
    /\ Stock \subseteq Nat
    /\ MaxWrites \in Nat
ASSUME NoneAssumption ==
    None \notin Conn \cup Buyer \cup Key \cup DOMAIN Shipping

VARIABLES
    products,        \* products[p]: the committed row
    cartItems,       \* cartItems[b][p]: quantity, and the write that set it
    addresses,       \* addresses[b]: version of the address row, 0 if deleted
    orders,          \* committed orders with their lines, in commit order
    inventoryAudits, \* inventoryAudits[p]: the product's audit_events
    notifications,   \* notifications[u]: order numbers announced to u
    cartLock,        \* cartLock[b]: the connection holding the cart row
    productLock,     \* productLock[p]: the connection holding the product row
    quotes,          \* quotes[b]: the last quote the buyer's client received
    tx,              \* tx[c]: the request the connection is executing
    writes           \* writes so far: a clock that names each cart write

vars == <<products, cartItems, addresses, orders, inventoryAudits,
          notifications, cartLock, productLock, quotes, tx, writes>>

shop == <<products, cartItems, addresses, orders, inventoryAudits,
          notifications>>
locks == <<cartLock, productLock>>

-----------------------------------------------------------------------------
(* Rows, quotes and requests *)

NoPrice == -1   \* unit_price_minor is null in rows older than the column

Status == {"draft", "active", "paused", "sold_out", "archived"}
ProductRow == [status: Status, inventory: Nat, price: Price \cup {NoPrice}]
BlankRow == [status |-> "draft", inventory |-> 0, price |-> NoPrice]

CartLine == [quantity: Quantity \cup {0}, stamp: Nat]
NoItem == [quantity |-> 0, stamp |-> 0]
EmptyCart == [p \in Product |-> NoItem]

QuoteLine == [quantity: Quantity \cup {0}, unitPrice: Price \cup {NoPrice},
              inventory: Nat]
NoLine == [quantity |-> 0, unitPrice |-> NoPrice, inventory |-> 0]
Option == DOMAIN Shipping
Quote == [address: Nat, option: Option \cup {None},
          lines: [Product -> QuoteLine]]
NoQuote == [address |-> 0, option |-> None,
            lines |-> [p \in Product |-> NoLine]]

Order == [buyer: Buyer, key: Key, quote: Quote,
          items: [Product -> CartLine], unitPrice: [Product -> Price \cup {NoPrice}]]

AuditEvent == [event: {"set", "decremented"}, previous: Nat, next: Nat]

Reply == {"none", "placed", "replayed", "empty", "unavailable", "changed",
          "lost"}
Tx == [pc: {"idle", "quote", "lockCart", "lockProducts", "upsertItem",
            "setInventory", "setStatus"},
       buyer: Buyer \cup {None}, key: Key \cup {None}, quote: Quote,
       items: [Product -> CartLine], rows: [Product -> ProductRow],
       product: Product \cup {None}, quantity: Quantity \cup {0},
       reply: Reply]
Idle(reply) ==
    [pc |-> "idle", buyer |-> None, key |-> None, quote |-> NoQuote,
     items |-> EmptyCart, rows |-> [p \in Product |-> BlankRow],
     product |-> None, quantity |-> 0, reply |-> reply]

\* The products a cart holds.
Wanted(items) == {p \in Product : items[p].quantity > 0}

\* Every wanted product can be sold from these rows.
Sellable(items, rows) ==
    \A p \in Wanted(items) :
        /\ rows[p].status = "active"
        /\ rows[p].inventory >= items[p].quantity
        /\ rows[p].price # NoPrice

\* The fingerprint that quoteId hashes.
calculateCheckoutQuote(items, rows, address, option) ==
    [address |-> address, option |-> option,
     lines |-> [p \in Product |->
        IF p \in Wanted(items)
        THEN [quantity |-> items[p].quantity, unitPrice |-> rows[p].price,
              inventory |-> rows[p].inventory]
        ELSE NoLine]]

Ordered(quote) == {p \in Product : quote.lines[p].quantity > 0}

\* The subtotal that checkoutService and calculateCheckoutQuote both compute.
subtotalMinor(quote) ==
    pricingLoop([p \in Ordered(quote) |->
                    checkedMoneyMultiply(quote.lines[p].unitPrice,
                                         quote.lines[p].quantity)])

totalMinor(quote) == addLine(Shipping[quote.option], subtotalMinor(quote))

\* The total of the cart page, which lists the products in the order of page.
getCartQuote(items, unitPrice, page) ==
    sumMoney([i \in DOMAIN page |->
                 multiplyMoney(unitPrice[page[i]], items[page[i]].quantity)])

OrdersWith(b, k) ==
    {n \in DOMAIN orders : orders[n].buyer = b /\ orders[n].key = k}

Init ==
    /\ products \in [Product ->
          [status: {"active"}, inventory: Stock \ {0}, price: Price]]
    /\ cartItems \in [Buyer -> [Product ->
          {NoItem} \cup [quantity: Quantity, stamp: {1}]]]
    /\ addresses = [b \in Buyer |-> 1]
    /\ orders = <<>>
    /\ inventoryAudits = [p \in Product |-> <<>>]
    /\ notifications = [u \in User |-> <<>>]
    /\ cartLock = [b \in Buyer |-> None]
    /\ productLock = [p \in Product |-> None]
    /\ quotes = [b \in Buyer |-> NoQuote]
    /\ tx = [c \in Conn |-> Idle("none")]
    /\ writes = 1

-----------------------------------------------------------------------------
(* Connections *)

Start(c, request) ==
    /\ tx[c].pc = "idle"
    /\ tx' = [tx EXCEPT ![c] = request]

Finish(c, reply) ==
    tx' = [tx EXCEPT ![c] = Idle(reply)]

\* Mutant: the cart row stays locked.
ReleaseLocks_KeepsCart(c) ==
    /\ productLock' =
         [p \in Product |-> IF productLock[p] = c THEN None ELSE productLock[p]]
    /\ UNCHANGED cartLock

\* COMMIT or ROLLBACK gives back every row lock of the connection.
ReleaseLocks(c) ==
    /\ cartLock' = [b \in Buyer |-> IF cartLock[b] = c THEN None ELSE cartLock[b]]
    /\ productLock' =
         [p \in Product |-> IF productLock[p] = c THEN None ELSE productLock[p]]

\* The connection or its server process dies, or the request fails a check
\* that leaves no trace; PostgreSQL rolls the open transaction back.
Abort(c) ==
    /\ tx[c].pc # "idle"
    /\ ReleaseLocks(c)
    /\ Finish(c, "lost")
    /\ UNCHANGED <<shop, quotes, writes>>

-----------------------------------------------------------------------------
(* POST /checkout/quote: unlocked reads, the cart and address before the     *)
(* product rows                                                             *)

ReadCartForQuote(c, b, option) ==
    /\ addresses[b] # 0
    /\ Wanted(cartItems[b]) # {}
    /\ Start(c, [Idle("none") EXCEPT
            !.pc = "quote", !.buyer = b, !.items = cartItems[b],
            !.quote = [NoQuote EXCEPT !.address = addresses[b],
                                      !.option = option]])
    /\ UNCHANGED <<shop, locks, quotes, writes>>

ReceiveQuote(c) ==
    LET quote == calculateCheckoutQuote(tx[c].items, products,
                     tx[c].quote.address, tx[c].quote.option)
    IN  /\ tx[c].pc = "quote"
        /\ Sellable(tx[c].items, products)
        /\ totalMinor(quote) # NoAmount
        /\ quotes' = [quotes EXCEPT ![tx[c].buyer] = quote]
        /\ Finish(c, "none")
        /\ UNCHANGED <<shop, locks, writes>>

-----------------------------------------------------------------------------
(* POST /orders *)

\* The client may send any key, the one of an earlier attempt included.
BeginCheckout(c, b, k) ==
    /\ quotes[b] # NoQuote
    /\ Start(c, [Idle("none") EXCEPT !.pc = "lockCart", !.buyer = b,
                                     !.key = k, !.quote = quotes[b]])
    /\ UNCHANGED <<shop, locks, quotes, writes>>

\* SELECT ... FROM carts ... FOR UPDATE waits until the row is free.
CartFree(b) == cartLock[b] = None

\* Mutant: a replay notifies the buyer again.
ReplayOrder_Announces(c) ==
    /\ tx[c].pc = "lockCart"
    /\ CartFree(tx[c].buyer)
    /\ \E n \in OrdersWith(tx[c].buyer, tx[c].key) :
          notifications' = [notifications EXCEPT ![tx[c].buyer] = Append(@, n)]
    /\ Finish(c, "replayed")
    /\ UNCHANGED <<products, cartItems, addresses, orders, inventoryAudits,
                   locks, quotes, writes>>

\* An order with the key exists: return it, whatever the request says.
ReplayOrder(c) ==
    /\ tx[c].pc = "lockCart"
    /\ CartFree(tx[c].buyer)
    /\ OrdersWith(tx[c].buyer, tx[c].key) # {}
    /\ Finish(c, "replayed")
    /\ UNCHANGED <<shop, locks, quotes, writes>>

\* Mutant: the empty cart is refused before the key is looked up.
RejectEmptyCart_BeforeReplay(c) ==
    /\ tx[c].pc = "lockCart"
    /\ CartFree(tx[c].buyer)
    /\ Wanted(cartItems[tx[c].buyer]) = {}
    /\ Finish(c, "empty")
    /\ UNCHANGED <<shop, locks, quotes, writes>>

RejectEmptyCart(c) ==
    /\ tx[c].pc = "lockCart"
    /\ CartFree(tx[c].buyer)
    /\ OrdersWith(tx[c].buyer, tx[c].key) = {}
    /\ Wanted(cartItems[tx[c].buyer]) = {}
    /\ Finish(c, "empty")
    /\ UNCHANGED <<shop, locks, quotes, writes>>

\* The cart row is locked and its lines are read.
findForCheckout(c) ==
    /\ tx[c].pc = "lockCart"
    /\ CartFree(tx[c].buyer)
    /\ OrdersWith(tx[c].buyer, tx[c].key) = {}
    /\ Wanted(cartItems[tx[c].buyer]) # {}
    /\ cartLock' = [cartLock EXCEPT ![tx[c].buyer] = c]
    /\ tx' = [tx EXCEPT ![c].pc = "lockProducts",
                        ![c].items = cartItems[tx[c].buyer]]
    /\ UNCHANGED <<shop, productLock, quotes, writes>>

\* Mutant: no ORDER BY.
findByIdsForUpdate_Unordered(c, p) ==
    /\ tx[c].pc = "lockProducts"
    /\ p \in Wanted(tx[c].items)
    /\ productLock[p] = None
    /\ productLock' = [productLock EXCEPT ![p] = c]
    /\ tx' = [tx EXCEPT ![c].rows[p] = products[p]]
    /\ UNCHANGED <<shop, cartLock, quotes, writes>>

\* SELECT ... ORDER BY id FOR UPDATE: one row after the other, in id order,
\* each read in its latest committed version once it is locked.
findByIdsForUpdate(c, p) ==
    /\ tx[c].pc = "lockProducts"
    /\ p \in Wanted(tx[c].items)
    /\ productLock[p] = None
    /\ \A q \in Wanted(tx[c].items) : q < p => productLock[q] = c
    /\ productLock' = [productLock EXCEPT ![p] = c]
    /\ tx' = [tx EXCEPT ![c].rows[p] = products[p]]
    /\ UNCHANGED <<shop, cartLock, quotes, writes>>

RowsLocked(c) ==
    /\ tx[c].pc = "lockProducts"
    /\ \A p \in Wanted(tx[c].items) : productLock[p] = c

\* The quote recomputed from the locked rows.
LockedQuote(c) ==
    calculateCheckoutQuote(tx[c].items, tx[c].rows, addresses[tx[c].buyer],
                           tx[c].quote.option)

\* The amounts of the recomputed quote fit. Shipping is added only when there is
\* an address to deliver to.
WithinLimit(c) ==
    \E quote \in {LockedQuote(c)} :
       IF quote.address = 0
       THEN subtotalMinor(quote) # NoAmount
       ELSE totalMinor(quote) # NoAmount

RejectUnavailable(c) ==
    /\ RowsLocked(c)
    /\ Sellable(tx[c].items, tx[c].rows) => ~WithinLimit(c)
    /\ ReleaseLocks(c)
    /\ Finish(c, "unavailable")
    /\ UNCHANGED <<shop, quotes, writes>>

RejectChangedQuote(c) ==
    /\ RowsLocked(c)
    /\ Sellable(tx[c].items, tx[c].rows)
    /\ addresses[tx[c].buyer] = 0 \/ LockedQuote(c) # tx[c].quote
    /\ WithinLimit(c)
    /\ ReleaseLocks(c)
    /\ Finish(c, "changed")
    /\ UNCHANGED <<shop, quotes, writes>>

\* Mutant: the quote is not compared.
QuoteAccepted_Unchecked(c) ==
    /\ addresses[tx[c].buyer] # 0
    /\ totalMinor(LockedQuote(c)) # NoAmount

\* The quote the client accepted is the one of the locked rows.
QuoteAccepted(c) ==
    /\ addresses[tx[c].buyer] # 0
    /\ LockedQuote(c) = tx[c].quote
    /\ totalMinor(tx[c].quote) # NoAmount

createPlaced(c) ==
    [buyer |-> tx[c].buyer, key |-> tx[c].key, quote |-> tx[c].quote,
     items |-> tx[c].items,
     unitPrice |-> [p \in Product |-> IF p \in Wanted(tx[c].items)
                                      THEN tx[c].rows[p].price ELSE NoPrice]]

decrementAvailableInventory(items) ==
    [p \in Product |-> IF p \in Wanted(items)
        THEN [products[p] EXCEPT !.inventory = @ - items[p].quantity]
        ELSE products[p]]

\* Mutant: the next inventory is not computed.
appendDecrements_Unchanged(items, rows) ==
    [p \in Product |-> IF p \in Wanted(items)
        THEN Append(inventoryAudits[p],
                [event |-> "decremented", previous |-> rows[p].inventory,
                 next |-> rows[p].inventory])
        ELSE inventoryAudits[p]]

\* The audit records what the locked rows said.
appendDecrements(items, rows) ==
    [p \in Product |-> IF p \in Wanted(items)
        THEN Append(inventoryAudits[p],
                [event |-> "decremented", previous |-> rows[p].inventory,
                 next |-> rows[p].inventory - items[p].quantity])
        ELSE inventoryAudits[p]]

Notify(inboxes, users, n) ==
    [u \in User |-> IF u \in users THEN Append(inboxes[u], n) ELSE inboxes[u]]

Sellers(items) == {Owner[p] : p \in Wanted(items)}

\* clear deletes every line the cart has now, read by this checkout or not.
clear(b) == [cartItems EXCEPT ![b] = EmptyCart]

PlaceOrder(c) ==
    LET b == tx[c].buyer
        items == tx[c].items
        n == Len(orders) + 1
    IN  /\ RowsLocked(c)
        /\ Sellable(items, tx[c].rows)
        /\ QuoteAccepted(c)
        /\ \A p \in Wanted(items) :     \* or the decrement updates no row
              /\ products[p].status = "active"
              /\ products[p].inventory >= items[p].quantity
        /\ orders' = Append(orders, createPlaced(c))
        /\ products' = decrementAvailableInventory(items)
        /\ inventoryAudits' = appendDecrements(items, tx[c].rows)
        /\ cartItems' = clear(b)
        /\ notifications' =
              Notify(Notify(notifications, {b}, n), Sellers(items), n)
        /\ ReleaseLocks(c)
        /\ Finish(c, "placed")
        /\ UNCHANGED <<addresses, quotes, writes>>

-----------------------------------------------------------------------------
(* Cart and address requests: autocommit statements *)

\* findActiveById, without a lock.
ReadProductForCart(c, b, p, q) ==
    /\ writes < MaxWrites
    /\ products[p].status = "active"
    /\ products[p].price # NoPrice
    /\ products[p].inventory >= q
    /\ Start(c, [Idle("none") EXCEPT !.pc = "upsertItem", !.buyer = b,
                                     !.product = p, !.quantity = q])
    /\ UNCHANGED <<shop, locks, quotes, writes>>

\* A new line takes FOR KEY SHARE locks on its cart and its product, which wait
\* for a checkout's FOR UPDATE; changing the quantity of a line does not wait.
setItem(c) ==
    LET b == tx[c].buyer
        p == tx[c].product
    IN  /\ tx[c].pc = "upsertItem"
        /\ writes < MaxWrites
        /\ \/ cartItems[b][p].quantity > 0
           \/ cartLock[b] = None /\ productLock[p] = None
        /\ cartItems' = [cartItems EXCEPT ![b][p] =
              [quantity |-> tx[c].quantity, stamp |-> writes + 1]]
        /\ writes' = writes + 1
        /\ Finish(c, "none")
        /\ UNCHANGED <<products, addresses, orders, inventoryAudits,
                       notifications, locks, quotes>>

removeItem(b, p) ==
    /\ writes < MaxWrites
    /\ cartItems[b][p].quantity > 0
    /\ cartItems' = [cartItems EXCEPT ![b][p] = NoItem]
    /\ writes' = writes + 1
    /\ UNCHANGED <<products, addresses, orders, inventoryAudits,
                   notifications, locks, quotes, tx>>

\* The buyer edits the selected address, or deletes it.
ChangeAddress(b) ==
    /\ writes < MaxWrites
    /\ addresses[b] # 0
    /\ \E version \in {0, writes + 1} :
          addresses' = [addresses EXCEPT ![b] = version]
    /\ writes' = writes + 1
    /\ UNCHANGED <<products, cartItems, orders, inventoryAudits,
                   notifications, locks, quotes, tx>>

-----------------------------------------------------------------------------
(* Seller requests on a product *)

\* ownedProduct: findById without a lock, for a status or inventory update.
ReadOwnProduct(c, p, pc) ==
    /\ writes < MaxWrites
    /\ pc \in {"setInventory", "setStatus"}
    /\ Start(c, [Idle("none") EXCEPT !.pc = pc, !.product = p,
                                     !.rows = [@ EXCEPT ![p] = products[p]]])
    /\ UNCHANGED <<shop, locks, quotes, writes>>

\* updateProductInventory: nothing to do when the row it read has the
\* requested inventory.
KeepInventory(c) ==
    /\ tx[c].pc = "setInventory"
    /\ tx[c].rows[tx[c].product].inventory \in Stock
    /\ Finish(c, "none")
    /\ UNCHANGED <<shop, locks, quotes, writes>>

StatusForInventory(status, inventory) ==
    IF inventory = 0 /\ status = "active" THEN "sold_out"
    ELSE IF inventory > 0 /\ status = "sold_out" THEN "active"
    ELSE status

\* updateOwned writes the requested inventory over whatever the row holds by
\* then, and the status only if the row that was read called for a change.
updateProductInventory(c, inventory) ==
    LET p == tx[c].product
        seen == tx[c].rows[p]
        status == StatusForInventory(seen.status, inventory)
    IN  /\ tx[c].pc = "setInventory"
        /\ writes < MaxWrites
        /\ productLock[p] = None
        /\ inventory # seen.inventory
        /\ products' = [products EXCEPT
              ![p].inventory = inventory,
              ![p].status = IF status = seen.status THEN @ ELSE status]
        /\ inventoryAudits' = [inventoryAudits EXCEPT ![p] = Append(@,
              [event |-> "set", previous |-> seen.inventory,
               next |-> inventory])]
        /\ writes' = writes + 1
        /\ Finish(c, "none")
        /\ UNCHANGED <<cartItems, addresses, orders, notifications, locks,
                       quotes>>

allowed ==
    [draft |-> {"active", "archived"}, active |-> {"paused", "archived"},
     paused |-> {"active", "archived"}, sold_out |-> {"active", "archived"},
     archived |-> {"active"}]

updateProductStatus(c, status) ==
    LET p == tx[c].product
        seen == tx[c].rows[p]
    IN  /\ tx[c].pc = "setStatus"
        /\ writes < MaxWrites
        /\ productLock[p] = None
        /\ status # "sold_out"
        /\ status = "active" => seen.inventory >= 1 /\ seen.price # NoPrice
        /\ status = seen.status \/ status \in allowed[seen.status]
        /\ products' = [products EXCEPT ![p].status = status]
        /\ writes' = writes + 1
        /\ Finish(c, "none")
        /\ UNCHANGED <<cartItems, addresses, orders, inventoryAudits,
                       notifications, locks, quotes>>

\* updateProduct locks the row, so its read and its write are one step.
updateProduct(p, price) ==
    /\ writes < MaxWrites
    /\ productLock[p] = None
    /\ price # products[p].price
    /\ products' = [products EXCEPT ![p].price = price]
    /\ writes' = writes + 1
    /\ UNCHANGED <<cartItems, addresses, orders, inventoryAudits,
                   notifications, locks, quotes, tx>>

-----------------------------------------------------------------------------

CheckoutStep(c) ==
    \/ ReplayOrder(c)
    \/ RejectEmptyCart(c)
    \/ findForCheckout(c)
    \/ \E p \in Product : findByIdsForUpdate(c, p)
    \/ RejectUnavailable(c)
    \/ RejectChangedQuote(c)
    \/ PlaceOrder(c)

ShopperNext ==
    \/ \E c \in Conn, b \in Buyer :
          \/ \E option \in Option : ReadCartForQuote(c, b, option)
          \/ \E k \in Key : BeginCheckout(c, b, k)
          \/ \E p \in Product, q \in Quantity : ReadProductForCart(c, b, p, q)
    \/ \E b \in Buyer, p \in Product : removeItem(b, p)
    \/ \E b \in Buyer : ChangeAddress(b)
    \/ \E c \in Conn : ReceiveQuote(c) \/ setItem(c)

SellerNext ==
    \/ \E c \in Conn, p \in Product, pc \in {"setInventory", "setStatus"} :
          ReadOwnProduct(c, p, pc)
    \/ \E c \in Conn : KeepInventory(c)
    \/ \E c \in Conn, inventory \in Stock : updateProductInventory(c, inventory)
    \/ \E c \in Conn, status \in Status : updateProductStatus(c, status)
    \/ \E p \in Product, price \in Price : updateProduct(p, price)

Next ==
    \/ \E c \in Conn : CheckoutStep(c)
    \/ \E c \in Conn : Abort(c)
    \/ ShopperNext
    \/ SellerNext

Spec == Init /\ [][Next]_vars

-----------------------------------------------------------------------------
(* Properties *)

\* Types of the database rows, the locks and the requests in progress.
TypeOK ==
    /\ products \in [Product -> ProductRow]
    /\ cartItems \in [Buyer -> [Product -> CartLine]]
    /\ addresses \in [Buyer -> Nat]
    /\ orders \in Seq(Order)
    /\ inventoryAudits \in [Product -> Seq(AuditEvent)]
    /\ notifications \in [User -> Seq(Nat)]
    /\ cartLock \in [Buyer -> Conn \cup {None}]
    /\ productLock \in [Product -> Conn \cup {None}]
    /\ quotes \in [Buyer -> Quote]
    /\ tx \in [Conn -> Tx]
    /\ writes \in Nat

\* A row that a checkout has locked still says what the checkout read from it:
\* the prices, totals and audit entries computed from the locked rows are
\* those of the commit (checkoutService.ts lines 44-93 and 213-235).
LockedRowsCurrent ==
    \A c \in Conn, p \in Product :
        productLock[p] = c =>
            /\ tx[c].pc = "lockProducts"
            /\ p \in Wanted(tx[c].items)
            /\ tx[c].rows[p] = products[p]

\* What a request at "lockProducts" may rely on: it alone holds its buyer's
\* cart row, nobody else has ordered with its key, and it took its product rows
\* in id order.
LockDiscipline ==
    /\ \A c \in Conn : tx[c].pc = "lockProducts" =>
          /\ cartLock[tx[c].buyer] = c
          /\ OrdersWith(tx[c].buyer, tx[c].key) = {}
    /\ \A b \in Buyer : cartLock[b] # None =>
          /\ tx[cartLock[b]].pc = "lockProducts"
          /\ tx[cartLock[b]].buyer = b
    /\ \A c \in Conn : \A p \in Product : \A q \in Wanted(tx[c].items) :
          productLock[p] = c /\ q < p => productLock[q] = c

\* However often and on however many connections a key is sent, the buyer gets
\* one order for it (idempotency.md, "Keyed replay boundaries").
OneOrderPerKey ==
    \A m, n \in DOMAIN orders :
        orders[m].buyer = orders[n].buyer /\ orders[m].key = orders[n].key
            => m = n

\* What a buyer put in the cart once is ordered at most once, whatever keys the
\* competing checkouts of the same cart carry.
SameLine(m, n, p) ==
    /\ orders[m].buyer = orders[n].buyer
    /\ p \in Wanted(orders[m].items)
    /\ p \in Wanted(orders[n].items)
    /\ orders[m].items[p].stamp = orders[n].items[p].stamp
LineOrderedOnce ==
    \A m, n \in DOMAIN orders : \A p \in Product : SameLine(m, n, p) => m = n

\* The stamp of a line is spent by the order that takes it: neither the buyer's
\* cart nor a checkout in progress still carries it.
StampsSpent ==
    /\ \A b \in Buyer, p \in Product : cartItems[b][p].stamp <= writes
    /\ \A c \in Conn, p \in Product :
          tx[c].pc = "lockProducts" => tx[c].items[p].stamp <= writes
    /\ \A n \in DOMAIN orders : \A p \in Wanted(orders[n].items) :
          LET b == orders[n].buyer
              stamp == orders[n].items[p].stamp
          IN  /\ stamp <= writes
              /\ p \in Wanted(cartItems[b]) => cartItems[b][p].stamp # stamp
              /\ \A c \in Conn :
                    tx[c].pc = "lockProducts" /\ tx[c].buyer = b
                      /\ p \in Wanted(tx[c].items)
                    => tx[c].items[p].stamp # stamp

\* The books balance: the last audit entry of a product says what is in stock,
\* and its audited decrements are the lines of committed orders, one entry for
\* each line and of its quantity, so that their sums agree too.
Decrements(p) ==
    {i \in DOMAIN inventoryAudits[p] :
        inventoryAudits[p][i].event = "decremented"}
OrdersOf(p) == {n \in DOMAIN orders : p \in Wanted(orders[n].items)}
Accounts(p, n, i) ==
    inventoryAudits[p][i].previous - inventoryAudits[p][i].next
        = orders[n].items[p].quantity
SalesAudited(p) ==
    \E entry \in Bijection(OrdersOf(p), Decrements(p)) :
        \A n \in OrdersOf(p) : Accounts(p, n, entry[n])
StockAudited ==
    \A p \in Product :
        LET log == inventoryAudits[p]
        IN  log # <<>> => log[Len(log)].next = products[p].inventory
BooksBalance ==
    /\ StockAudited
    /\ \A p \in Product : SalesAudited(p)

\* A checkout's audit entry starts from the stock its predecessor in the log
\* left, whoever wrote that: decrements are never computed from a stale row.
DecrementsChain ==
    \A p \in Product : \A i \in Decrements(p) \ {1} :
        inventoryAudits[p][i].previous = inventoryAudits[p][i - 1].next

\* Each order is announced once to its buyer and once to each distinct seller,
\* and to nobody else, replays included.
AnnouncedOnce ==
    \A n \in DOMAIN orders, u \in User :
        Cardinality({i \in DOMAIN notifications[u] : notifications[u][i] = n})
          = (IF u = orders[n].buyer THEN 1 ELSE 0)
            + (IF u \in Sellers(orders[n].items) THEN 1 ELSE 0)

\* An order's amounts are exact and fit their columns: each line is its quantity
\* times its stored unit price, the subtotal of the accepted quote is the sum of
\* the lines, its total adds the chosen delivery, and none of them exceeds the
\* maximum although each is computed by checks along the way
\* (orders_monetary_amounts_check and order_items_monetary_shape_check of
\* schema.ts). The cart page shows the same subtotal for these lines in whatever
\* order it lists them.
LineSubtotals(order) ==
    [p \in Wanted(order.items) |->
        order.items[p].quantity * order.unitPrice[p]]
OrderExact(order) ==
    LET lines == LineSubtotals(order)
        total == SumFunction(lines) + Shipping[order.quote.option]
    IN  /\ Range(lines) \subseteq Amount
        /\ subtotalMinor(order.quote) = SumFunction(lines)
        /\ totalMinor(order.quote) = total
        /\ total \in Amount
        /\ \A page \in SetToSeqs(Wanted(order.items)) :
              getCartQuote(order.items, order.unitPrice, page)
                  = SumFunction(lines)
AmountsExact == \A n \in DOMAIN orders : OrderExact(orders[n])

\* A retry of a key whose order is committed is answered with that order, also
\* when the cart has been cleared, refilled or become unavailable meanwhile.
RetryAnswered ==
    [][\A c \in Conn :
          tx[c].pc = "lockCart" /\ OrdersWith(tx[c].buyer, tx[c].key) # {}
            => tx'[c] = tx[c] \/ tx'[c].reply \in {"replayed", "lost"}]_vars

\* Waiting requests are ordered: whoever holds the row a request waits for is
\* further along, so no cycle of requests waits for itself (the deterministic
\* product order of postgresql-schema-design.md, "Checkout").
WaitsForProduct(c, p) ==
    \/ /\ tx[c].pc = "lockProducts"
       /\ p \in Wanted(tx[c].items)
       /\ productLock[p] # c
       /\ \A q \in Wanted(tx[c].items) : q < p => productLock[q] = c
    \/ tx[c].pc \in {"setInventory", "setStatus", "upsertItem"}
       /\ p = tx[c].product
Holds(c) == {p \in Product : productLock[p] = c}
NoLockCycle ==
    \A c, d \in Conn : \A p \in Product :
        WaitsForProduct(c, p) /\ productLock[p] = d =>
            /\ c # d
            /\ \A q \in Product : WaitsForProduct(d, q) => p < q
            /\ \A q \in Holds(c) : q < p
            /\ tx[d].pc # "lockCart"

\* Every step of the checkout is a step of the order book, or none: orders are
\* placed atomically although the code places them lock by lock.
Book == INSTANCE OrderBook WITH Product <- Product, products <- products,
                                orders <- orders
ImplementsOrderBook == Book!Spec

\* A request to place an order is answered: no lock is waited for for ever.
\* Lock waiters of PostgreSQL queue up, hence strong fairness of a checkout
\* whose steps become possible again and again.
FairSpec == Spec /\ \A c \in Conn : SF_vars(CheckoutStep(c))
CheckoutAnswered ==
    \A c \in Conn :
        tx[c].pc \in {"lockCart", "lockProducts"} ~> tx[c].pc = "idle"

\* The inductive invariant behind the safety properties above: what a request
\* carries at each pc, what its locks guarantee, and which lines are spent.
RequestOK(c) ==
    /\ tx[c].pc \in {"quote", "lockCart", "lockProducts", "upsertItem"}
          => tx[c].buyer \in Buyer
    /\ tx[c].pc \in {"lockCart", "lockProducts"} => tx[c].key \in Key
    /\ tx[c].pc \in {"upsertItem", "setInventory", "setStatus"}
          => tx[c].product \in Product
    /\ tx[c].pc = "lockProducts" => Wanted(tx[c].items) # {}
QuotedOptions ==
    /\ \A b \in Buyer : quotes[b] = NoQuote \/ quotes[b].option \in Option
    /\ \A c \in Conn : tx[c].pc \in {"quote", "lockCart", "lockProducts"}
          => tx[c].quote.option \in Option
CheckoutInv ==
    /\ TypeOK
    /\ \A c \in Conn : RequestOK(c)
    /\ QuotedOptions
    /\ LockDiscipline
    /\ LockedRowsCurrent
    /\ OneOrderPerKey
    /\ StampsSpent
    /\ LineOrderedOnce
    /\ StockAudited
    /\ DecrementsChain
==============================================================================
