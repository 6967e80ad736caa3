------------------------------ MODULE OrderBook ------------------------------
(***************************************************************************)
(* What the checkout promises, without carts, connections or locks: an      *)
(* order comes into being in one step, for a key its buyer has not used     *)
(* before, from products that can all be sold at that moment, at the prices *)
(* of that moment and as the buyer accepted them; the stock falls by exactly *)
(* what was ordered, and an order never changes afterwards.                 *)
(***************************************************************************)
EXTENDS Integers, Sequences

CONSTANTS Product

VARIABLES products, orders

vars == <<products, orders>>

Ordered(o) == {p \in Product : o.items[p].quantity > 0}

Init == orders = <<>>

\* Order o is placed.
Place(o) ==
    /\ Ordered(o) # {}
    /\ \A n \in DOMAIN orders :
          ~(orders[n].buyer = o.buyer /\ orders[n].key = o.key)
    /\ \A p \in Ordered(o) :
          /\ products[p].status = "active"
          /\ products[p].inventory >= o.items[p].quantity
          /\ products[p].price = o.unitPrice[p]
          /\ o.quote.lines[p].quantity = o.items[p].quantity
          /\ o.quote.lines[p].unitPrice = o.unitPrice[p]
    /\ orders' = Append(orders, o)
    /\ products' = [p \in Product |->
          IF p \in Ordered(o)
          THEN [products[p] EXCEPT !.inventory = @ - o.items[p].quantity]
          ELSE products[p]]

\* A seller changes one product: its inventory and status, or its price.
Manage(p) ==
    /\ \A q \in Product \ {p} : products'[q] = products[q]
    /\ \/ products'[p].price = products[p].price
       \/ /\ products'[p].status = products[p].status
          /\ products'[p].inventory = products[p].inventory
    /\ UNCHANGED orders

Next ==
    \/ \E n \in DOMAIN orders' : Place(orders'[n])
    \/ \E p \in Product : Manage(p)

Spec == Init /\ [][Next]_vars
=============================================================================
