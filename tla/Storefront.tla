--------------------------- MODULE Storefront ---------------------------
(***************************************************************************)
(* The cart and the checkout of one browser tab: the two caches of the     *)
(* buyer's cart (frontend/src/serverState), the pages that change them,    *)
(* and the key of the order being placed.  The library that keeps the      *)
(* caches (React Query) is modelled by what the hooks ask of it: a query   *)
(* has at most one fetch under way, a cancelled fetch is never delivered,  *)
(* and callbacks of a mutation run even when its page is gone.             *)
(*                                                                         *)
(* Of the server one buyer's cart and orders are kept.  Requests and       *)
(* answers travel in any order, and the tab may lose either one without    *)
(* knowing which.  Another tab changes the same cart.                      *)
(***************************************************************************)
EXTENDS Integers, FiniteSets

CONSTANTS
  Products,
  MaxQuantity,  \* the largest quantity of a line
  None,         \* nothing: a value of its own, like the next
  Refused,      \* an answer that is a refusal
  Options,      \* what can be selected at the checkout: address and delivery
  Tasks,        \* slots for mutations under way
  MaxTasks,     \* bound on the mutations of a behaviour
  MaxForeign    \* bound on the changes another tab makes

Pages == {"catalog", "cart", "checkout"}

(* A product that is not in a cart has no pieces there. *)
Carts == [Products -> 0..MaxQuantity]

NoLines == [p \in Products |-> 0]

Ids(lines) == {p \in Products : lines[p] > 0}

ASSUME StorefrontAssumption ==
  /\ MaxQuantity \in Nat \ {0}
  /\ MaxTasks \in Nat
  /\ MaxForeign \in Nat

(* What stands for nothing and for a refusal is nothing else. *)
ASSUME NothingAssumption ==
  /\ None \notin {Refused, "line", "toggle", "order"} \cup Tasks
  /\ \A products \in SUBSET Products : None # products
  /\ \A v \in {None, Refused} :
       v \notin Carts /\ v \notin [option : Options, intent : 1..MaxTasks]

VARIABLES
  cart,      \* the buyer's cart, on the server
  orders,    \* what the order placed with each key was for
  items,     \* the cached lines of the cart
  ids,       \* the cached identifiers of the products in the cart
  fetches,   \* the fetch under way for each cache: None, or what was read
  page,      \* the page shown
  awaited,   \* the mutation the page waits for: its buttons are disabled
  option,    \* the selection at the checkout
  quote,     \* the quote shown for the selection
  key,       \* the idempotency key the checkout page holds
  intent,    \* the buyer's intent to order: ghost, what the key stands for
  tasks,     \* the mutations under way
  calm,      \* nothing happened that may set a cache and the cart apart: ghost
  started,   \* mutations so far
  foreign    \* changes of the other tab so far

vars == <<cart, orders, items, ids, fetches, page, awaited, option, quote, key, intent,
          tasks, calm, started, foreign>>

caches == <<items, ids>>

checkout == <<option, quote, key, intent>>

(* waiting: the tab has not given the answer up.  back: what is restored.  *)
Idle == [kind |-> None, product |-> None, quantity |-> 0, key |-> 0, option |-> None,
         intent |-> 0, quote |-> NoLines, waiting |-> FALSE, answer |-> None,
         back |-> [items |-> None, ids |-> None]]

Init ==
  /\ cart \in Carts
  /\ orders = [k \in 1..MaxTasks |-> None]
  /\ items = None
  /\ ids = None
  /\ fetches = [c \in {"items", "ids"} |-> None]
  /\ page \in Pages
  /\ awaited = None
  /\ option \in Options
  /\ quote = None
  /\ key = 0
  /\ intent = 0
  /\ tasks = [m \in Tasks |-> Idle]
  /\ calm = TRUE
  /\ started = 0
  /\ foreign = 0

-----------------------------------------------------------------------------
(* Reading the cart. *)

Busy == \E m \in Tasks : tasks[m] # Idle

Fetching == \E c \in {"items", "ids"} : fetches[c] # None

(* A page is opened and nothing is cached, or for more than 30 seconds, or *)
(* the network is back.  Every page shows the header, with the count of    *)
(* the lines; the identifiers are only shown in the catalog.  The fetch    *)
(* begins here when the server reads the cart: that it was asked for       *)
(* earlier changes nothing, a change of the cart would have cancelled it.  *)
getCart(c) == IF c = "items" THEN cart ELSE Ids(cart)

FetchCart(c) ==
  /\ fetches[c] = None
  /\ c = "ids" => page = "catalog"
  /\ fetches' = [fetches EXCEPT ![c] = getCart(c)]
  /\ calm' = (calm /\ ~Busy)
  /\ UNCHANGED <<cart, orders, caches, page, awaited, checkout, tasks, started, foreign>>

(* A fetch that fails leaves what is cached. *)
FetchEnds(c) ==
  /\ fetches[c] # None
  /\ \/ UNCHANGED caches
     \/ c = "items" /\ items' = fetches[c] /\ UNCHANGED ids
     \/ c = "ids" /\ ids' = fetches[c] /\ UNCHANGED items
  /\ fetches' = [fetches EXCEPT ![c] = None]
  /\ UNCHANGED <<cart, orders, page, awaited, checkout, tasks, calm, started, foreign>>

-----------------------------------------------------------------------------
(* Changing the cart. *)

ShownItems == IF items = None THEN NoLines ELSE items

ShownIds == IF ids = None THEN {} ELSE ids

(* A page starts one mutation at a time, but leaving it forgets that. *)
Starts(m, task) ==
  /\ tasks[m] = Idle
  /\ awaited = None
  /\ started < MaxTasks
  /\ started' = started + 1
  /\ awaited' = m
  /\ tasks' = [tasks EXCEPT ![m] = task]

\* Mutant: the fetches under way are not cancelled before the optimistic change.
cancelQueries_Never == UNCHANGED fetches

cancelQueries == fetches' = [c \in {"items", "ids"} |-> None]

(* The caches before the optimistic change, for when it fails. *)
cartMutationContext == [items |-> items, ids |-> ids]

CartTask(kind, p, n) ==
  [Idle EXCEPT !.kind = kind, !.product = p, !.quantity = n, !.waiting = TRUE,
               !.back = cartMutationContext]

(* The cart page: another quantity, or none for removeItem. *)
updateQuantity(m) ==
  /\ page = "cart"
  /\ \E p \in Ids(ShownItems), n \in 0..MaxQuantity :
       /\ Starts(m, CartTask("line", p, n))
       /\ items' = [ShownItems EXCEPT ![p] = n]
       /\ ids' = IF n = 0 THEN ShownIds \ {p} ELSE ids
  /\ cancelQueries
  /\ calm' = (calm /\ ~Busy)
  /\ UNCHANGED <<cart, orders, page, checkout, foreign>>

(* The catalog: in the cart or not.  The lines are only changed at once    *)
(* when one goes; a new one is not known before the answer.                *)
toggle(m) ==
  /\ page = "catalog"
  /\ \E p \in Products :
       IF p \in ShownIds
       THEN /\ Starts(m, CartTask("toggle", p, 0))
            /\ ids' = ShownIds \ {p}
            /\ items' = [ShownItems EXCEPT ![p] = 0]
       ELSE /\ Starts(m, CartTask("toggle", p, 1))
            /\ ids' = ShownIds \cup {p}
            /\ UNCHANGED items
  /\ cancelQueries
  /\ calm' = (calm /\ ~Busy)
  /\ UNCHANGED <<cart, orders, page, checkout, foreign>>

(* What the request asked for is done with; and the tab may not wait.  *)
AnsweredWith(task, answer) ==
  IF task.waiting
  THEN [task EXCEPT !.answer = answer, !.product = None, !.quantity = 0, !.quote = NoLines]
  ELSE Idle

(* The server answers with the cart, or refuses a line the stock does not  *)
(* cover; a removal always succeeds.                                       *)
setCartItem(m) ==
  /\ tasks[m].kind \in {"line", "toggle"}
  /\ tasks[m].answer = None
  /\ \/ /\ cart' = [cart EXCEPT ![tasks[m].product] = tasks[m].quantity]
        /\ tasks' = [tasks EXCEPT ![m] = AnsweredWith(@, cart')]
     \/ /\ tasks[m].quantity > 0
        /\ tasks' = [tasks EXCEPT ![m] = AnsweredWith(@, Refused)]
        /\ UNCHANGED cart
  /\ UNCHANGED <<orders, caches, fetches, page, awaited, checkout, calm, started, foreign>>

synchronizeCart(lines) == items' = lines /\ ids' = Ids(lines)

restoreCartContext(m) == items' = tasks[m].back.items /\ ids' = tasks[m].back.ids

(* The page's buttons work again, if it is still the page that waited. *)
Released(m) == awaited' = IF awaited = m THEN None ELSE awaited

(* A toggle has the identifiers read again where they are shown. *)
CartChanged(m) ==
  /\ tasks[m].kind \in {"line", "toggle"}
  /\ tasks[m].answer \in Carts
  /\ synchronizeCart(tasks[m].answer)
  /\ fetches' = IF tasks[m].kind = "toggle" /\ page = "catalog"
                THEN [fetches EXCEPT !["ids"] = getCart("ids")] ELSE fetches
  /\ Released(m)
  /\ tasks' = [tasks EXCEPT ![m] = Idle]
  /\ UNCHANGED <<cart, orders, page, checkout, calm, started, foreign>>

(* A cache that was empty is removed, and its fetch with it. *)
CartNotChanged(m) ==
  /\ tasks[m].kind \in {"line", "toggle"}
  /\ tasks[m].waiting
  /\ restoreCartContext(m)
  /\ fetches' = [c \in {"items", "ids"} |->
       IF tasks[m].back[c] = None THEN None ELSE fetches[c]]
  /\ Released(m)
  /\ IF tasks[m].answer = Refused
     THEN tasks' = [tasks EXCEPT ![m] = Idle] /\ UNCHANGED calm
     ELSE /\ calm' = FALSE
          /\ tasks' = [tasks EXCEPT ![m] =
               IF tasks[m].answer = None THEN [@ EXCEPT !.waiting = FALSE, !.back = Idle.back] ELSE Idle]
  /\ UNCHANGED <<cart, orders, page, checkout, started, foreign>>

-----------------------------------------------------------------------------
(* Placing the order. *)

(* A quote is read when its selection is shown, and may be read again      *)
(* later; no change of the cart makes the page forget it.  An empty cart   *)
(* has none.                                                               *)
getCheckoutQuote ==
  /\ page = "checkout"
  /\ cart # NoLines
  /\ quote' = cart
  /\ UNCHANGED <<cart, orders, caches, fetches, page, awaited, option, key, intent, tasks,
                 calm, started, foreign>>

\* Mutant: a key is kept when the selection changes.
keyOfSelection_Kept == key

keyOfSelection == 0

Choose(o) ==
  /\ page = "checkout"
  /\ option # o
  /\ option' = o
  /\ quote' = None
  /\ key' = keyOfSelection
  /\ intent' = 0
  /\ UNCHANGED <<cart, orders, caches, fetches, page, awaited, tasks, calm, started,
                 foreign>>

(* The number of the mutation serves as the fresh key.  Unlike a change of *)
(* the cart, an order cancels no fetch.                                    *)
placeOrder(m) ==
  /\ page = "checkout"
  /\ Ids(ShownItems) # {}
  /\ quote # None
  /\ key' = IF key = 0 THEN started + 1 ELSE key
  /\ intent' = IF intent = 0 THEN started + 1 ELSE intent
  /\ Starts(m, [Idle EXCEPT !.kind = "order", !.key = key', !.option = option,
                            !.intent = intent', !.quote = quote, !.waiting = TRUE])
  /\ calm' = (calm /\ ~Busy /\ ~Fetching)
  /\ UNCHANGED <<cart, orders, caches, fetches, page, option, quote, foreign>>

(* A key that placed an order gets that order again; otherwise the cart    *)
(* must be as quoted, and the stock may still refuse it.                   *)
createOrder(m) ==
  LET t == tasks[m]
      answered(a) == tasks' = [tasks EXCEPT ![m] = AnsweredWith(@, a)]
  IN /\ t.kind = "order"
     /\ t.answer = None
     /\ \/ /\ orders[t.key] # None
           /\ answered(orders[t.key])
           /\ UNCHANGED <<cart, orders>>
        \/ /\ orders[t.key] = None
           /\ cart # NoLines
           /\ cart = t.quote
           /\ orders' = [orders EXCEPT ![t.key] =
                [option |-> t.option, intent |-> t.intent]]
           /\ cart' = NoLines
           /\ answered(orders'[t.key])
        \/ /\ orders[t.key] = None
           /\ answered(Refused)
           /\ UNCHANGED <<cart, orders>>
     /\ UNCHANGED <<caches, fetches, page, awaited, checkout, calm, started, foreign>>

(* Both caches are emptied, and read again where they are not shown.  The  *)
(* key is dropped, if the page is still there.                             *)
OrderPlaced(m) ==
  /\ tasks[m].kind = "order"
  /\ tasks[m].answer \notin {None, Refused}
  /\ items' = NoLines
  /\ ids' = {}
  /\ fetches' = IF page = "catalog" THEN fetches
              ELSE [fetches EXCEPT !["ids"] = getCart("ids")]
  /\ IF awaited = m THEN key' = 0 /\ intent' = 0 ELSE UNCHANGED <<key, intent>>
  /\ Released(m)
  /\ tasks' = [tasks EXCEPT ![m] = Idle]
  /\ UNCHANGED <<cart, orders, page, option, quote, calm, started, foreign>>

\* Mutant: a failure drops the key as well.
keyAfterFailure_Fresh == 0

keyAfterFailure == key

(* The key is kept for the next try, and the quote is read again, which    *)
(* may fail too.                                                           *)
OrderFailed(m) ==
  /\ tasks[m].kind = "order"
  /\ tasks[m].waiting
  /\ IF awaited = m
     THEN /\ key' = keyAfterFailure
          /\ quote' \in {quote} \cup ({cart} \ {NoLines})
     ELSE UNCHANGED <<key, quote>>
  /\ Released(m)
  /\ IF tasks[m].answer = Refused
     THEN tasks' = [tasks EXCEPT ![m] = Idle] /\ UNCHANGED calm
     ELSE /\ calm' = FALSE
          /\ tasks' = [tasks EXCEPT ![m] =
               IF tasks[m].answer = None THEN [@ EXCEPT !.waiting = FALSE, !.back = Idle.back] ELSE Idle]
  /\ UNCHANGED <<cart, orders, caches, fetches, page, option, intent, started, foreign>>

-----------------------------------------------------------------------------
(* What a page keeps for itself is gone with it. *)
Visit(p) ==
  /\ page # p
  /\ page' = p
  /\ awaited' = None
  /\ key' = 0
  /\ intent' = 0
  /\ UNCHANGED <<cart, orders, caches, fetches, option, quote, tasks, calm, started, foreign>>

(* The tab is loaded anew once its requests are over. *)
Reload ==
  /\ ~Busy
  /\ items' = None
  /\ ids' = None
  /\ fetches' = [c \in {"items", "ids"} |-> None]
  /\ quote' = None
  /\ awaited' = None
  /\ key' = 0
  /\ intent' = 0
  /\ calm' = TRUE
  /\ UNCHANGED <<cart, orders, page, option, tasks, started, foreign>>

OtherTab ==
  /\ foreign < MaxForeign
  /\ cart' \in Carts \ {cart}
  /\ foreign' = foreign + 1
  /\ calm' = FALSE
  /\ UNCHANGED <<orders, caches, fetches, page, awaited, checkout, tasks, started>>

(* A request the tab gave up may also never reach the server. *)
RequestLost(m) ==
  /\ tasks[m].kind # None
  /\ ~tasks[m].waiting
  /\ tasks' = [tasks EXCEPT ![m] = Idle]
  /\ UNCHANGED <<cart, orders, caches, fetches, page, awaited, checkout, calm, started, foreign>>

Next ==
  \/ \E c \in {"items", "ids"} : FetchCart(c) \/ FetchEnds(c)
  \/ \E m \in Tasks :
       \/ updateQuantity(m) \/ toggle(m) \/ setCartItem(m) \/ CartChanged(m)
       \/ CartNotChanged(m) \/ placeOrder(m) \/ createOrder(m) \/ OrderPlaced(m)
       \/ OrderFailed(m) \/ RequestLost(m)
  \/ getCheckoutQuote
  \/ \E o \in Options : Choose(o)
  \/ \E p \in Pages : Visit(p)
  \/ Reload
  \/ OtherTab

Spec == Init /\ [][Next]_vars

-----------------------------------------------------------------------------
(* Properties *)

(* Every variable has the shape its comment gives, and a page only waits   *)
(* for a mutation whose answer is still to come.                           *)
TypeOK ==
  /\ cart \in Carts
  /\ orders \in [1..MaxTasks -> [option : Options, intent : 1..MaxTasks] \cup {None}]
  /\ items \in Carts \cup {None}
  /\ ids \in (SUBSET Products) \cup {None}
  /\ fetches.items \in Carts \cup {None}
  /\ fetches.ids \in (SUBSET Products) \cup {None}
  /\ page \in Pages
  /\ awaited # None => awaited \in Tasks /\ tasks[awaited].waiting
  /\ option \in Options
  /\ quote \in Carts \cup {None}
  /\ key \in 0..started /\ intent \in 0..started
  /\ \A m \in Tasks :
       /\ tasks[m].kind \in {None, "line", "toggle", "order"}
       /\ tasks[m].answer # None => tasks[m].waiting
  /\ calm \in BOOLEAN
  /\ started \in 0..MaxTasks
  /\ foreign \in 0..MaxForeign

(* Once nothing is under way, both caches show the cart as the server has  *)
(* it, after any sequence of optimistic changes, refusals, orders and      *)
(* fetches; unless since the tab was loaded two mutations overlapped, a    *)
(* fetch was begun during a mutation or an order during a fetch, an answer *)
(* was lost, or another tab wrote.                                         *)
CachesReconciled ==
  calm /\ ~Busy /\ ~Fetching
    => /\ items \in {None, cart}
       /\ ids \in {None, Ids(cart)}

(* The types, with caches that agree with the server once all is quiet.    *)
StorefrontInv == TypeOK /\ CachesReconciled

(* However often the buyer retries at the checkout without changing the    *)
(* selection, whichever requests and answers were lost or are late, and    *)
(* whatever another tab puts into the cart meanwhile: one order is placed. *)
OneOrderPerIntent ==
  \A j, k \in 1..MaxTasks :
    orders[j] # None /\ orders[k] # None /\ j # k => orders[j].intent # orders[k].intent

(* An order that is confirmed to the buyer is for the selection the buyer  *)
(* confirmed, also when the answer is an earlier order replayed.           *)
ConfirmedAsSelected ==
  \A m \in Tasks :
    tasks[m].kind = "order" /\ tasks[m].answer \notin {None, Refused}
      => tasks[m].answer.option = tasks[m].option

=============================================================================
