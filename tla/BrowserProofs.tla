---------------------------- MODULE BrowserProofs ----------------------------
(***************************************************************************)
(* Theorems about what a browser sees, for every value of the constants: the *)
(* shop in its tabs (Storefront) and the requests its pages send through the *)
(* middleware of the service (Api).  The two share neither constants nor     *)
(* variables.                                                                *)
(*                                                                         *)
(* Storefront: one order is placed per intent, an order is confirmed for     *)
(* the selection it was placed with, and the caches agree with the server    *)
(* once all is quiet.  The argument: a key belongs to one intent, from the   *)
(* page to the orders; what a request with that key carries is what the      *)
(* page selects as long as it holds the key; and while nothing overlaps, the *)
(* one mutation under way knows what both caches have to become.             *)
(*                                                                         *)
(* Api: a handler acts in the tenant of its account and for the session of   *)
(* the page, callers stay within the limits, and cookies end with their      *)
(* session.  The argument: in every route the tenant comes second, the       *)
(* handler last, authentication third if at all, and no stage twice; so a    *)
(* request at a stage has what the stages before it established, nothing     *)
(* takes that away while the request is open, and what a limiter counted     *)
(* pays for the handlers that ran and the requests on their way to one.      *)
(* And every answer is announced: which stages a route has decides which     *)
(* codes its row of the document needs, and each row is shown to have them.  *)
(***************************************************************************)
EXTENDS Storefront, Api, FiniteSetTheorems, TLAPS


OrderRow == [option : Options, intent : 1..MaxTasks]

Task ==
  [kind : {None, "line", "toggle", "order"}, product : Products \cup {None},
   quantity : 0..MaxQuantity, key : 0..MaxTasks, option : Options \cup {None},
   intent : 0..MaxTasks, quote : Carts, waiting : BOOLEAN,
   answer : {None, Refused} \cup Carts \cup OrderRow,
   back : [items : Carts \cup {None}, ids : (SUBSET Products) \cup {None}]]

Cached == Carts \cup (SUBSET Products) \cup {None}

Types ==
  /\ TypeOK
  /\ tasks \in [Tasks -> Task]
  /\ fetches \in [{"items", "ids"} -> Cached]

(* A key stands for one intent: the number of the mutation that was its     *)
(* first use, on the page, in the requests and in the orders.               *)
KeysOK ==
  /\ intent = key
  /\ \A m \in Tasks : tasks[m].kind = "order" =>
       /\ tasks[m].key = tasks[m].intent
       /\ tasks[m].key \in 1..started
       /\ tasks[m].option \in Options
  /\ \A k \in 1..MaxTasks : orders[k] # None => k <= started /\ orders[k].intent = k

LEMMA NoLinesType == NoLines \in Carts /\ Ids(NoLines) = {}
  BY StorefrontAssumption DEF NoLines, Carts, Ids

LEMMA IdleType ==
  /\ Idle \in Task /\ Idle.kind = None /\ ~Idle.waiting /\ Idle.answer = None
  /\ Idle.back \in [items : Carts \cup {None}, ids : (SUBSET Products) \cup {None}]
  BY NoLinesType, StorefrontAssumption DEF Idle, Task

(* A task that gives up waiting. *)
GivenUp(task) == [task EXCEPT !.waiting = FALSE, !.back = Idle.back]

LEMMA GivenUpType ==
  ASSUME NEW task \in Task
  PROVE  LET t == GivenUp(task)
         IN /\ t \in Task /\ ~t.waiting /\ t.kind = task.kind
            /\ t.key = task.key /\ t.intent = task.intent /\ t.option = task.option
            /\ t.answer = task.answer
  BY IdleType DEF GivenUp, Task

LEMMA AnsweredType ==
  ASSUME NEW task \in Task, NEW answer \in {None, Refused} \cup Carts \cup OrderRow
  PROVE  LET t == AnsweredWith(task, answer)
         IN /\ t \in Task
            /\ ~task.waiting => t = Idle
            /\ task.waiting =>
                 /\ t.waiting /\ t.kind = task.kind /\ t.answer = answer
                 /\ t.key = task.key /\ t.intent = task.intent /\ t.option = task.option
                 /\ t.back = task.back
  <1>1. CASE task.waiting
    <2> DEFINE t == [task EXCEPT !.answer = answer, !.product = None, !.quantity = 0,
                                 !.quote = NoLines]
    <2>1. /\ t.waiting = task.waiting /\ t.kind = task.kind /\ t.answer = answer
          /\ t.key = task.key /\ t.intent = task.intent /\ t.option = task.option
          /\ t.back = task.back
      BY DEF Task
    <2>2. 0 \in 0..MaxQuantity
      BY StorefrontAssumption
    <2>3. t \in Task
      BY <2>2, NoLinesType DEF Task
    <2>4. AnsweredWith(task, answer) = t
      BY <1>1 DEF AnsweredWith
    <2> HIDE DEF t
    <2> QED
      BY <1>1, <2>1, <2>3, <2>4
  <1>2. CASE ~task.waiting
    BY <1>2, IdleType DEF AnsweredWith
  <1> QED
    BY <1>1, <1>2

LEMMA CartTaskType ==
  ASSUME Types, NEW kind \in {"line", "toggle"}, NEW p \in Products,
         NEW n \in 0..MaxQuantity
  PROVE  LET t == CartTask(kind, p, n)
         IN /\ t \in Task /\ t.waiting /\ t.kind = kind /\ t.answer = None
            /\ t.product = p /\ t.quantity = n
            /\ t.back.items = items /\ t.back.ids = ids
  <1>1. items \in Carts \cup {None} /\ ids \in (SUBSET Products) \cup {None}
    BY DEF Types, TypeOK
  <1>2. cartMutationContext \in [items : Carts \cup {None}, ids : (SUBSET Products) \cup {None}]
        /\ cartMutationContext.items = items /\ cartMutationContext.ids = ids
    BY <1>1 DEF cartMutationContext
  <1> QED
    BY <1>2, IdleType DEF CartTask, Idle, Task

LEMMA ReplacedTask ==
  ASSUME tasks \in [Tasks -> Task], NEW m \in Tasks, NEW t \in Task,
         tasks' = [tasks EXCEPT ![m] = t]
  PROVE  /\ tasks' \in [Tasks -> Task] /\ tasks'[m] = t
         /\ \A n \in Tasks \ {m} : tasks'[n] = tasks[n]
  OBVIOUS

-----------------------------------------------------------------------------
(* Types.  A step that replaces one task keeps the types if the task it    *)
(* puts there waits as the page expects; the rest is each step's own.      *)

LEMMA TaskTypes ==
  ASSUME Types, NEW m \in Tasks, NEW t \in Task, tasks' = [tasks EXCEPT ![m] = t],
         t.answer # None => t.waiting,
         \/ awaited' = awaited /\ (awaited = m => t.waiting)
         \/ Released(m)
         \/ awaited' = m /\ t.waiting
  PROVE  /\ tasks' \in [Tasks -> Task] /\ tasks'[m] = t
         /\ \A n \in Tasks \ {m} : tasks'[n] = tasks[n]
         /\ \A n \in Tasks :
              /\ tasks'[n].kind \in {None, "line", "toggle", "order"}
              /\ tasks'[n].answer # None => tasks'[n].waiting
         /\ awaited' # None => awaited' \in Tasks /\ tasks'[awaited'].waiting
  <1>1. /\ tasks \in [Tasks -> Task]
        /\ \A n \in Tasks : tasks[n].answer # None => tasks[n].waiting
        /\ awaited # None => awaited \in Tasks /\ tasks[awaited].waiting
    BY DEF Types, TypeOK
  <1>2. /\ tasks' \in [Tasks -> Task] /\ tasks'[m] = t
        /\ \A n \in Tasks \ {m} : tasks'[n] = tasks[n]
    BY <1>1, ReplacedTask
  <1>3. \A n \in Tasks : tasks'[n].kind \in {None, "line", "toggle", "order"}
    BY <1>2 DEF Task
  <1>4. \A n \in Tasks : tasks'[n].answer # None => tasks'[n].waiting
    BY <1>1, <1>2
  <1>5. awaited' # None => awaited' \in Tasks /\ tasks'[awaited'].waiting
    <2>1. awaited' = m => t.waiting
      BY NothingAssumption DEF Released
    <2>2. awaited' \in {awaited, m, None}
      BY DEF Released
    <2> QED
      BY <1>1, <1>2, <2>1, <2>2
  <1> QED
    BY <1>2, <1>3, <1>4, <1>5

(* What a change of the cart starts with. *)
LineStarted(m) ==
  /\ tasks[m] = Idle
  /\ awaited = None
  /\ awaited' = m
  /\ page # "checkout"
  /\ \E t \in Task :
       /\ tasks' = [tasks EXCEPT ![m] = t]
       /\ t.kind \in {"line", "toggle"} /\ t.waiting /\ t.answer = None
       /\ t.back.items = items /\ t.back.ids = ids
  /\ fetches' = [c \in {"items", "ids"} |-> None]
  /\ calm' = (calm /\ ~Busy)
  /\ started' = started + 1 /\ started < MaxTasks
  /\ UNCHANGED <<cart, orders, page, checkout, foreign>>

LEMMA StartLine ==
  ASSUME Types, NEW m \in Tasks, updateQuantity(m) \/ toggle(m)
  PROVE  /\ LineStarted(m)
         /\ items' \in Carts \cup {None} /\ ids' \in (SUBSET Products) \cup {None}
  <1>1. ASSUME NEW kind \in {"line", "toggle"}, NEW p \in Products,
               NEW n \in 0..MaxQuantity, Starts(m, CartTask(kind, p, n)),
               cancelQueries, calm' = (calm /\ ~Busy), page # "checkout",
               UNCHANGED <<cart, orders, page, checkout, foreign>>
        PROVE  LineStarted(m)
    <2>1. PICK t : t = CartTask(kind, p, n)
      OBVIOUS
    <2>2. /\ t \in Task /\ t.waiting /\ t.kind = kind /\ t.answer = None
          /\ t.back.items = items /\ t.back.ids = ids
      BY <2>1, CartTaskType
    <2>3. tasks' = [tasks EXCEPT ![m] = t] /\ tasks[m] = Idle /\ awaited' = m
          /\ awaited = None /\ started' = started + 1 /\ started < MaxTasks
      BY <1>1, <2>1 DEF Starts
    <2> QED
      BY <1>1, <2>2, <2>3 DEF LineStarted, cancelQueries
  <1>2. /\ ShownItems \in Carts /\ ShownIds \in SUBSET Products
        /\ items \in Carts \cup {None} /\ ids \in (SUBSET Products) \cup {None}
    BY NoLinesType DEF Types, TypeOK, ShownItems, ShownIds
  <1>3. 0 \in 0..MaxQuantity /\ 1 \in 0..MaxQuantity
    BY StorefrontAssumption
  <1>4. CASE updateQuantity(m)
    <2>1. PICK p \in Ids(ShownItems), n \in 0..MaxQuantity :
             /\ Starts(m, CartTask("line", p, n))
             /\ items' = [ShownItems EXCEPT ![p] = n]
             /\ ids' = IF n = 0 THEN ShownIds \ {p} ELSE ids
      BY <1>4 DEF updateQuantity
    <2>2. p \in Products
      BY DEF Ids
    <2>3. LineStarted(m)
      BY <1>1, <1>4, <2>1, <2>2 DEF updateQuantity
    <2>4. items' \in Carts
      BY <1>2, <2>1 DEF Carts
    <2> QED
      BY <1>2, <2>1, <2>3, <2>4
  <1>5. CASE toggle(m)
    <2>1. PICK p \in Products :
             IF p \in ShownIds
             THEN /\ Starts(m, CartTask("toggle", p, 0))
                  /\ ids' = ShownIds \ {p}
                  /\ items' = [ShownItems EXCEPT ![p] = 0]
             ELSE /\ Starts(m, CartTask("toggle", p, 1))
                  /\ ids' = ShownIds \cup {p}
                  /\ UNCHANGED items
      BY <1>5 DEF toggle
    <2>2. LineStarted(m)
      <3>1. PICK n \in 0..MaxQuantity : Starts(m, CartTask("toggle", p, n))
        BY <1>3, <2>1
      <3> QED
        BY <1>1, <1>5, <3>1 DEF toggle
    <2>3. [ShownItems EXCEPT ![p] = 0] \in Carts
      BY <1>2, <1>3 DEF Carts
    <2> QED
      BY <1>2, <2>1, <2>2, <2>3
  <1> QED
    BY <1>4, <1>5

LEMMA StartLineTypes ==
  ASSUME Types, NEW m \in Tasks, updateQuantity(m) \/ toggle(m)
  PROVE  Types'
  <1>1. LineStarted(m) /\ items' \in Carts \cup {None}
        /\ ids' \in (SUBSET Products) \cup {None}
    BY StartLine
  <1>2. PICK t \in Task : tasks' = [tasks EXCEPT ![m] = t] /\ t.waiting
    BY <1>1 DEF LineStarted
  <1>3. /\ tasks' \in [Tasks -> Task]
        /\ \A n \in Tasks :
              /\ tasks'[n].kind \in {None, "line", "toggle", "order"}
              /\ tasks'[n].answer # None => tasks'[n].waiting
        /\ awaited' # None => awaited' \in Tasks /\ tasks'[awaited'].waiting
    BY <1>1, <1>2, TaskTypes DEF LineStarted
  <1>4. /\ fetches' \in [{"items", "ids"} -> Cached]
        /\ fetches'["items"] = None /\ fetches'["ids"] = None
    BY <1>1 DEF LineStarted, Cached
  <1>5. /\ started' \in 0..MaxTasks
        /\ key' \in 0..started' /\ intent' \in 0..started'
    BY <1>1, StorefrontAssumption DEF Types, TypeOK, LineStarted, checkout
  <1> QED
    BY <1>1, <1>3, <1>4, <1>5 DEF Types, TypeOK, LineStarted, checkout

(* The fetches are kept, or the identifiers are read again. *)
LEMMA FetchTypes ==
  ASSUME Types, NEW c \in {"items", "ids"}
  PROVE  /\ [fetches EXCEPT ![c] = getCart(c)] \in [{"items", "ids"} -> Cached]
         /\ [fetches EXCEPT ![c] = None] \in [{"items", "ids"} -> Cached]
         /\ c = "items" => getCart(c) = cart /\ cart \in Carts
         /\ c = "ids" => getCart(c) = Ids(cart) /\ Ids(cart) \in SUBSET Products
         /\ fetches.items \in Carts \cup {None}
         /\ fetches.ids \in (SUBSET Products) \cup {None}
         /\ fetches["items"] = fetches.items /\ fetches["ids"] = fetches.ids
  <1>1. cart \in Carts /\ Ids(cart) \in SUBSET Products
    BY DEF Types, TypeOK, Ids
  <1>2. getCart(c) \in Cached /\ None \in Cached
    BY <1>1 DEF getCart, Cached
  <1>3. fetches \in [{"items", "ids"} -> Cached]
    BY DEF Types
  <1>4. /\ c = "items" => getCart(c) = cart /\ cart \in Carts
        /\ c = "ids" => getCart(c) = Ids(cart) /\ Ids(cart) \in SUBSET Products
    BY <1>1 DEF getCart
  <1>5. /\ fetches.items \in Carts \cup {None}
        /\ fetches.ids \in (SUBSET Products) \cup {None}
        /\ fetches["items"] = fetches.items /\ fetches["ids"] = fetches.ids
    BY DEF Types, TypeOK
  <1> QED
    BY <1>2, <1>3, <1>4, <1>5

(* The step of a task that the server takes, or that ends it. *)
LEMMA AnswerTypes ==
  ASSUME Types, NEW m \in Tasks, NEW answer \in {None, Refused} \cup Carts \cup OrderRow,
         tasks' = [tasks EXCEPT ![m] = AnsweredWith(@, answer)], awaited' = awaited
  PROVE  /\ tasks' \in [Tasks -> Task]
         /\ \A n \in Tasks \ {m} : tasks'[n] = tasks[n]
         /\ ~tasks[m].waiting => tasks'[m] = Idle
         /\ tasks[m].waiting =>
              /\ tasks'[m].waiting /\ tasks'[m].kind = tasks[m].kind
              /\ tasks'[m].answer = answer /\ tasks'[m].key = tasks[m].key
              /\ tasks'[m].intent = tasks[m].intent /\ tasks'[m].option = tasks[m].option
              /\ tasks'[m].back = tasks[m].back
         /\ \A n \in Tasks :
              /\ tasks'[n].kind \in {None, "line", "toggle", "order"}
              /\ tasks'[n].answer # None => tasks'[n].waiting
         /\ awaited' # None => awaited' \in Tasks /\ tasks'[awaited'].waiting
  <1>1. PICK t : t = AnsweredWith(tasks[m], answer)
    OBVIOUS
  <1>2. /\ tasks \in [Tasks -> Task] /\ tasks[m] \in Task
        /\ awaited = m => tasks[m].waiting
    BY NothingAssumption DEF Types, TypeOK
  <1>3. /\ t \in Task
        /\ ~tasks[m].waiting => t = Idle
        /\ tasks[m].waiting =>
             /\ t.waiting /\ t.kind = tasks[m].kind /\ t.answer = answer
             /\ t.key = tasks[m].key /\ t.intent = tasks[m].intent
             /\ t.option = tasks[m].option /\ t.back = tasks[m].back
    BY <1>1, <1>2, AnsweredType
  <1>4. tasks' = [tasks EXCEPT ![m] = t]
    BY <1>1
  <1>5. /\ t.answer # None => t.waiting
        /\ awaited = m => t.waiting
    BY <1>2, <1>3, IdleType
  <1> QED
    BY <1>3, <1>4, <1>5, TaskTypes

LEMMA ServerTypes ==
  ASSUME Types, KeysOK, NEW m \in Tasks, setCartItem(m) \/ createOrder(m)
  PROVE  Types'
  <1>1. ASSUME NEW answer \in {None, Refused} \cup Carts \cup OrderRow,
               tasks' = [tasks EXCEPT ![m] = AnsweredWith(@, answer)],
               cart' \in Carts,
               orders' \in [1..MaxTasks -> [option : Options, intent : 1..MaxTasks] \cup {None}],
               UNCHANGED <<caches, fetches, page, awaited, checkout, calm, started, foreign>>
        PROVE  Types'
    <2>1. /\ tasks' \in [Tasks -> Task]
          /\ \A n \in Tasks :
                /\ tasks'[n].kind \in {None, "line", "toggle", "order"}
                /\ tasks'[n].answer # None => tasks'[n].waiting
          /\ awaited' # None => awaited' \in Tasks /\ tasks'[awaited'].waiting
      BY <1>1, AnswerTypes
    <2> QED
      BY <1>1, <2>1 DEF Types, TypeOK, caches, checkout
  <1>2. CASE setCartItem(m)
    <2>1. cart' \in Carts
      <3>1. tasks[m].product \in Products \cup {None} /\ tasks[m].quantity \in 0..MaxQuantity
            /\ cart \in Carts
        BY DEF Types, TypeOK, Task
      <3> QED
        BY <1>2, <3>1 DEF setCartItem, Carts
    <2>2. \E answer \in {Refused} \cup Carts :
             tasks' = [tasks EXCEPT ![m] = AnsweredWith(@, answer)]
      BY <1>2, <2>1 DEF setCartItem
    <2> QED
      BY <1>1, <1>2, <2>1, <2>2 DEF setCartItem, Types, TypeOK
  <1>3. CASE createOrder(m)
    <2>1. /\ cart \in Carts /\ started \in 0..MaxTasks /\ None # Refused
          /\ orders \in [1..MaxTasks -> [option : Options, intent : 1..MaxTasks] \cup {None}]
      BY NothingAssumption DEF Types, TypeOK
    <2>2. /\ tasks[m].key \in 1..MaxTasks /\ tasks[m].intent \in 1..MaxTasks
          /\ tasks[m].option \in Options
      BY <1>3, <2>1, StorefrontAssumption DEF createOrder, KeysOK
    <2>3. CASE orders' = orders /\ cart' = cart
      <3>1. \E answer \in {Refused, orders[tasks[m].key]} :
               tasks' = [tasks EXCEPT ![m] = AnsweredWith(@, answer)]
        BY <1>3, <2>3 DEF createOrder
      <3>2. orders[tasks[m].key] \in OrderRow \cup {None}
        BY <2>1, <2>2 DEF OrderRow
      <3> QED
        BY <1>1, <1>3, <2>1, <2>3, <3>1, <3>2 DEF createOrder
    <2>4. CASE ~(orders' = orders /\ cart' = cart)
      <3>1. PICK row : row = [option |-> tasks[m].option, intent |-> tasks[m].intent]
        OBVIOUS
      <3>2. row \in OrderRow
        BY <2>2, <3>1 DEF OrderRow
      <3>3. /\ orders' = [orders EXCEPT ![tasks[m].key] = row] /\ cart' = NoLines
            /\ tasks' = [tasks EXCEPT ![m] = AnsweredWith(@, orders'[tasks[m].key])]
        BY <1>3, <2>4, <3>1 DEF createOrder
      <3>4. orders'[tasks[m].key] = row
            /\ orders' \in [1..MaxTasks -> [option : Options, intent : 1..MaxTasks]
                                             \cup {None}]
        BY <2>1, <2>2, <3>2, <3>3 DEF OrderRow
      <3> QED
        BY <1>1, <1>3, <3>2, <3>3, <3>4, NoLinesType DEF createOrder
    <2> QED
      BY <2>3, <2>4
  <1> QED
    BY <1>2, <1>3

LEMMA OutcomeTypes ==
  ASSUME Types, NEW m \in Tasks,
         CartChanged(m) \/ CartNotChanged(m) \/ OrderPlaced(m) \/ OrderFailed(m)
  PROVE  /\ Types'
         /\ \A n \in Tasks \ {m} : tasks'[n] = tasks[n]
         /\ \/ tasks'[m] = Idle
            \/ /\ tasks'[m].kind = tasks[m].kind /\ tasks'[m].key = tasks[m].key
               /\ tasks'[m].intent = tasks[m].intent
               /\ tasks'[m].option = tasks[m].option
               /\ tasks'[m].answer = tasks[m].answer
               /\ ~calm'
  <1>1. /\ tasks \in [Tasks -> Task] /\ tasks[m] \in Task /\ None # Refused
        /\ cart \in Carts /\ calm \in BOOLEAN
        /\ tasks[m].back.items \in Carts \cup {None}
        /\ tasks[m].back.ids \in (SUBSET Products) \cup {None}
    BY NothingAssumption DEF Types, TypeOK, Task
  <1>2. PICK t \in Task :
           /\ tasks' = [tasks EXCEPT ![m] = t]
           /\ t.answer # None => t.waiting
           /\ \/ t = Idle
              \/ /\ t.kind = tasks[m].kind /\ t.key = tasks[m].key
                 /\ t.intent = tasks[m].intent /\ t.option = tasks[m].option
                 /\ t.answer = tasks[m].answer /\ ~calm'
    <2>1. \/ tasks' = [tasks EXCEPT ![m] = Idle]
          \/ /\ tasks' = [tasks EXCEPT ![m] = GivenUp(@)]
             /\ tasks[m].answer = None /\ ~calm'
      BY <1>1 DEF CartChanged, CartNotChanged, OrderPlaced, OrderFailed, GivenUp
    <2>2. PICK given : given = GivenUp(tasks[m])
      OBVIOUS
    <2>3. /\ given \in Task /\ given.kind = tasks[m].kind /\ given.key = tasks[m].key
          /\ given.intent = tasks[m].intent /\ given.option = tasks[m].option
          /\ given.answer = tasks[m].answer
      BY <1>1, <2>2, GivenUpType
    <2> QED
      BY <1>1, <2>1, <2>2, <2>3, IdleType
  <1>3. Released(m)
    BY DEF CartChanged, CartNotChanged, OrderPlaced, OrderFailed
  <1>4. /\ tasks' \in [Tasks -> Task] /\ tasks'[m] = t
        /\ \A n \in Tasks \ {m} : tasks'[n] = tasks[n]
        /\ \A n \in Tasks :
              /\ tasks'[n].kind \in {None, "line", "toggle", "order"}
              /\ tasks'[n].answer # None => tasks'[n].waiting
        /\ awaited' # None => awaited' \in Tasks /\ tasks'[awaited'].waiting
    BY <1>2, <1>3, TaskTypes
  <1>5. /\ fetches' \in [{"items", "ids"} -> Cached]
        /\ fetches'.items \in Carts \cup {None}
        /\ fetches'.ids \in (SUBSET Products) \cup {None}
    <2>1. \/ fetches' = fetches
          \/ fetches' = [fetches EXCEPT !["ids"] = getCart("ids")]
          \/ fetches' = [c \in {"items", "ids"} |->
                           IF tasks[m].back[c] = None THEN None ELSE fetches[c]]
      BY DEF CartChanged, CartNotChanged, OrderPlaced, OrderFailed
    <2>2. CASE fetches' = fetches
      BY <2>2 DEF Types, TypeOK
    <2>3. CASE fetches' = [fetches EXCEPT !["ids"] = getCart("ids")]
      <3>1. fetches'["ids"] = getCart("ids") /\ fetches'["items"] = fetches["items"]
        BY <2>3 DEF Types
      <3> QED
        BY <2>3, <3>1, FetchTypes
    <2>4. CASE fetches' = [c \in {"items", "ids"} |->
                             IF tasks[m].back[c] = None THEN None ELSE fetches[c]]
      <3>1. /\ fetches'["items"] \in {None, fetches["items"]}
            /\ fetches'["ids"] \in {None, fetches["ids"]}
        BY <2>4
      <3>2. /\ fetches'["items"] \in Carts \cup {None}
            /\ fetches'["ids"] \in (SUBSET Products) \cup {None}
        BY <3>1, FetchTypes
      <3> QED
        BY <2>4, <3>2 DEF Cached
    <2> QED
      BY <2>1, <2>2, <2>3, <2>4
  <1>6. /\ items' \in Carts \cup {None} /\ ids' \in (SUBSET Products) \cup {None}
        /\ quote' \in Carts \cup {None} /\ calm' \in BOOLEAN
        /\ key' \in 0..started' /\ intent' \in 0..started'
    <2>1. /\ items \in Carts \cup {None} /\ ids \in (SUBSET Products) \cup {None}
          /\ quote \in Carts \cup {None} /\ started \in Nat
          /\ key \in 0..started /\ intent \in 0..started /\ 0 \in 0..started
      BY StorefrontAssumption DEF Types, TypeOK
    <2>2. CASE CartChanged(m)
      BY <1>1, <2>1, <2>2 DEF CartChanged, synchronizeCart, Ids, checkout
    <2>3. CASE CartNotChanged(m)
      BY <1>1, <2>1, <2>3 DEF CartNotChanged, restoreCartContext, checkout
    <2>4. CASE OrderPlaced(m)
      BY <1>1, <2>1, <2>4, NoLinesType DEF OrderPlaced
    <2>5. CASE OrderFailed(m)
      BY <1>1, <2>1, <2>5 DEF OrderFailed, caches, keyAfterFailure
    <2> QED
      BY <2>2, <2>3, <2>4, <2>5
  <1>7. UNCHANGED <<cart, orders, page, option, started, foreign>>
    BY DEF CartChanged, CartNotChanged, OrderPlaced, OrderFailed, checkout, caches
  <1>8. Types'
    BY <1>4, <1>5, <1>6, <1>7 DEF Types, TypeOK
  <1> QED
    BY <1>2, <1>4, <1>8

LEMMA PlaceTypes ==
  ASSUME Types, NEW m \in Tasks, placeOrder(m)
  PROVE  /\ Types'
         /\ \A n \in Tasks \ {m} : tasks'[n] = tasks[n]
         /\ tasks'[m].kind = "order" /\ tasks'[m].key = key' /\ tasks'[m].intent = intent'
         /\ tasks'[m].option = option /\ tasks'[m].answer = None /\ tasks'[m].waiting
         /\ key' = (IF key = 0 THEN started + 1 ELSE key)
         /\ intent' = (IF intent = 0 THEN started + 1 ELSE intent)
         /\ started' = started + 1 /\ option' = option /\ key' # 0
         /\ tasks[m] = Idle /\ awaited' = m /\ page = "checkout"
         /\ UNCHANGED <<cart, orders, caches, fetches, page>>
         /\ calm' = (calm /\ ~Busy /\ ~Fetching)
  <1>1. /\ key \in 0..started /\ intent \in 0..started /\ started \in 0..MaxTasks
        /\ option \in Options /\ quote \in Carts \cup {None} /\ MaxTasks \in Nat
    BY StorefrontAssumption DEF Types, TypeOK
  <1>2. PICK t : t = [Idle EXCEPT !.kind = "order", !.key = key', !.option = option,
                                  !.intent = intent', !.quote = quote, !.waiting = TRUE]
    OBVIOUS
  <1>3. /\ tasks[m] = Idle /\ tasks' = [tasks EXCEPT ![m] = t]
        /\ awaited' = m /\ started' = started + 1 /\ started < MaxTasks
        /\ key' = (IF key = 0 THEN started + 1 ELSE key)
        /\ intent' = (IF intent = 0 THEN started + 1 ELSE intent)
        /\ quote # None /\ page = "checkout"
        /\ calm' = (calm /\ ~Busy /\ ~Fetching)
        /\ UNCHANGED <<cart, orders, caches, fetches, page, option, quote, foreign>>
    BY <1>2 DEF placeOrder, Starts
  <1>4. /\ key' \in 0..MaxTasks /\ intent' \in 0..MaxTasks /\ started' \in 0..MaxTasks
        /\ key' \in 0..started' /\ intent' \in 0..started' /\ key' # 0
    BY <1>1, <1>3
  <1>5. /\ t \in Task /\ t.kind = "order" /\ t.key = key' /\ t.intent = intent'
        /\ t.option = option /\ t.answer = None /\ t.waiting
    <2>1. quote \in Carts
      BY <1>1, <1>3
    <2>2. t \in Task
      BY <1>1, <1>2, <1>4, <2>1, IdleType DEF Task
    <2>3. /\ t.kind = "order" /\ t.key = key' /\ t.intent = intent'
          /\ t.option = option /\ t.answer = None /\ t.waiting
      BY <1>2 DEF Idle
    <2> QED
      BY <2>2, <2>3
  <1>6. /\ tasks' \in [Tasks -> Task] /\ tasks'[m] = t
        /\ \A n \in Tasks \ {m} : tasks'[n] = tasks[n]
        /\ \A n \in Tasks :
              /\ tasks'[n].kind \in {None, "line", "toggle", "order"}
              /\ tasks'[n].answer # None => tasks'[n].waiting
        /\ awaited' # None => awaited' \in Tasks /\ tasks'[awaited'].waiting
    BY <1>3, <1>5, TaskTypes
  <1>7. Types'
    BY <1>3, <1>4, <1>6 DEF Types, TypeOK, caches
  <1> QED
    BY <1>3, <1>4, <1>5, <1>6, <1>7

(* Steps that leave the mutations to themselves. *)
LEMMA OtherTypes ==
  ASSUME Types,
         \/ \E c \in {"items", "ids"} : FetchCart(c) \/ FetchEnds(c)
         \/ \E m \in Tasks : RequestLost(m)
         \/ getCheckoutQuote
         \/ \E o \in Options : Choose(o)
         \/ \E p \in Pages : Visit(p)
         \/ Reload
         \/ OtherTab
         \/ UNCHANGED vars
  PROVE  Types'
  <1>1. /\ fetches \in [{"items", "ids"} -> Cached] /\ None \in Cached
        /\ fetches.items \in Carts \cup {None}
        /\ fetches.ids \in (SUBSET Products) \cup {None}
        /\ started \in Nat /\ foreign \in 0..MaxForeign /\ MaxForeign \in Nat
        /\ cart \in Carts /\ calm \in BOOLEAN /\ 0 \in 0..started
    BY StorefrontAssumption DEF Types, TypeOK, Cached
  <1>2. ASSUME NEW c \in {"items", "ids"}, FetchCart(c) PROVE Types'
    <2>1. /\ fetches'[c] = getCart(c)
          /\ \A d \in {"items", "ids"} \ {c} : fetches'[d] = fetches[d]
      BY <1>1, <1>2 DEF FetchCart
    <2>2. fetches' \in [{"items", "ids"} -> Cached]
      BY <1>2, FetchTypes DEF FetchCart
    <2>3. /\ fetches'["items"] \in Carts \cup {None}
          /\ fetches'["ids"] \in (SUBSET Products) \cup {None}
      BY <2>1, FetchTypes
    <2> QED
      BY <1>1, <1>2, <2>2, <2>3 DEF FetchCart, Types, TypeOK, caches, checkout
  <1>3. ASSUME NEW c \in {"items", "ids"}, FetchEnds(c) PROVE Types'
    <2>1. /\ fetches'[c] = None
          /\ \A d \in {"items", "ids"} \ {c} : fetches'[d] = fetches[d]
          /\ fetches' \in [{"items", "ids"} -> Cached]
      BY <1>1, <1>3 DEF FetchEnds
    <2>2. /\ fetches'["items"] \in Carts \cup {None}
          /\ fetches'["ids"] \in (SUBSET Products) \cup {None}
      BY <2>1, FetchTypes
    <2>3. items' \in Carts \cup {None} /\ ids' \in (SUBSET Products) \cup {None}
      BY <1>3, FetchTypes DEF FetchEnds, caches, Types, TypeOK
    <2> QED
      BY <1>3, <2>1, <2>2, <2>3 DEF FetchEnds, Types, TypeOK, checkout
  <1>4. ASSUME NEW m \in Tasks, RequestLost(m) PROVE Types'
    <2>1. tasks' = [tasks EXCEPT ![m] = Idle] /\ awaited' = awaited /\ ~tasks[m].waiting
      BY <1>4 DEF RequestLost
    <2>2. awaited # m
      BY <2>1, NothingAssumption DEF Types, TypeOK
    <2>3. /\ tasks' \in [Tasks -> Task]
          /\ \A n \in Tasks :
                /\ tasks'[n].kind \in {None, "line", "toggle", "order"}
                /\ tasks'[n].answer # None => tasks'[n].waiting
          /\ awaited' # None => awaited' \in Tasks /\ tasks'[awaited'].waiting
      BY <2>1, <2>2, IdleType, TaskTypes
    <2> QED
      BY <1>4, <2>3 DEF RequestLost, Types, TypeOK, caches, checkout
  <1>5. CASE getCheckoutQuote
    BY <1>1, <1>5 DEF getCheckoutQuote, Types, TypeOK, caches
  <1>6. ASSUME NEW o \in Options, Choose(o) PROVE Types'
    BY <1>1, <1>6 DEF Choose, keyOfSelection, Types, TypeOK, caches
  <1>7. ASSUME NEW p \in Pages, Visit(p) PROVE Types'
    BY <1>1, <1>7 DEF Visit, Types, TypeOK, caches
  <1>8. CASE Reload
    <2>1. /\ fetches' \in [{"items", "ids"} -> Cached]
          /\ fetches'["items"] = None /\ fetches'["ids"] = None
      BY <1>1, <1>8 DEF Reload
    <2> QED
      BY <1>1, <1>8, <2>1 DEF Reload, Types, TypeOK
  <1>9. CASE OtherTab
    <2>1. foreign' \in 0..MaxForeign /\ cart' \in Carts /\ calm' \in BOOLEAN
      <3>1. foreign < MaxForeign /\ foreign' = foreign + 1
        BY <1>9 DEF OtherTab
      <3>2. cart' \in Carts /\ calm' \in BOOLEAN
        BY <1>9 DEF OtherTab
      <3>3. foreign' \in 0..MaxForeign
        BY <1>1, <3>1
      <3> QED
        BY <3>2, <3>3
    <2> QED
      BY <1>9, <2>1 DEF OtherTab, Types, TypeOK, caches, checkout
  <1>10. CASE UNCHANGED vars
    BY <1>10 DEF vars, Types, TypeOK, caches, checkout
  <1> QED
    BY <1>2, <1>3, <1>4, <1>5, <1>6, <1>7, <1>8, <1>9, <1>10

LEMMA InitTypes == Init => Types
  <1> SUFFICES ASSUME Init PROVE Types
    OBVIOUS
  <1>1. /\ MaxTasks \in Nat /\ MaxForeign \in Nat /\ None \in Cached
    BY StorefrontAssumption DEF Cached
  <1>2. /\ fetches \in [{"items", "ids"} -> Cached]
        /\ fetches["items"] = None /\ fetches["ids"] = None
    BY <1>1 DEF Init
  <1>3. tasks \in [Tasks -> Task] /\ \A m \in Tasks : tasks[m] = Idle
    BY IdleType DEF Init
  <1> QED
    BY <1>1, <1>2, <1>3, IdleType DEF Init, Types, TypeOK

LEMMA TypesNext == Types /\ KeysOK /\ [Next]_vars => Types'
  BY StartLineTypes, ServerTypes, OutcomeTypes, PlaceTypes, OtherTypes DEF Next

-----------------------------------------------------------------------------
(* Keys, intents and selections. *)

(* What the requests with a key carry is what the page selects as long as  *)
(* it holds the key, and what the order placed with it is for.             *)
SelectionsOK ==
  /\ \A m \in Tasks : tasks[m].kind = "order" =>
       /\ key = tasks[m].key => option = tasks[m].option
       /\ orders[tasks[m].key] # None => orders[tasks[m].key].option = tasks[m].option
       /\ tasks[m].answer \in {None, Refused, orders[tasks[m].key]}
       /\ \A n \in Tasks : tasks[n].kind = "order" /\ tasks[n].key = tasks[m].key
                             => tasks[n].option = tasks[m].option
  /\ key # 0 /\ orders[key] # None => orders[key].option = option

(* Steps that place no order and prepare none. *)
NoOrder ==
  /\ orders' = orders
  /\ started' >= started
  /\ \/ UNCHANGED <<key, intent, option>>
     \/ key' = 0 /\ intent' = 0
  /\ \A n \in Tasks : tasks'[n].kind = "order" =>
       /\ tasks[n].kind = "order" /\ tasks'[n].key = tasks[n].key
       /\ tasks'[n].intent = tasks[n].intent /\ tasks'[n].option = tasks[n].option
       /\ tasks'[n].answer = tasks[n].answer

LEMMA OrderSteps ==
  ASSUME Types, KeysOK, [Next]_vars
  PROVE  NoOrder \/ \E m \in Tasks : placeOrder(m) \/ createOrder(m)
  <1>1. started \in Nat /\ tasks \in [Tasks -> Task] /\ intent = key
    BY StorefrontAssumption DEF Types, TypeOK, KeysOK
  <1>2. ASSUME NEW m \in Tasks, updateQuantity(m) \/ toggle(m) PROVE NoOrder
    <2>1. LineStarted(m)
      BY <1>2, StartLine
    <2>2. PICK t \in Task : tasks' = [tasks EXCEPT ![m] = t]
                            /\ t.kind \in {"line", "toggle"}
      BY <2>1 DEF LineStarted
    <2>3. tasks'[m] = t /\ \A n \in Tasks \ {m} : tasks'[n] = tasks[n]
      BY <1>1, <2>2
    <2>4. orders' = orders /\ started' >= started /\ UNCHANGED <<key, intent, option>>
      BY <1>1, <2>1 DEF LineStarted, checkout
    <2> QED
      BY <2>2, <2>3, <2>4 DEF NoOrder
  <1>3. ASSUME NEW m \in Tasks, setCartItem(m) PROVE NoOrder
    <2>1. \E answer : tasks' = [tasks EXCEPT ![m] = AnsweredWith(@, answer)]
      BY <1>3 DEF setCartItem
    <2>2. PICK answer \in {Refused} \cup Carts :
             tasks' = [tasks EXCEPT ![m] = AnsweredWith(@, answer)]
      <3>1. tasks[m].product \in Products \cup {None} /\ tasks[m].quantity \in 0..MaxQuantity
            /\ cart \in Carts
        BY DEF Types, TypeOK, Task
      <3>2. [cart EXCEPT ![tasks[m].product] = tasks[m].quantity] \in Carts
        BY <3>1 DEF Carts
      <3> QED
        BY <1>3, <3>2 DEF setCartItem
    <2>3. awaited' = awaited /\ tasks[m].kind # "order"
      BY <1>3 DEF setCartItem
    <2>4. /\ \A n \in Tasks \ {m} : tasks'[n] = tasks[n]
          /\ tasks'[m] = Idle \/ tasks'[m].kind = tasks[m].kind
      BY <2>2, <2>3, AnswerTypes
    <2>5. tasks'[m].kind # "order"
      BY <2>3, <2>4, IdleType, NothingAssumption
    <2> QED
      BY <1>1, <1>3, <2>4, <2>5 DEF setCartItem, NoOrder, checkout
  <1>4. ASSUME NEW m \in Tasks,
               CartChanged(m) \/ CartNotChanged(m) \/ OrderPlaced(m) \/ OrderFailed(m)
        PROVE  NoOrder
    <2>1. /\ \A n \in Tasks \ {m} : tasks'[n] = tasks[n]
          /\ \/ tasks'[m] = Idle
             \/ /\ tasks'[m].kind = tasks[m].kind /\ tasks'[m].key = tasks[m].key
                /\ tasks'[m].intent = tasks[m].intent
                /\ tasks'[m].option = tasks[m].option
                /\ tasks'[m].answer = tasks[m].answer
      BY <1>4, OutcomeTypes
    <2>2. /\ orders' = orders /\ started' = started
          /\ \/ UNCHANGED <<key, intent, option>>
             \/ key' = 0 /\ intent' = 0
      BY <1>4 DEF CartChanged, CartNotChanged, OrderPlaced, OrderFailed, checkout,
                  keyAfterFailure
    <2> QED
      BY <1>1, <2>1, <2>2, IdleType, NothingAssumption DEF NoOrder
  <1>5. ASSUME tasks' = tasks, orders' = orders, started' = started,
               \/ UNCHANGED <<key, intent, option>>
               \/ key' = 0 /\ intent' = 0
        PROVE  NoOrder
    BY <1>1, <1>5 DEF NoOrder
  <1>6. ASSUME \/ \E c \in {"items", "ids"} : FetchCart(c) \/ FetchEnds(c)
               \/ getCheckoutQuote
               \/ \E o \in Options : Choose(o)
               \/ \E p \in Pages : Visit(p)
               \/ Reload
               \/ OtherTab
               \/ UNCHANGED vars
        PROVE  NoOrder
    BY <1>5, <1>6 DEF FetchCart, FetchEnds, getCheckoutQuote, Choose, Visit, Reload,
                      OtherTab, vars, checkout, keyOfSelection
  <1>7. ASSUME NEW m \in Tasks, RequestLost(m) PROVE NoOrder
    <2>1. tasks'[m] = Idle /\ \A n \in Tasks \ {m} : tasks'[n] = tasks[n]
      BY <1>1, <1>7 DEF RequestLost
    <2> QED
      BY <1>1, <1>7, <2>1, IdleType, NothingAssumption DEF RequestLost, NoOrder, checkout
  <1> QED
    BY <1>2, <1>3, <1>4, <1>6, <1>7 DEF Next

(* What the server makes of a request for an order. *)
LEMMA OrderAnswer ==
  ASSUME Types, KeysOK, NEW m \in Tasks, createOrder(m)
  PROVE  LET k == tasks[m].key
         IN /\ k \in 1..MaxTasks /\ k \in 1..started /\ tasks[m].kind = "order"
            /\ tasks[m].answer = None
            /\ UNCHANGED <<caches, fetches, page, awaited, checkout, calm, started, foreign>>
            /\ \A n \in Tasks \ {m} : tasks'[n] = tasks[n]
            /\ ~tasks[m].waiting => tasks'[m] = Idle
            /\ tasks[m].waiting =>
                 /\ tasks'[m].waiting /\ tasks'[m].kind = "order"
                 /\ tasks'[m].answer \in {Refused, orders'[k]}
                 /\ tasks'[m].key = k /\ tasks'[m].intent = tasks[m].intent
                 /\ tasks'[m].option = tasks[m].option
            /\ \A j \in 1..MaxTasks \ {k} : orders'[j] = orders[j]
            /\ \/ orders'[k] = orders[k] /\ cart' = cart
                  /\ (orders[k] = None /\ tasks[m].waiting => tasks'[m].answer = Refused)
               \/ /\ orders[k] = None /\ cart' = NoLines
                  /\ orders'[k] \in OrderRow
                  /\ orders'[k].option = tasks[m].option
                  /\ orders'[k].intent = tasks[m].intent
                  /\ tasks[m].waiting => tasks'[m].answer = orders'[k]
  <1>1. /\ started \in 0..MaxTasks /\ MaxTasks \in Nat
        /\ orders \in [1..MaxTasks -> [option : Options, intent : 1..MaxTasks] \cup {None}]
    BY StorefrontAssumption DEF Types, TypeOK
  <1>2. /\ tasks[m].kind = "order" /\ tasks[m].answer = None
        /\ UNCHANGED <<caches, fetches, page, awaited, checkout, calm, started, foreign>>
    BY DEF createOrder
  <1>3. /\ tasks[m].key \in 1..started /\ tasks[m].intent = tasks[m].key
        /\ tasks[m].option \in Options
    BY <1>2 DEF KeysOK
  <1>4. PICK k \in 1..MaxTasks : k = tasks[m].key
    BY <1>1, <1>3
  <1>5. PICK row : row = [option |-> tasks[m].option, intent |-> tasks[m].intent]
    OBVIOUS
  <1>6. row \in OrderRow /\ row.option = tasks[m].option /\ row.intent = tasks[m].intent
    BY <1>3, <1>4, <1>5 DEF OrderRow
  <1>7. ASSUME NEW answer \in {None, Refused} \cup Carts \cup OrderRow,
               tasks' = [tasks EXCEPT ![m] = AnsweredWith(@, answer)]
        PROVE  /\ \A n \in Tasks \ {m} : tasks'[n] = tasks[n]
               /\ ~tasks[m].waiting => tasks'[m] = Idle
               /\ tasks[m].waiting =>
                    /\ tasks'[m].waiting /\ tasks'[m].kind = "order"
                    /\ tasks'[m].answer = answer /\ tasks'[m].key = k
                    /\ tasks'[m].intent = tasks[m].intent
                    /\ tasks'[m].option = tasks[m].option
    BY <1>2, <1>4, <1>7, AnswerTypes
  <1>8. CASE orders[k] # None /\ UNCHANGED <<cart, orders>>
    <2>1. tasks' = [tasks EXCEPT ![m] = AnsweredWith(@, orders[k])]
      BY <1>4, <1>8 DEF createOrder
    <2>2. orders[k] \in OrderRow
      BY <1>1, <1>8 DEF OrderRow
    <2> QED
      BY <1>2, <1>3, <1>4, <1>7, <1>8, <2>1, <2>2
  <1>9. CASE orders[k] = None /\ UNCHANGED <<cart, orders>>
             /\ tasks' = [tasks EXCEPT ![m] = AnsweredWith(@, Refused)]
    BY <1>2, <1>3, <1>4, <1>7, <1>9
  <1>10. CASE /\ orders[k] = None /\ cart' = NoLines
              /\ orders' = [orders EXCEPT ![k] = row]
              /\ tasks' = [tasks EXCEPT ![m] = AnsweredWith(@, orders'[k])]
    <2>1. orders'[k] = row /\ \A j \in 1..MaxTasks \ {k} : orders'[j] = orders[j]
      BY <1>1, <1>10
    <2>2. tasks' = [tasks EXCEPT ![m] = AnsweredWith(@, row)]
      BY <1>10, <2>1
    <2>3. /\ \A n \in Tasks \ {m} : tasks'[n] = tasks[n]
          /\ ~tasks[m].waiting => tasks'[m] = Idle
          /\ tasks[m].waiting =>
               /\ tasks'[m].waiting /\ tasks'[m].kind = "order"
               /\ tasks'[m].answer = row /\ tasks'[m].key = k
               /\ tasks'[m].intent = tasks[m].intent
               /\ tasks'[m].option = tasks[m].option
      BY <1>6, <1>7, <2>2
    <2>4. orders'[k] \in OrderRow /\ orders'[k].option = tasks[m].option
          /\ orders'[k].intent = tasks[m].intent
      BY <1>6, <2>1
    <2> QED
      BY <1>2, <1>3, <1>4, <1>10, <2>1, <2>3, <2>4
  <1> QED
    BY <1>4, <1>5, <1>8, <1>9, <1>10 DEF createOrder

LEMMA KeysKept ==
  ASSUME Types, KeysOK, [Next]_vars
  PROVE  KeysOK'
  <1>1. /\ started \in 0..MaxTasks /\ MaxTasks \in Nat /\ option \in Options
        /\ key \in 0..started
    BY StorefrontAssumption DEF Types, TypeOK
  <1>2. CASE NoOrder
    <2>1. started' \in Nat
      <3>1. Types'
        BY TypesNext
      <3> QED
        BY <3>1, StorefrontAssumption DEF Types, TypeOK
    <2> QED
      BY <1>1, <1>2, <2>1 DEF NoOrder, KeysOK
  <1>3. ASSUME NEW m \in Tasks, placeOrder(m) PROVE KeysOK'
    <2>1. /\ \A n \in Tasks \ {m} : tasks'[n] = tasks[n]
          /\ tasks'[m].key = key' /\ tasks'[m].intent = intent'
          /\ tasks'[m].option = option
          /\ key' = (IF key = 0 THEN started + 1 ELSE key)
          /\ intent' = (IF intent = 0 THEN started + 1 ELSE intent)
          /\ started' = started + 1 /\ orders' = orders
      BY <1>3, PlaceTypes
    <2>2. intent' = key' /\ key' \in 1..started'
      <3>1. intent = key /\ key \in Nat /\ key <= started /\ started \in Nat
        BY <1>1 DEF KeysOK
      <3>2. CASE key = 0
        BY <2>1, <3>1, <3>2
      <3>3. CASE key # 0
        BY <2>1, <3>1, <3>3
      <3> QED
        BY <3>2, <3>3
    <2>3. ASSUME NEW n \in Tasks, tasks'[n].kind = "order"
          PROVE  /\ tasks'[n].key = tasks'[n].intent
                 /\ tasks'[n].key \in 1..started'
                 /\ tasks'[n].option \in Options
      <3>1. CASE n = m
        BY <1>1, <2>1, <2>2, <3>1
      <3>2. CASE n # m
        BY <1>1, <2>1, <2>3, <3>2 DEF KeysOK
      <3> QED
        BY <3>1, <3>2
    <2>4. ASSUME NEW k \in 1..MaxTasks, orders'[k] # None
          PROVE  k <= started' /\ orders'[k].intent = k
      <3>0. orders[k] # None /\ orders'[k] = orders[k] /\ started \in Nat
        BY <1>1, <2>1, <2>4
      <3>1. k <= started /\ orders[k].intent = k
        BY <3>0 DEF KeysOK
      <3> QED
        BY <2>1, <3>0, <3>1
    <2> QED
      BY <2>2, <2>3, <2>4 DEF KeysOK
  <1>4. ASSUME NEW m \in Tasks, createOrder(m) PROVE KeysOK'
    <2>1. PICK k : k = tasks[m].key
      OBVIOUS
    <2>2. /\ k \in 1..started /\ k \in 1..MaxTasks
          /\ \A n \in Tasks \ {m} : tasks'[n] = tasks[n]
          /\ ~tasks[m].waiting => tasks'[m] = Idle
          /\ tasks[m].waiting =>
               /\ tasks'[m].key = k /\ tasks'[m].intent = tasks[m].intent
               /\ tasks'[m].option = tasks[m].option
          /\ \A j \in 1..MaxTasks \ {k} : orders'[j] = orders[j]
          /\ orders'[k] = orders[k] \/ orders'[k].intent = tasks[m].intent
          /\ tasks[m].kind = "order" /\ UNCHANGED <<checkout, started>>
      BY <1>4, <2>1, OrderAnswer
    <2>3. tasks[m].intent = k /\ tasks[m].option \in Options
      BY <2>1, <2>2 DEF KeysOK
    <2>4. ASSUME NEW n \in Tasks, tasks'[n].kind = "order"
          PROVE  /\ tasks'[n].key = tasks'[n].intent
                 /\ tasks'[n].key \in 1..started'
                 /\ tasks'[n].option \in Options
      BY <2>2, <2>3, <2>4, IdleType, NothingAssumption DEF KeysOK
    <2>5. \A j \in 1..MaxTasks : orders'[j] # None => j <= started' /\ orders'[j].intent = j
      BY <1>1, <2>2, <2>3 DEF KeysOK
    <2> QED
      BY <2>2, <2>4, <2>5 DEF KeysOK, checkout
  <1> QED
    BY <1>2, <1>3, <1>4, OrderSteps

LEMMA SelectionsKept ==
  ASSUME Types, KeysOK, SelectionsOK, [Next]_vars
  PROVE  SelectionsOK'
  <1>1. /\ started \in 0..MaxTasks /\ MaxTasks \in Nat /\ key \in 0..started
        /\ orders \in [1..MaxTasks -> OrderRow \cup {None}]
    BY StorefrontAssumption DEF Types, TypeOK, OrderRow
  <1>2. CASE NoOrder
    BY <1>2 DEF NoOrder, KeysOK, SelectionsOK
  <1>3. ASSUME NEW m \in Tasks, placeOrder(m) PROVE SelectionsOK'
    <2>1. /\ \A n \in Tasks \ {m} : tasks'[n] = tasks[n]
          /\ tasks'[m].kind = "order" /\ tasks'[m].key = key'
          /\ tasks'[m].option = option /\ tasks'[m].answer = None
          /\ key' = (IF key = 0 THEN started + 1 ELSE key)
          /\ key' # 0 /\ option' = option /\ orders' = orders
          /\ started' = started + 1 /\ started' \in 0..MaxTasks
      <3>1. Types'
        BY <1>3, PlaceTypes
      <3>2. MaxTasks' = MaxTasks
        OBVIOUS
      <3> QED
        BY <1>3, <3>1, PlaceTypes DEF Types, TypeOK
    (* Whoever else carries the page's key carries its selection. *)
    <2>2. ASSUME NEW n \in Tasks, n # m, tasks[n].kind = "order", tasks[n].key = key'
          PROVE  tasks[n].option = option
      <3>1. tasks[n].key \in 1..started
        BY <2>2 DEF KeysOK
      <3>2. key # 0 /\ key' = key
        BY <1>1, <2>1, <2>2, <3>1
      <3> QED
        BY <2>2, <3>2 DEF SelectionsOK
    <2>3. key' \in 1..MaxTasks /\ (orders[key'] # None => orders[key'].option = option)
      <3>1. key' \in 1..started'
        BY <1>3, <2>1, KeysKept, PlaceTypes DEF KeysOK
      <3>2. CASE key = 0
        <4>1. key' \in 1..MaxTasks /\ ~(key' <= started)
          BY <1>1, <2>1, <3>1, <3>2
        <4>2. orders[key'] = None
          BY <4>1 DEF KeysOK
        <4> QED
          BY <4>1, <4>2
      <3>3. CASE key # 0
        BY <1>1, <2>1, <3>1, <3>3 DEF SelectionsOK
      <3> QED
        BY <3>2, <3>3
    <2>4. ASSUME NEW n \in Tasks, tasks'[n].kind = "order"
          PROVE  /\ key' = tasks'[n].key => option' = tasks'[n].option
                 /\ orders'[tasks'[n].key] # None
                      => orders'[tasks'[n].key].option = tasks'[n].option
                 /\ tasks'[n].answer \in {None, Refused, orders'[tasks'[n].key]}
                 /\ \A o \in Tasks : tasks'[o].kind = "order" /\ tasks'[o].key = tasks'[n].key
                                       => tasks'[o].option = tasks'[n].option
      <3>1. CASE n = m
        BY <2>1, <2>2, <2>3, <3>1
      <3>2. CASE n # m
        <4>1. tasks'[n] = tasks[n] /\ tasks[n].kind = "order"
          BY <2>1, <2>4, <3>2
        <4>2. \A o \in Tasks \ {m} : tasks'[o].kind = "order" /\ tasks'[o].key = tasks'[n].key
                                       => tasks'[o].option = tasks'[n].option
          BY <2>1, <4>1 DEF SelectionsOK
        <4>3. tasks'[m].key = tasks'[n].key => tasks'[m].option = tasks'[n].option
          BY <2>1, <2>2, <3>2, <4>1
        <4>4. key' = tasks'[n].key => option' = tasks'[n].option
          BY <2>1, <2>2, <3>2, <4>1
        <4> QED
          BY <2>1, <4>1, <4>2, <4>3, <4>4 DEF SelectionsOK
      <3> QED
        BY <3>1, <3>2
    <2> QED
      BY <2>1, <2>3, <2>4 DEF SelectionsOK
  <1>4. ASSUME NEW m \in Tasks, createOrder(m) PROVE SelectionsOK'
    <2>1. PICK k : k = tasks[m].key
      OBVIOUS
    <2>2. /\ k \in 1..started /\ k \in 1..MaxTasks
          /\ \A n \in Tasks \ {m} : tasks'[n] = tasks[n]
          /\ ~tasks[m].waiting => tasks'[m] = Idle
          /\ tasks[m].waiting =>
               /\ tasks'[m].key = k /\ tasks'[m].option = tasks[m].option
               /\ tasks'[m].answer \in {Refused, orders'[k]}
          /\ \A j \in 1..MaxTasks \ {k} : orders'[j] = orders[j]
          /\ \/ orders'[k] = orders[k]
             \/ orders[k] = None /\ orders'[k].option = tasks[m].option
          /\ tasks[m].kind = "order" /\ UNCHANGED <<key, option, intent, started>>
      BY <1>4, <2>1, OrderAnswer DEF checkout
    <2>3. ASSUME NEW n \in Tasks, tasks'[n].kind = "order"
          PROVE  /\ tasks[n].kind = "order" /\ tasks[n].key \in 1..MaxTasks
                 /\ tasks'[n].key = tasks[n].key /\ tasks'[n].option = tasks[n].option
                 /\ tasks'[n].answer \in {tasks[n].answer, Refused, orders'[tasks[n].key]}
      <3>1. CASE n = m
        BY <2>1, <2>2, <2>3, <3>1, IdleType, NothingAssumption
      <3>2. CASE n # m
        BY <1>1, <2>2, <2>3, <3>2 DEF KeysOK
      <3> QED
        BY <3>1, <3>2
    <2>4. ASSUME NEW n \in Tasks, tasks[n].kind = "order", tasks[n].key \in 1..MaxTasks
          PROVE  /\ orders'[tasks[n].key] # None
                      => orders'[tasks[n].key].option = tasks[n].option
                 /\ tasks[n].answer \in {None, Refused, orders'[tasks[n].key]}
      <3>1. CASE orders'[tasks[n].key] = orders[tasks[n].key]
        BY <2>4, <3>1 DEF SelectionsOK
      <3>2. CASE orders'[tasks[n].key] # orders[tasks[n].key]
        <4>1. tasks[n].key = k /\ orders[k] = None /\ orders'[k].option = tasks[m].option
          BY <2>2, <2>4, <3>2
        <4>2. tasks[n].option = tasks[m].option
          BY <2>1, <2>2, <2>4, <4>1 DEF SelectionsOK
        <4>3. tasks[n].answer \in {None, Refused}
          BY <2>4, <4>1 DEF SelectionsOK
        <4> QED
          BY <4>1, <4>2, <4>3
      <3> QED
        BY <3>1, <3>2
    <2>5. key # 0 /\ orders'[key] # None => orders'[key].option = option
      <3>1. SUFFICES ASSUME key # 0, orders'[key] # None PROVE orders'[key].option = option
        OBVIOUS
      <3>2. key \in 1..MaxTasks
        BY <1>1, <3>1
      <3>3. CASE orders'[key] = orders[key]
        BY <3>1, <3>3 DEF SelectionsOK
      <3>4. CASE orders'[key] # orders[key]
        <4>1. key = k /\ orders'[k].option = tasks[m].option
          BY <2>2, <3>2, <3>4
        <4> QED
          BY <2>1, <2>2, <4>1 DEF SelectionsOK
      <3> QED
        BY <3>3, <3>4
    <2>6. ASSUME NEW n \in Tasks, tasks'[n].kind = "order"
          PROVE  /\ key' = tasks'[n].key => option' = tasks'[n].option
                 /\ orders'[tasks'[n].key] # None
                      => orders'[tasks'[n].key].option = tasks'[n].option
                 /\ tasks'[n].answer \in {None, Refused, orders'[tasks'[n].key]}
                 /\ \A o \in Tasks : tasks'[o].kind = "order" /\ tasks'[o].key = tasks'[n].key
                                       => tasks'[o].option = tasks'[n].option
      <3>1. /\ tasks[n].kind = "order" /\ tasks[n].key \in 1..MaxTasks
            /\ tasks'[n].key = tasks[n].key /\ tasks'[n].option = tasks[n].option
            /\ tasks'[n].answer \in {tasks[n].answer, Refused, orders'[tasks[n].key]}
        BY <2>3, <2>6
      <3>2. /\ orders'[tasks'[n].key] # None
                 => orders'[tasks'[n].key].option = tasks'[n].option
            /\ tasks'[n].answer \in {None, Refused, orders'[tasks'[n].key]}
        BY <2>4, <3>1
      <3>3. \A o \in Tasks : tasks'[o].kind = "order" /\ tasks'[o].key = tasks'[n].key
                               => tasks'[o].option = tasks'[n].option
        BY <2>3, <3>1 DEF SelectionsOK
      <3>4. key' = tasks'[n].key => option' = tasks'[n].option
        BY <2>2, <3>1 DEF SelectionsOK
      <3> QED
        BY <3>2, <3>3, <3>4
    <2> QED
      BY <2>2, <2>5, <2>6 DEF SelectionsOK
  <1> QED
    BY <1>2, <1>3, <1>4, OrderSteps

-----------------------------------------------------------------------------
(* The caches.  As long as nothing sets them and the cart apart, either no *)
(* mutation is under way and both show the cart, or exactly one is, no     *)
(* fetch is, and whatever answer comes leads to the cart as it then is.    *)

Agree(lines, itemsOf, idsOf) == itemsOf \in {None, lines} /\ idsOf \in {None, Ids(lines)}

AtRest ==
  /\ \A m \in Tasks : tasks[m] = Idle
  /\ Agree(cart, items, ids)
  /\ Agree(cart, fetches["items"], fetches["ids"])
  /\ key # 0 => orders[key] = None

(* A refused change of the cart is undone; one that succeeded answers with *)
(* the cart.  The checkout page holds no key meanwhile.                    *)
LineUnderWay(m) ==
  /\ tasks[m].kind \in {"line", "toggle"}
  /\ \/ /\ tasks[m].answer \in {None, Refused}
        /\ Agree(cart, tasks[m].back.items, tasks[m].back.ids)
     \/ tasks[m].answer = cart
  /\ key = 0

(* A refused order leaves the cart as cached and its key unused; one that  *)
(* was placed leaves the cart empty.                                       *)
OrderUnderWay(m) ==
  /\ tasks[m].kind = "order"
  /\ \/ /\ tasks[m].answer \in {None, Refused}
        /\ Agree(cart, items, ids)
        /\ orders[tasks[m].key] = None
     \/ tasks[m].answer \notin {None, Refused} /\ cart = NoLines
  /\ key # 0 => key = tasks[m].key /\ awaited = m

AtWork(m) ==
  /\ tasks[m].waiting
  /\ \A n \in Tasks \ {m} : tasks[n] = Idle
  /\ fetches["items"] = None /\ fetches["ids"] = None
  /\ LineUnderWay(m) \/ OrderUnderWay(m)

CalmOK ==
  /\ page # "checkout" => key = 0
  /\ calm => AtRest \/ \E m \in Tasks : AtWork(m)

(* Which of the two it is, and what it says to an answer. *)
LEMMA CalmStates ==
  ASSUME Types, CalmOK, calm
  PROVE  /\ ~Busy => AtRest
         /\ Busy \/ Fetching \/ (Agree(cart, items, ids) /\ fetches["items"] = None
                                  /\ fetches["ids"] = None)
         /\ Fetching => AtRest
         /\ \A m \in Tasks : tasks[m].kind # None \/ tasks[m].waiting => AtWork(m)
  <1>1. AtRest \/ \E m \in Tasks : AtWork(m)
    BY DEF CalmOK
  <1>2. CASE AtRest
    BY <1>2, IdleType DEF AtRest, Busy, Fetching
  <1>3. ASSUME NEW m \in Tasks, AtWork(m)
        PROVE  /\ Busy /\ ~Fetching
               /\ \A n \in Tasks : tasks[n].kind # None \/ tasks[n].waiting => AtWork(n)
    BY <1>3, IdleType DEF AtWork, Busy, Fetching
  <1> QED
    BY <1>1, <1>2, <1>3

(* A mutation begins while nothing else is under way. *)
LEMMA BeginCalm ==
  ASSUME Types, KeysOK, CalmOK, NEW m \in Tasks,
         updateQuantity(m) \/ toggle(m) \/ placeOrder(m)
  PROVE  calm' => AtWork(m)'
  <1> SUFFICES ASSUME calm' PROVE AtWork(m)'
    OBVIOUS
  <1>1. CASE updateQuantity(m) \/ toggle(m)
    <2>1. LineStarted(m)
      BY <1>1, StartLine
    <2>2. calm /\ ~Busy /\ key = 0
      BY <2>1 DEF LineStarted, CalmOK
    <2>3. Agree(cart, items, ids) /\ \A n \in Tasks : tasks[n] = Idle
      BY <2>2, CalmStates DEF AtRest
    <2>4. PICK t \in Task :
             /\ tasks' = [tasks EXCEPT ![m] = t]
             /\ t.kind \in {"line", "toggle"} /\ t.waiting /\ t.answer = None
             /\ t.back.items = items /\ t.back.ids = ids
      BY <2>1 DEF LineStarted
    <2>5. tasks'[m] = t /\ \A n \in Tasks \ {m} : tasks'[n] = tasks[n]
      BY <2>4 DEF Types
    <2>6. fetches'["items"] = None /\ fetches'["ids"] = None /\ cart' = cart /\ key' = 0
      BY <2>1, <2>2 DEF LineStarted, checkout
    <2>7. LineUnderWay(m)'
      BY <2>3, <2>4, <2>5, <2>6 DEF LineUnderWay
    <2> QED
      BY <2>3, <2>4, <2>5, <2>6, <2>7 DEF AtWork
  <1>2. CASE placeOrder(m)
    <2>1. /\ \A n \in Tasks \ {m} : tasks'[n] = tasks[n]
          /\ tasks'[m].kind = "order" /\ tasks'[m].key = key' /\ tasks'[m].answer = None
          /\ tasks'[m].waiting /\ awaited' = m
          /\ key' = (IF key = 0 THEN started + 1 ELSE key)
          /\ started' = started + 1 /\ UNCHANGED <<cart, orders, caches, fetches>>
          /\ calm /\ ~Busy /\ ~Fetching
      BY <1>2, PlaceTypes
    <2>2. /\ AtRest /\ fetches["items"] = None /\ fetches["ids"] = None
      BY <2>1, CalmStates
    <2>3. orders[key'] = None
      <3>1. CASE key = 0
        <4>1. key' = started + 1 /\ started \in 0..MaxTasks /\ MaxTasks \in Nat
          BY <2>1, <3>1, StorefrontAssumption DEF Types, TypeOK
        <4>2. key' \in 1..MaxTasks
          <5>1. KeysOK' /\ Types'
            BY <1>2, KeysKept, PlaceTypes DEF Next
          <5>2. key' \in 1..started' /\ started' \in 0..MaxTasks
            BY <2>1, <5>1 DEF KeysOK, Types, TypeOK
          <5> QED
            BY <4>1, <5>2
        <4>3. ~(key' <= started)
          BY <4>1
        <4> QED
          BY <4>2, <4>3 DEF KeysOK
      <3>2. CASE key # 0
        BY <2>1, <2>2, <3>2 DEF AtRest
      <3> QED
        BY <3>1, <3>2
    <2>4. OrderUnderWay(m)'
      BY <2>1, <2>2, <2>3 DEF OrderUnderWay, AtRest, caches
    <2> QED
      BY <2>1, <2>2, <2>4 DEF AtWork, AtRest
  <1> QED
    BY <1>1, <1>2

(* The server answers the one mutation under way. *)
LEMMA AnswerCalm ==
  ASSUME Types, KeysOK, CalmOK, NEW m \in Tasks, setCartItem(m) \/ createOrder(m)
  PROVE  calm' => AtWork(m)'
  <1> SUFFICES ASSUME calm' PROVE AtWork(m)'
    OBVIOUS
  <1>1. /\ calm /\ tasks[m].kind \in {"line", "toggle", "order"}
        /\ tasks[m].answer = None
        /\ UNCHANGED <<caches, fetches, awaited, checkout>>
    BY DEF setCartItem, createOrder
  <1>2. AtWork(m)
    BY <1>1, CalmStates, NothingAssumption
  <1>3. /\ \A n \in Tasks \ {m} : tasks[n] = Idle
        /\ fetches'["items"] = None /\ fetches'["ids"] = None
        /\ tasks[m].waiting
    BY <1>1, <1>2 DEF AtWork
  <1>4. CASE setCartItem(m)
    <2>1. tasks[m].kind \in {"line", "toggle"} /\ key' = 0
          /\ Agree(cart, tasks[m].back.items, tasks[m].back.ids)
          /\ cart \in Carts
      <3>1. tasks[m].kind \in {"line", "toggle"} /\ cart \in Carts
        BY <1>4 DEF setCartItem, Types, TypeOK
      <3>2. LineUnderWay(m)
        BY <1>2, <3>1 DEF AtWork, OrderUnderWay
      <3> QED
        BY <1>1, <3>1, <3>2, NothingAssumption DEF LineUnderWay, checkout
    <2>2. PICK answer \in {Refused} \cup Carts :
             /\ tasks' = [tasks EXCEPT ![m] = AnsweredWith(@, answer)]
             /\ answer = cart' \/ (answer = Refused /\ cart' = cart)
      <3>1. tasks[m].product \in Products \cup {None} /\ tasks[m].quantity \in 0..MaxQuantity
        BY DEF Types, Task
      <3>2. [cart EXCEPT ![tasks[m].product] = tasks[m].quantity] \in Carts
        BY <2>1, <3>1 DEF Carts
      <3> QED
        BY <1>4, <3>2 DEF setCartItem
    <2>3. /\ \A n \in Tasks \ {m} : tasks'[n] = tasks[n]
          /\ tasks'[m].waiting /\ tasks'[m].kind = tasks[m].kind
          /\ tasks'[m].answer = answer /\ tasks'[m].back = tasks[m].back
      <3>1. answer \in {None, Refused} \cup Carts \cup OrderRow /\ awaited' = awaited
        BY <1>1
      <3>2. tasks' = [tasks EXCEPT ![m] = AnsweredWith(@, answer)]
        BY <2>2
      <3> QED
        BY <1>3, <3>1, <3>2, AnswerTypes
    <2>4. LineUnderWay(m)'
      BY <2>1, <2>2, <2>3 DEF LineUnderWay
    <2> QED
      BY <1>3, <2>3, <2>4 DEF AtWork
  <1>5. CASE createOrder(m)
    <2>1. OrderUnderWay(m) /\ tasks[m].kind = "order"
      BY <1>2, <1>5 DEF createOrder, AtWork, LineUnderWay
    <2>2. PICK k : k = tasks[m].key
      OBVIOUS
    <2>3. /\ \A n \in Tasks \ {m} : tasks'[n] = tasks[n]
          /\ tasks'[m].waiting /\ tasks'[m].kind = "order" /\ tasks'[m].key = k
          /\ orders[k] = None
          /\ \/ orders'[k] = orders[k] /\ cart' = cart /\ tasks'[m].answer = Refused
             \/ cart' = NoLines /\ orders'[k] \in OrderRow /\ tasks'[m].answer = orders'[k]
      <3>1. orders[k] = None
        BY <1>1, <2>1, <2>2 DEF OrderUnderWay
      <3> QED
        BY <1>3, <1>5, <2>2, <3>1, OrderAnswer
    <2>4. Agree(cart, items, ids) /\ (key # 0 => key = k /\ awaited = m)
      BY <1>1, <2>1, <2>2 DEF OrderUnderWay
    <2>5. OrderUnderWay(m)'
      <3>1. None \notin OrderRow /\ Refused \notin OrderRow
        BY NothingAssumption DEF OrderRow
      <3> QED
        BY <1>1, <2>2, <2>3, <2>4, <3>1 DEF OrderUnderWay, caches, checkout
    <2> QED
      BY <1>3, <2>3, <2>5 DEF AtWork
  <1> QED
    BY <1>4, <1>5

(* The mutation under way is over. *)
LEMMA EndCalm ==
  ASSUME Types, CalmOK, NEW m \in Tasks,
         CartChanged(m) \/ CartNotChanged(m) \/ OrderPlaced(m) \/ OrderFailed(m)
  PROVE  calm' => AtRest'
  <1> SUFFICES ASSUME calm' PROVE AtRest'
    OBVIOUS
  <1>1. calm /\ tasks[m].kind \in {"line", "toggle", "order"} /\ tasks \in [Tasks -> Task]
    BY DEF CartChanged, CartNotChanged, OrderPlaced, OrderFailed, Types
  <1>2. AtWork(m)
    BY <1>1, CalmStates, NothingAssumption
  <1>3. /\ tasks[m].answer # None
        /\ CartNotChanged(m) \/ OrderFailed(m) => tasks[m].answer = Refused
        /\ tasks' = [tasks EXCEPT ![m] = Idle]
    BY NothingAssumption DEF CartChanged, CartNotChanged, OrderPlaced, OrderFailed
  <1>4. \A n \in Tasks : tasks'[n] = Idle
    BY <1>1, <1>2, <1>3 DEF AtWork
  <1>5. /\ fetches \in [{"items", "ids"} -> Cached]
        /\ fetches["items"] = None /\ fetches["ids"] = None
        /\ getCart("ids") = Ids(cart) /\ cart \in Carts
        /\ cart' = cart /\ orders' = orders
    BY <1>2 DEF AtWork, Types, TypeOK, getCart, CartChanged, CartNotChanged, OrderPlaced,
                OrderFailed
  <1>6. CASE CartChanged(m) \/ CartNotChanged(m)
    <2>1. key' = 0
      BY <1>2, <1>6 DEF AtWork, LineUnderWay, OrderUnderWay, CartChanged, CartNotChanged,
                        checkout
    <2>2. LineUnderWay(m)
      BY <1>2, <1>6 DEF AtWork, OrderUnderWay, CartChanged, CartNotChanged
    <2>3. Agree(cart, items', ids')
      <3>1. CASE CartChanged(m)
        <4>1. tasks[m].answer = cart
          BY <2>2, <3>1, NothingAssumption DEF LineUnderWay, CartChanged
        <4> QED
          BY <3>1, <4>1 DEF CartChanged, synchronizeCart, Agree
      <3>2. CASE CartNotChanged(m)
        <4>1. Agree(cart, tasks[m].back.items, tasks[m].back.ids)
          BY <1>3, <1>5, <2>2, <3>2, NothingAssumption DEF LineUnderWay
        <4> QED
          BY <3>2, <4>1 DEF CartNotChanged, restoreCartContext, Agree
      <3> QED
        BY <1>6, <3>1, <3>2
    <2>4. Agree(cart, fetches'["items"], fetches'["ids"])
      BY <1>5, <1>6 DEF CartChanged, CartNotChanged, Agree
    <2> QED
      BY <1>4, <1>5, <2>1, <2>3, <2>4 DEF AtRest
  <1>7. CASE OrderPlaced(m)
    <2>1. cart = NoLines /\ (key # 0 => awaited = m)
      BY <1>2, <1>7 DEF AtWork, LineUnderWay, OrderUnderWay, OrderPlaced
    <2>2. Agree(cart, items', ids') /\ key' = 0
      BY <1>7, <2>1, NoLinesType DEF OrderPlaced, Agree
    <2>3. Agree(cart, fetches'["items"], fetches'["ids"])
      BY <1>5, <1>7 DEF OrderPlaced, Agree
    <2> QED
      BY <1>4, <1>5, <2>2, <2>3 DEF AtRest
  <1>8. CASE OrderFailed(m)
    <2>1. /\ Agree(cart, items, ids) /\ orders[tasks[m].key] = None
          /\ key # 0 => key = tasks[m].key
      BY <1>2, <1>3, <1>8 DEF AtWork, LineUnderWay, OrderUnderWay, OrderFailed
    <2>2. key' = key /\ items' = items /\ ids' = ids /\ fetches' = fetches
      BY <1>8 DEF OrderFailed, keyAfterFailure, caches
    <2>3. key' # 0 => orders'[key'] = None
      BY <1>5, <2>1, <2>2
    <2>4. Agree(cart, fetches["items"], fetches["ids"])
      BY <1>5 DEF Agree
    <2> QED
      BY <1>4, <1>5, <2>1, <2>2, <2>3, <2>4 DEF AtRest
  <1> QED
    BY <1>6, <1>7, <1>8

(* Fetches, quotes, selections and pages; another tab; and what is lost.   *)
LEMMA OtherCalm ==
  ASSUME Types, CalmOK,
         \/ \E c \in {"items", "ids"} : FetchCart(c) \/ FetchEnds(c)
         \/ \E m \in Tasks : RequestLost(m)
         \/ getCheckoutQuote
         \/ \E o \in Options : Choose(o)
         \/ \E p \in Pages : Visit(p)
         \/ Reload
         \/ OtherTab
         \/ UNCHANGED vars
  PROVE  calm' => AtRest' \/ \E m \in Tasks : AtWork(m)'
  <1> SUFFICES ASSUME calm' PROVE AtRest' \/ \E m \in Tasks : AtWork(m)'
    OBVIOUS
  <1>1. fetches \in [{"items", "ids"} -> Cached]
    BY DEF Types
  <1>2. ASSUME NEW c \in {"items", "ids"}, FetchCart(c) PROVE AtRest'
    <2>1. AtRest
      BY <1>2, CalmStates DEF FetchCart
    <2>2. /\ fetches'[c] = getCart(c)
          /\ \A d \in {"items", "ids"} \ {c} : fetches'[d] = fetches[d]
          /\ UNCHANGED <<cart, orders, items, ids, key, tasks>>
      BY <1>1, <1>2 DEF FetchCart, caches, checkout
    <2>3. Agree(cart, fetches'["items"], fetches'["ids"])
      BY <2>1, <2>2 DEF AtRest, Agree, getCart
    <2> QED
      BY <2>1, <2>2, <2>3 DEF AtRest
  <1>3. ASSUME NEW c \in {"items", "ids"}, FetchEnds(c) PROVE AtRest'
    <2>1. AtRest
      BY <1>3, CalmStates DEF FetchEnds, Fetching
    <2>2. /\ fetches'[c] = None
          /\ \A d \in {"items", "ids"} \ {c} : fetches'[d] = fetches[d]
          /\ items' = items \/ items' = fetches["items"]
          /\ ids' = ids \/ ids' = fetches["ids"]
          /\ UNCHANGED <<cart, orders, key, tasks>>
      BY <1>1, <1>3 DEF FetchEnds, caches, checkout
    <2>3. Agree(cart, fetches'["items"], fetches'["ids"])
      BY <2>1, <2>2 DEF AtRest, Agree
    <2>4. Agree(cart, items', ids')
      BY <2>1, <2>2 DEF AtRest, Agree
    <2> QED
      BY <2>1, <2>2, <2>3, <2>4 DEF AtRest
  <1>4. ASSUME NEW m \in Tasks, RequestLost(m) PROVE FALSE
    BY <1>4, CalmStates DEF RequestLost, AtWork
  <1>5. ASSUME calm, UNCHANGED <<cart, orders, items, ids, fetches, tasks>>,
               key' = 0 \/ (key' = key /\ awaited' = awaited)
        PROVE  AtRest' \/ \E m \in Tasks : AtWork(m)'
    <2>1. CASE AtRest
      BY <1>5, <2>1 DEF AtRest
    <2>2. ASSUME NEW m \in Tasks, AtWork(m) PROVE AtWork(m)'
      <3>1. LineUnderWay(m) => LineUnderWay(m)'
        BY <1>5 DEF LineUnderWay
      <3>2. OrderUnderWay(m) => OrderUnderWay(m)'
        BY <1>5 DEF OrderUnderWay
      <3> QED
        BY <1>5, <2>2, <3>1, <3>2 DEF AtWork
    <2> QED
      BY <1>5, <2>1, <2>2 DEF CalmOK
  <1>6. CASE \/ getCheckoutQuote
             \/ \E o \in Options : Choose(o)
             \/ \E p \in Pages : Visit(p)
             \/ UNCHANGED vars
    BY <1>5, <1>6 DEF getCheckoutQuote, Choose, Visit, vars, caches, checkout,
                      keyOfSelection
  <1>7. CASE Reload
    BY <1>7, IdleType DEF Reload, AtRest, Agree, Busy
  <1>8. CASE OtherTab
    BY <1>8 DEF OtherTab
  <1> QED
    BY <1>2, <1>3, <1>4, <1>6, <1>7, <1>8

(* The key is the checkout page's. *)
LEMMA KeyLeaves ==
  ASSUME Types, CalmOK, [Next]_vars
  PROVE  page' # "checkout" => key' = 0
  <1>1. page # "checkout" => key = 0
    BY DEF CalmOK
  <1>2. \/ key' = 0
        \/ page' = page /\ (key' = key \/ page = "checkout")
    BY DEF Next, FetchCart, FetchEnds, updateQuantity, toggle, setCartItem, CartChanged,
           CartNotChanged, placeOrder, createOrder, OrderPlaced, OrderFailed, RequestLost,
           getCheckoutQuote, Choose, Visit, Reload, OtherTab, vars, checkout,
           keyAfterFailure, keyOfSelection
  <1> QED
    BY <1>1, <1>2

LEMMA CalmKept == Types /\ KeysOK /\ CalmOK /\ [Next]_vars => CalmOK'
  <1> SUFFICES ASSUME Types, KeysOK, CalmOK, [Next]_vars
               PROVE  CalmOK'
    OBVIOUS
  <1>1. calm' => AtRest' \/ \E m \in Tasks : AtWork(m)'
    BY BeginCalm, AnswerCalm, EndCalm, OtherCalm DEF Next
  <1> QED
    BY <1>1, KeyLeaves DEF CalmOK

-----------------------------------------------------------------------------
(* Theorems *)

StorefrontInductive == Types /\ KeysOK /\ SelectionsOK /\ CalmOK

THEOREM StorefrontInductiveHolds == Spec => []StorefrontInductive
  <1>1. Init => StorefrontInductive
    <2> SUFFICES ASSUME Init PROVE StorefrontInductive
      OBVIOUS
    <2>1. Types
      BY InitTypes
    <2>2. \A m \in Tasks : tasks[m].kind = None /\ ~tasks[m].waiting /\ tasks[m] = Idle
      BY IdleType DEF Init
    <2>3. KeysOK /\ SelectionsOK
      BY <2>2, NothingAssumption DEF Init, KeysOK, SelectionsOK
    <2>4. CalmOK
      BY <2>2 DEF Init, CalmOK, AtRest, Agree
    <2> QED
      BY <2>1, <2>3, <2>4 DEF StorefrontInductive
  <1>2. StorefrontInductive /\ [Next]_vars => StorefrontInductive'
    BY TypesNext, KeysKept, SelectionsKept, CalmKept DEF StorefrontInductive
  <1> QED
    BY <1>1, <1>2, PTL DEF Spec

\* However often the buyer retries without changing the selection, and whatever
\* was lost or came late: one order per intent (Checkout.tsx lines 58-84 keep the
\* key over failures, checkoutService.ts answers a known key with its order).
THEOREM StorefrontOrders == Spec => []OneOrderPerIntent
  <1>1. StorefrontInductive => OneOrderPerIntent
    BY DEF StorefrontInductive, KeysOK, OneOrderPerIntent
  <1> QED
    BY <1>1, StorefrontInductiveHolds, PTL

\* A confirmed order is for the selection that the buyer confirmed, also when the
\* server replays it (Checkout.tsx lines 112-170 drop the key with the selection).
THEOREM StorefrontSelections == Spec => []ConfirmedAsSelected
  <1>1. StorefrontInductive => ConfirmedAsSelected
    <2> SUFFICES ASSUME StorefrontInductive, NEW m \in Tasks, tasks[m].kind = "order",
                        tasks[m].answer \notin {None, Refused}
                 PROVE  tasks[m].answer.option = tasks[m].option
      BY DEF ConfirmedAsSelected
    <2>1. tasks[m].answer = orders[tasks[m].key] /\ orders[tasks[m].key] # None
      BY DEF StorefrontInductive, SelectionsOK
    <2> QED
      BY <2>1 DEF StorefrontInductive, SelectionsOK
  <1> QED
    BY <1>1, StorefrontInductiveHolds, PTL

\* The types, and both caches show the cart once all is quiet, after optimistic
\* changes, refusals, orders and fetches in any order (serverState/cart.ts lines
\* 35-149, productCollections.ts lines 22-125, orders.ts lines 40-81).
THEOREM StorefrontSafe == Spec => []StorefrontInv
  <1>1. StorefrontInductive => StorefrontInv
    <2> SUFFICES ASSUME StorefrontInductive PROVE StorefrontInv
      OBVIOUS
    <2>1. CachesReconciled
      BY CalmStates DEF StorefrontInductive, CachesReconciled, AtRest, Agree
    <2> QED
      BY <2>1 DEF StorefrontInductive, Types, StorefrontInv
  <1> QED
    BY <1>1, StorefrontInductiveHolds, PTL


-----------------------------------------------------------------------------
(* The middleware of the service. *)

StageName ==
  {"auth", "csrf", "origin", "presentOrigin", "delivery", "limit", "idempotency",
   "validate"}

(* What the pipeline relies on in the stages of a route, whatever the route: *)
(* authentication comes first, no stage comes twice.                         *)
WellOrdered(chain) ==
  /\ chain \in Seq(StageName)
  /\ Len(chain) <= 5
  /\ \A i \in 1..Len(chain) : chain[i] = "auth" => i = 1
  /\ \A i, j \in 1..Len(chain) : chain[i] = chain[j] => i = j

\* A route's stages before its tables are joined.
Has(chain, stage) == \E i \in 1..Len(chain) : chain[i] = stage

SignedRoutes ==
  {"session", "sessions", "revokeSession", "logoutCurrent", "logout", "updateProfile",
   "changePassword", "requestEmailChange", "deactivateAccount", "addProduct",
   "updateProduct", "updateStatus", "updateInventory", "getCart", "listAddresses",
   "createAddress", "updateAddress", "deleteAddress", "setCartItem", "removeCartItem",
   "listWatchlist", "addWatchlist", "removeWatchlist", "listOrders", "getCheckoutQuote",
   "createOrder", "getSellerOperations", "updateOrderStatus", "createReview",
   "countUnreadNotifications", "listNotifications", "updateNotificationRead"}

OriginRoutes ==
  {"login", "requestEmailVerification", "confirmEmailVerification", "requestPasswordReset",
   "confirmPasswordReset", "confirmEmailChange", "refresh", "revokeSession",
   "logoutCurrent"}

\* Routes behind requireCsrf.
ProvedRoutes ==
  {"refresh", "revokeSession", "logoutCurrent", "logout", "updateProfile",
   "changePassword", "requestEmailChange", "deactivateAccount", "addProduct",
   "updateProduct", "updateStatus", "updateInventory", "createAddress", "updateAddress",
   "deleteAddress", "setCartItem", "removeCartItem", "addWatchlist", "removeWatchlist",
   "getCheckoutQuote", "createOrder", "updateOrderStatus", "createReview",
   "updateNotificationRead"}

KeyedRoutes == {"addProduct", "createOrder", "createReview"}

DeliveryRoutes ==
  {"requestEmailVerification", "confirmEmailVerification", "requestPasswordReset",
   "confirmPasswordReset", "confirmEmailChange", "requestEmailChange"}

ChainFacts(r, chain) ==
  /\ WellOrdered(chain)
  /\ Has(chain, "limit") <=> r \in LimitedRoutes
  /\ Has(chain, "validate") => r \in DOMAIN validated
  /\ Has(chain, "auth") <=> r \in SignedRoutes
  /\ Has(chain, "origin") \/ Has(chain, "presentOrigin") => r \in OriginRoutes
  /\ Has(chain, "csrf") => r \in ProvedRoutes
  /\ Has(chain, "idempotency") => r \in KeyedRoutes
  /\ Has(chain, "delivery") => r \in DeliveryRoutes

LEMMA LimitedNames ==
  LimitedRoutes =
    {"addUser", "login", "requestEmailVerification", "confirmEmailVerification",
     "requestPasswordReset", "confirmPasswordReset", "changePassword",
     "requestEmailChange", "confirmEmailChange", "deactivateAccount"}
  BY DEF LimitedRoutes, rateLimitCodes

LEMMA WellOrderedChains ==
  /\ WellOrdered(<<>>) 
  /\ WellOrdered(<<"validate">>)
  /\ WellOrdered(<<"limit", "validate">>)
  /\ WellOrdered(<<"limit", "presentOrigin", "validate">>)
  /\ WellOrdered(<<"origin", "csrf">>)
  /\ WellOrdered(confirmationStages)
  <1>1. WellOrdered(<<>>) 
    BY DEF WellOrdered, StageName
  <1>2. WellOrdered(<<"validate">>)
    BY DEF WellOrdered, StageName
  <1>3. WellOrdered(<<"limit", "validate">>)
    BY DEF WellOrdered, StageName
  <1>4. WellOrdered(<<"limit", "presentOrigin", "validate">>)
    BY DEF WellOrdered, StageName
  <1>5. WellOrdered(<<"origin", "csrf">>)
    BY DEF WellOrdered, StageName
  <1>6. WellOrdered(confirmationStages)
    BY DEF WellOrdered, StageName, confirmationStages
  <1> QED BY <1>1, <1>2, <1>3, <1>4, <1>5, <1>6

LEMMA WellOrderedSignedChains ==
  /\ WellOrdered(signed) /\ WellOrdered(signedQuery) /\ WellOrdered(guarded)
  /\ WellOrdered(guardedChange) /\ WellOrdered(keyedChange) /\ WellOrdered(limitedChange)
  /\ WellOrdered(<<"auth", "origin", "csrf", "validate">>)
  /\ WellOrdered(<<"auth", "origin", "csrf">>)
  /\ WellOrdered(<<"auth", "csrf", "delivery", "limit", "validate">>)
  <1>1. WellOrdered(signed)
    BY DEF WellOrdered, StageName, signed
  <1>2. WellOrdered(signedQuery)
    BY DEF WellOrdered, StageName, signedQuery
  <1>3. WellOrdered(guarded)
    BY DEF WellOrdered, StageName, guarded
  <1>4. WellOrdered(guardedChange)
    BY DEF WellOrdered, StageName, guardedChange
  <1>5. WellOrdered(keyedChange)
    BY DEF WellOrdered, StageName, keyedChange
  <1>6. WellOrdered(limitedChange)
    BY DEF WellOrdered, StageName, limitedChange
  <1>7. WellOrdered(<<"auth", "origin", "csrf", "validate">>)
    BY DEF WellOrdered, StageName
  <1>8. WellOrdered(<<"auth", "origin", "csrf">>)
    BY DEF WellOrdered, StageName
  <1>9. WellOrdered(<<"auth", "csrf", "delivery", "limit", "validate">>)
    BY DEF WellOrdered, StageName
  <1> QED BY <1>1, <1>2, <1>3, <1>4, <1>5, <1>6, <1>7, <1>8, <1>9

LEMMA HasInChains ==
  /\ \A s : ~ Has(<<>>, s)
  /\ \A s : Has(<<"validate">>, s) <=> s = "validate"
  /\ \A s : Has(<<"limit", "validate">>, s) <=> s \in {"limit", "validate"}
  /\ \A s : Has(<<"limit", "presentOrigin", "validate">>, s) <=>
             s \in {"limit", "presentOrigin", "validate"}
  /\ \A s : Has(<<"origin", "csrf">>, s) <=> s \in {"origin", "csrf"}
  /\ \A s : Has(confirmationStages, s) <=> s \in {"origin", "delivery", "limit", "validate"}
  BY DEF Has, confirmationStages

LEMMA HasInSignedChains ==
  /\ \A s : Has(signed, s) <=> s = "auth"
  /\ \A s : Has(signedQuery, s) <=> s \in {"auth", "validate"}
  /\ \A s : Has(guarded, s) <=> s \in {"auth", "csrf"}
  /\ \A s : Has(guardedChange, s) <=> s \in {"auth", "csrf", "validate"}
  /\ \A s : Has(keyedChange, s) <=> s \in {"auth", "csrf", "idempotency", "validate"}
  /\ \A s : Has(limitedChange, s) <=> s \in {"auth", "csrf", "limit", "validate"}
  /\ \A s : Has(<<"auth", "origin", "csrf", "validate">>, s) <=>
             s \in {"auth", "origin", "csrf", "validate"}
  /\ \A s : Has(<<"auth", "origin", "csrf">>, s) <=> s \in {"auth", "origin", "csrf"}
  /\ \A s : Has(<<"auth", "csrf", "delivery", "limit", "validate">>, s) <=>
             s \in {"auth", "csrf", "delivery", "limit", "validate"}
  BY DEF Has, signed, signedQuery, guarded, guardedChange, keyedChange, limitedChange

LEMMA PublicNames ==
  DOMAIN publicRoutes =
    {"getRoot", "getHealth", "getReady", "indexProducts", "productDetail", "sellerProfile",
     "listBySeller", "addUser", "login"}
  BY DEF publicRoutes

LEMMA TableNames ==
  /\ DOMAIN accountSecurityRoutes =
       {"requestEmailVerification", "confirmEmailVerification", "requestPasswordReset",
        "confirmPasswordReset", "confirmEmailChange"}
  /\ DOMAIN sessionRoutes =
       {"session", "refresh", "sessions", "revokeSession", "logoutCurrent", "logout"}
  /\ DOMAIN accountRoutes =
       {"updateProfile", "changePassword", "requestEmailChange", "deactivateAccount"}
  /\ DOMAIN productRoutes =
       {"addProduct", "updateProduct", "updateStatus", "updateInventory"}
  /\ DOMAIN buyerRoutes =
       {"getCart", "listAddresses", "createAddress", "updateAddress", "deleteAddress",
        "setCartItem", "removeCartItem", "listWatchlist", "addWatchlist",
        "removeWatchlist"}
  /\ DOMAIN orderRoutes =
       {"listOrders", "getCheckoutQuote", "createOrder", "getSellerOperations",
        "updateOrderStatus", "listReviews", "createReview", "countUnreadNotifications",
        "listNotifications", "updateNotificationRead"}
  BY DEF accountSecurityRoutes, sessionRoutes, accountRoutes, productRoutes, buyerRoutes,
     orderRoutes

LEMMA ValidatedNames ==
  DOMAIN validated =
    {"indexProducts", "productDetail", "sellerProfile", "listBySeller", "addUser", "login",
     "requestEmailVerification", "confirmEmailVerification", "requestPasswordReset",
     "confirmPasswordReset", "confirmEmailChange", "revokeSession", "updateProfile",
     "changePassword", "requestEmailChange", "deactivateAccount", "addProduct",
     "updateProduct", "updateStatus", "updateInventory", "createAddress", "updateAddress",
     "deleteAddress", "setCartItem", "removeCartItem", "addWatchlist", "removeWatchlist",
     "listOrders", "getCheckoutQuote", "createOrder", "getSellerOperations",
     "updateOrderStatus", "listReviews", "createReview", "listNotifications",
     "updateNotificationRead"}
  BY DEF validated

LEMMA PublicChains ==
  ASSUME NEW r \in DOMAIN publicRoutes
  PROVE  ChainFacts(r, publicRoutes[r])
  <1>1. CASE r \in {"getRoot", "getHealth", "getReady"}
    <2>1. publicRoutes[r] = <<>>
      BY <1>1 DEF publicRoutes
    <2> QED BY <1>1, <2>1, WellOrderedChains, HasInChains, LimitedNames
         DEF ChainFacts, SignedRoutes, OriginRoutes, ProvedRoutes, KeyedRoutes,
         DeliveryRoutes
  <1>2. CASE r \in {"indexProducts", "productDetail", "sellerProfile", "listBySeller"}
    <2>1. publicRoutes[r] = <<"validate">>
      BY <1>2 DEF publicRoutes
    <2> QED BY <1>2, <2>1, WellOrderedChains, HasInChains, LimitedNames, ValidatedNames
         DEF ChainFacts, SignedRoutes, OriginRoutes, ProvedRoutes, KeyedRoutes,
         DeliveryRoutes
  <1>3. CASE r = "addUser"
    <2>1. publicRoutes[r] = <<"limit", "validate">>
      BY <1>3 DEF publicRoutes
    <2> QED BY <1>3, <2>1, WellOrderedChains, HasInChains, LimitedNames, ValidatedNames
         DEF ChainFacts, SignedRoutes, OriginRoutes, ProvedRoutes, KeyedRoutes,
         DeliveryRoutes
  <1>4. CASE r = "login"
    <2>1. publicRoutes[r] = <<"limit", "presentOrigin", "validate">>
      BY <1>4 DEF publicRoutes
    <2> QED BY <1>4, <2>1, WellOrderedChains, HasInChains, LimitedNames, ValidatedNames
         DEF ChainFacts, SignedRoutes, OriginRoutes, ProvedRoutes, KeyedRoutes,
         DeliveryRoutes
  <1> QED BY <1>1, <1>2, <1>3, <1>4, PublicNames

LEMMA AccountSecurityChains ==
  ASSUME NEW r \in DOMAIN accountSecurityRoutes
  PROVE  ChainFacts(r, accountSecurityRoutes[r])
  <1>1. CASE r \in {"requestEmailVerification", "confirmEmailVerification",
                  "requestPasswordReset", "confirmPasswordReset", "confirmEmailChange"}
    <2>1. accountSecurityRoutes[r] = confirmationStages
      BY <1>1 DEF accountSecurityRoutes
    <2> QED BY <1>1, <2>1, WellOrderedChains, HasInChains, LimitedNames,
               ValidatedNames
         DEF ChainFacts, SignedRoutes, OriginRoutes, ProvedRoutes, KeyedRoutes,
         DeliveryRoutes
  <1> QED BY <1>1, TableNames

LEMMA SessionChains ==
  ASSUME NEW r \in DOMAIN sessionRoutes
  PROVE  ChainFacts(r, sessionRoutes[r])
  <1>1. CASE r \in {"session", "sessions"}
    <2>1. sessionRoutes[r] = signed
      BY <1>1 DEF sessionRoutes
    <2> QED BY <1>1, <2>1, WellOrderedSignedChains, HasInSignedChains, LimitedNames,
               ValidatedNames
         DEF ChainFacts, SignedRoutes, OriginRoutes, ProvedRoutes, KeyedRoutes,
         DeliveryRoutes
  <1>2. CASE r = "refresh"
    <2>1. sessionRoutes[r] = <<"origin", "csrf">>
      BY <1>2 DEF sessionRoutes
    <2> QED BY <1>2, <2>1, WellOrderedChains, HasInChains, LimitedNames,
               ValidatedNames
         DEF ChainFacts, SignedRoutes, OriginRoutes, ProvedRoutes, KeyedRoutes,
         DeliveryRoutes
  <1>3. CASE r = "revokeSession"
    <2>1. sessionRoutes[r] = <<"auth", "origin", "csrf", "validate">>
      BY <1>3 DEF sessionRoutes
    <2> QED BY <1>3, <2>1, WellOrderedSignedChains, HasInSignedChains, LimitedNames,
               ValidatedNames
         DEF ChainFacts, SignedRoutes, OriginRoutes, ProvedRoutes, KeyedRoutes,
         DeliveryRoutes
  <1>4. CASE r = "logoutCurrent"
    <2>1. sessionRoutes[r] = <<"auth", "origin", "csrf">>
      BY <1>4 DEF sessionRoutes
    <2> QED BY <1>4, <2>1, WellOrderedSignedChains, HasInSignedChains, LimitedNames,
               ValidatedNames
         DEF ChainFacts, SignedRoutes, OriginRoutes, ProvedRoutes, KeyedRoutes,
         DeliveryRoutes
  <1>5. CASE r = "logout"
    <2>1. sessionRoutes[r] = guarded
      BY <1>5 DEF sessionRoutes
    <2> QED BY <1>5, <2>1, WellOrderedSignedChains, HasInSignedChains, LimitedNames,
               ValidatedNames
         DEF ChainFacts, SignedRoutes, OriginRoutes, ProvedRoutes, KeyedRoutes,
         DeliveryRoutes
  <1> QED BY <1>1, <1>2, <1>3, <1>4, <1>5, TableNames

LEMMA AccountChains ==
  ASSUME NEW r \in DOMAIN accountRoutes
  PROVE  ChainFacts(r, accountRoutes[r])
  <1>1. CASE r = "updateProfile"
    <2>1. accountRoutes[r] = guardedChange
      BY <1>1 DEF accountRoutes
    <2> QED BY <1>1, <2>1, WellOrderedSignedChains, HasInSignedChains, LimitedNames,
               ValidatedNames
         DEF ChainFacts, SignedRoutes, OriginRoutes, ProvedRoutes, KeyedRoutes,
         DeliveryRoutes
  <1>2. CASE r \in {"changePassword", "deactivateAccount"}
    <2>1. accountRoutes[r] = limitedChange
      BY <1>2 DEF accountRoutes
    <2> QED BY <1>2, <2>1, WellOrderedSignedChains, HasInSignedChains, LimitedNames,
               ValidatedNames
         DEF ChainFacts, SignedRoutes, OriginRoutes, ProvedRoutes, KeyedRoutes,
         DeliveryRoutes
  <1>3. CASE r = "requestEmailChange"
    <2>1. accountRoutes[r] = <<"auth", "csrf", "delivery", "limit", "validate">>
      BY <1>3 DEF accountRoutes
    <2> QED BY <1>3, <2>1, WellOrderedSignedChains, HasInSignedChains, LimitedNames,
               ValidatedNames
         DEF ChainFacts, SignedRoutes, OriginRoutes, ProvedRoutes, KeyedRoutes,
         DeliveryRoutes
  <1> QED BY <1>1, <1>2, <1>3, TableNames

LEMMA ProductChains ==
  ASSUME NEW r \in DOMAIN productRoutes
  PROVE  ChainFacts(r, productRoutes[r])
  <1>1. CASE r = "addProduct"
    <2>1. productRoutes[r] = keyedChange
      BY <1>1 DEF productRoutes
    <2> QED BY <1>1, <2>1, WellOrderedSignedChains, HasInSignedChains, LimitedNames,
               ValidatedNames
         DEF ChainFacts, SignedRoutes, OriginRoutes, ProvedRoutes, KeyedRoutes,
         DeliveryRoutes
  <1>2. CASE r \in {"updateProduct", "updateStatus", "updateInventory"}
    <2>1. productRoutes[r] = guardedChange
      BY <1>2 DEF productRoutes
    <2> QED BY <1>2, <2>1, WellOrderedSignedChains, HasInSignedChains, LimitedNames,
               ValidatedNames
         DEF ChainFacts, SignedRoutes, OriginRoutes, ProvedRoutes, KeyedRoutes,
         DeliveryRoutes
  <1> QED BY <1>1, <1>2, TableNames

LEMMA BuyerChains ==
  ASSUME NEW r \in DOMAIN buyerRoutes
  PROVE  ChainFacts(r, buyerRoutes[r])
  <1>1. CASE r \in {"getCart", "listAddresses", "listWatchlist"}
    <2>1. buyerRoutes[r] = signed
      BY <1>1 DEF buyerRoutes
    <2> QED BY <1>1, <2>1, WellOrderedSignedChains, HasInSignedChains, LimitedNames,
               ValidatedNames
         DEF ChainFacts, SignedRoutes, OriginRoutes, ProvedRoutes, KeyedRoutes,
         DeliveryRoutes
  <1>2. CASE r \in {"createAddress", "updateAddress", "deleteAddress", "setCartItem",
                  "removeCartItem", "addWatchlist", "removeWatchlist"}
    <2>1. buyerRoutes[r] = guardedChange
      BY <1>2 DEF buyerRoutes
    <2> QED BY <1>2, <2>1, WellOrderedSignedChains, HasInSignedChains, LimitedNames,
               ValidatedNames
         DEF ChainFacts, SignedRoutes, OriginRoutes, ProvedRoutes, KeyedRoutes,
         DeliveryRoutes
  <1> QED BY <1>1, <1>2, TableNames

LEMMA OrderChains ==
  ASSUME NEW r \in DOMAIN orderRoutes
  PROVE  ChainFacts(r, orderRoutes[r])
  <1>1. CASE r \in {"listOrders", "getSellerOperations", "listNotifications"}
    <2>1. orderRoutes[r] = signedQuery
      BY <1>1 DEF orderRoutes
    <2> QED BY <1>1, <2>1, WellOrderedSignedChains, HasInSignedChains, LimitedNames,
               ValidatedNames
         DEF ChainFacts, SignedRoutes, OriginRoutes, ProvedRoutes, KeyedRoutes,
         DeliveryRoutes
  <1>2. CASE r \in {"getCheckoutQuote", "updateOrderStatus", "updateNotificationRead"}
    <2>1. orderRoutes[r] = guardedChange
      BY <1>2 DEF orderRoutes
    <2> QED BY <1>2, <2>1, WellOrderedSignedChains, HasInSignedChains, LimitedNames,
               ValidatedNames
         DEF ChainFacts, SignedRoutes, OriginRoutes, ProvedRoutes, KeyedRoutes,
         DeliveryRoutes
  <1>3. CASE r \in {"createOrder", "createReview"}
    <2>1. orderRoutes[r] = keyedChange
      BY <1>3 DEF orderRoutes
    <2> QED BY <1>3, <2>1, WellOrderedSignedChains, HasInSignedChains, LimitedNames,
               ValidatedNames
         DEF ChainFacts, SignedRoutes, OriginRoutes, ProvedRoutes, KeyedRoutes,
         DeliveryRoutes
  <1>4. CASE r = "listReviews"
    <2>1. orderRoutes[r] = <<"validate">>
      BY <1>4 DEF orderRoutes
    <2> QED BY <1>4, <2>1, WellOrderedChains, HasInChains, LimitedNames,
               ValidatedNames
         DEF ChainFacts, SignedRoutes, OriginRoutes, ProvedRoutes, KeyedRoutes,
         DeliveryRoutes
  <1>5. CASE r = "countUnreadNotifications"
    <2>1. orderRoutes[r] = signed
      BY <1>5 DEF orderRoutes
    <2> QED BY <1>5, <2>1, WellOrderedSignedChains, HasInSignedChains, LimitedNames,
               ValidatedNames
         DEF ChainFacts, SignedRoutes, OriginRoutes, ProvedRoutes, KeyedRoutes,
         DeliveryRoutes
  <1> QED BY <1>1, <1>2, <1>3, <1>4, <1>5, TableNames

LEMMA RoutedChains ==
  ASSUME NEW r \in Routes
  PROVE  ChainFacts(r, routed(r))
  BY PublicNames, TableNames, PublicChains, AccountSecurityChains, SessionChains,
     AccountChains, ProductChains, BuyerChains, OrderChains
  DEF Routes, routed

(* The stages of a whole request: the body and the tenant come first, the    *)
(* handler comes last, what routes.ts lists is between.                      *)
LEMMA StagesOf ==
  ASSUME NEW r \in Routes
  PROVE  /\ Len(Stages[r]) \in 3..8
         /\ Stages[r][1] = "json" /\ Stages[r][2] = "tenant"
         /\ \A i \in 1..Len(Stages[r]) :
              /\ Stages[r][i] = "handle" <=> i = Len(Stages[r])
              /\ Stages[r][i] = "json" <=> i = 1
              /\ Stages[r][i] = "tenant" <=> i = 2
              /\ Stages[r][i] = "auth" => i = 3
              /\ Stages[r][i] = "limit" => r \in LimitedRoutes
              /\ Stages[r][i] = "validate" => r \in DOMAIN validated
              /\ Stages[r][i] \in {"origin", "presentOrigin"} => r \in OriginRoutes
              /\ Stages[r][i] = "csrf" => r \in ProvedRoutes
              /\ Stages[r][i] = "idempotency" => r \in KeyedRoutes
              /\ Stages[r][i] = "delivery" => r \in DeliveryRoutes
         /\ \A i, j \in 1..Len(Stages[r]) : Stages[r][i] = Stages[r][j] => i = j
         /\ r \in LimitedRoutes =>
              \E i \in 1..Len(Stages[r]) : Stages[r][i] = "limit"
         /\ Stages[r][3] = "auth" <=> r \in SignedRoutes
  <1>1. PICK chain : chain = routed(r)
    OBVIOUS
  <1>2. ChainFacts(r, chain)
    BY <1>1, RoutedChains
  <1>3. chain \in Seq(StageName) /\ Len(chain) \in 0..5
    <2>1. chain \in Seq(StageName) /\ Len(chain) <= 5
      BY <1>2 DEF ChainFacts, WellOrdered
    <2>2. Len(chain) \in Nat
      BY <2>1
    <2>3. \A n \in Nat : n <= 5 => n \in 0..5
      OBVIOUS
    <2> QED BY <2>1, <2>2, <2>3, Zenon
  <1>4. PICK stages : stages = <<"json", "tenant">> \o chain \o <<"handle">>
    OBVIOUS
  <1>5. Stages[r] = stages
    BY <1>1, <1>4 DEF Stages
  <1>6. /\ Len(stages) = Len(chain) + 3
        /\ stages[1] = "json" /\ stages[2] = "tenant"
        /\ \A i \in 3..Len(chain) + 2 : stages[i] = chain[i - 2]
        /\ stages[Len(chain) + 3] = "handle"
    BY <1>3, <1>4
  <1>7. \A i \in 1..Len(chain) : chain[i] \in StageName
    BY <1>3
  <1>8. stages[3] \in StageName \cup {"handle"}
    BY <1>3, <1>6, <1>7
  <1>9. ASSUME NEW i \in 1..Len(stages)
        PROVE  /\ i \in 3..Len(chain) + 2 => stages[i] \in StageName
               /\ i = 1 \/ i = 2 \/ i = Len(chain) + 3 \/ i \in 3..Len(chain) + 2
    BY <1>3, <1>6, <1>7
  <1>10. ASSUME NEW i \in 1..Len(stages)
        PROVE  /\ stages[i] = "handle" <=> i = Len(stages)
               /\ stages[i] = "json" <=> i = 1
               /\ stages[i] = "tenant" <=> i = 2
    BY <1>3, <1>6, <1>9 DEF StageName
  <1>11. ASSUME NEW i \in 3..Len(chain) + 2
         PROVE  Has(chain, stages[i]) /\ (stages[i] = "auth" => i = 3)
    BY <1>2, <1>3, <1>6 DEF ChainFacts, WellOrdered, Has
  <1>12. ASSUME NEW i \in 1..Len(stages)
         PROVE  /\ stages[i] = "auth" => i = 3
                /\ stages[i] = "limit" => r \in LimitedRoutes
                /\ stages[i] = "validate" => r \in DOMAIN validated
                /\ stages[i] \in {"origin", "presentOrigin"} => r \in OriginRoutes
                /\ stages[i] = "csrf" => r \in ProvedRoutes
                /\ stages[i] = "idempotency" => r \in KeyedRoutes
                /\ stages[i] = "delivery" => r \in DeliveryRoutes
    <2>1. CASE i \in 3..Len(chain) + 2
      BY <1>2, <1>11, <2>1 DEF ChainFacts
    <2>2. CASE stages[i] \in {"json", "tenant", "handle"}
      BY <2>2
    <2> QED BY <1>6, <1>9, <2>1, <2>2
  <1>13. ASSUME NEW i \in 1..Len(stages), NEW j \in 1..Len(stages), stages[i] = stages[j]
         PROVE  i = j
    <2>1. CASE i \in 3..Len(chain) + 2 /\ j \in 3..Len(chain) + 2
      BY <1>2, <1>3, <1>6, <1>13, <2>1 DEF ChainFacts, WellOrdered
    <2>2. CASE ~ (i \in 3..Len(chain) + 2 /\ j \in 3..Len(chain) + 2)
      BY <1>3, <1>6, <1>9, <1>10, <1>13, <2>2
    <2> QED BY <2>1, <2>2
  <1>14. ASSUME r \in LimitedRoutes
         PROVE  \E i \in 1..Len(stages) : stages[i] = "limit"
    <2>1. PICK i \in 1..Len(chain) : chain[i] = "limit"
      BY <1>2, <1>14 DEF ChainFacts, Has
    <2>2. i + 2 \in 3..Len(chain) + 2 /\ stages[i + 2] = "limit"
      BY <1>3, <1>6, <2>1
    <2> QED BY <1>3, <1>6, <2>2
  <1>15. stages[3] = "auth" <=> r \in SignedRoutes
    <2>1. stages[3] = "auth" => Has(chain, "auth")
      <3>1. CASE Len(chain) = 0
        BY <1>3, <1>6, <3>1
      <3>2. CASE Len(chain) > 0
        BY <1>3, <1>6, <3>2 DEF Has
      <3> QED BY <1>3, <3>1, <3>2
    <2>2. Has(chain, "auth") => stages[3] = "auth"
      BY <1>2, <1>3, <1>6 DEF ChainFacts, WellOrdered, Has
    <2> QED BY <1>2, <2>1, <2>2 DEF ChainFacts
  <1>16. Len(stages) \in 3..8
    BY <1>3, <1>6
  <1> QED BY <1>5, <1>6, <1>10, <1>12, <1>13, <1>14, <1>15, <1>16
-----------------------------------------------------------------------------
(* A request between its departure and its answer, the stages behind it, and *)
(* the session and the caller it acts for.                                   *)

Open(r) == r.stage > 0 /\ r.answer = NoRequest.answer

HasPassed(r, stage) == \E i \in 1..r.stage - 1 : Stages[r.route][i] = stage

Acting(r) == IF r.session # Absent THEN r.session ELSE r.cookies.refresh

CallerOf(r) == IF r.session = Absent THEN Absent ELSE owner[r.session]

(* What a request has established at its stage.                              *)
RequestOK(r) ==
  /\ r.stage > 0 => r.route \in Routes
  /\ Open(r) => r.stage <= Len(Stages[r.route])
  /\ ~ Open(r) => r.session = Absent
  /\ Open(r) /\ r.stage > 2 => r.tenant \in Tenants
  /\ Open(r) => (r.session # Absent <=> r.stage > 3 /\ r.route \in SignedRoutes)
  /\ r.session # Absent =>
       r.session \in Sessions /\ owner[r.session] \in Users
       /\ Home[owner[r.session]] = r.tenant
  /\ Open(r) /\ HasPassed(r, "csrf") => Acting(r) # Absent /\ Acting(r) = r.header

RequestsOK == \A q \in Requests : RequestOK(requests[q])

(* The requests of one caller between the limiter and the handler: the hits  *)
(* of the caller pay for these and for the handlers that ran.                *)
Counted(r, c) ==
  Open(r) /\ r.route = c[1] /\ HasPassed(r, "limit") /\ CallerOf(r) = c[2]

Within(c) == {q \in Requests : Counted(requests[q], c)}

BudgetOf(c) ==
  IF c[2] = Absent THEN <<c[1], Absent, Absent>> ELSE <<c[1], Home[c[2]], c[2]>>

BudgetsOK ==
  \A c \in Callers :
    /\ attempts[c] + Cardinality(Within(c)) <= hits[BudgetOf(c)]
    /\ attempts[c] + Cardinality(Within(c)) <= Limit

ApiInductive == ApiTypeOK /\ RequestsOK /\ BudgetsOK

-----------------------------------------------------------------------------
Codes ==
  AppErrorExampleCode
  \cup {"OK", "INVALID_JSON_PAYLOAD", "INTERNAL_SERVER_ERROR", "NOT_READY"}

LEMMA AppErrors ==
  \A status \in 200..503, codes \in SUBSET Codes : appErrors(status, codes) \subseteq Answers
  BY DEF appErrors, Answers, Codes

LEMMA NoRequestType ==
  /\ NoRequest \in Request
  /\ NoRequest.stage = 0 /\ NoRequest.session = Absent /\ NoRequest.route = Absent
  /\ NoRequest.answer = <<0, Absent>> /\ NoRequest.answer \notin Answers
  /\ RequestOK(NoRequest)
  /\ \A c : ~ Counted(NoRequest, c)
  <1>1. NoCookies \in Cookies
    BY DEF NoCookies, Cookies
  <1>2. NoRequest \in Request
    BY <1>1 DEF NoRequest, Request
  <1>3. NoRequest.answer = <<0, Absent>> /\ NoRequest.answer \notin Answers
    BY DEF NoRequest, Answers
  <1>4. NoRequest.stage = 0 /\ NoRequest.session = Absent /\ NoRequest.route = Absent
    BY DEF NoRequest
  <1> QED BY <1>2, <1>3, <1>4 DEF RequestOK, Counted, Open

(* An answer ends a request, and keeps none of what it established.          *)
LEMMA AnsweredOK ==
  ASSUME ApiTypeOK, NEW q \in Requests, requests[q].route \in Routes,
         NEW a \in Answers, NEW change \in Sessions \cup {"keep", "clear"}
  PROVE  /\ Answered(q, a, change) \in Request
         /\ Answered(q, a, change).answer = a
         /\ Answered(q, a, change).change = change
         /\ Answered(q, a, change).session = Absent
         /\ ~ Open(Answered(q, a, change))
         /\ RequestOK(Answered(q, a, change))
         /\ \A c : ~ Counted(Answered(q, a, change), c)
  <1>1. requests[q] \in Request
    BY DEF ApiTypeOK
  <1>2. PICK s : s = Answered(q, a, change)
    OBVIOUS
  <1>3. s = [NoRequest EXCEPT !.route = requests[q].route, !.stage = requests[q].stage,
                              !.answer = a, !.change = change]
    BY <1>2 DEF Answered
  <1>4. s \in Request
    BY <1>1, <1>3, NoRequestType DEF Request
  <1>5. /\ s.answer = a /\ s.change = change /\ s.session = Absent
        /\ s.route = requests[q].route
    BY <1>3, NoRequestType DEF NoRequest
  <1>6. ~ Open(s)
    BY <1>5, NoRequestType DEF Open
  <1>7. RequestOK(s)
    BY <1>5, <1>6 DEF RequestOK
  <1>8. \A c : ~ Counted(s, c)
    BY <1>6 DEF Counted
  <1> QED BY <1>2, <1>4, <1>5, <1>6, <1>7, <1>8

LEMMA AtStage ==
  ASSUME ApiTypeOK, RequestsOK, NEW q \in Requests, NEW stage, At(q, stage)
  PROVE  /\ requests[q] \in Request /\ RequestOK(requests[q]) /\ Open(requests[q])
         /\ requests[q].route \in Routes
         /\ requests[q].stage \in 1..Len(Stages[requests[q].route])
         /\ Stages[requests[q].route][requests[q].stage] = stage
  <1>1. requests[q] \in Request /\ RequestOK(requests[q])
    BY DEF ApiTypeOK, RequestsOK
  <1>2. Open(requests[q]) /\ Stages[requests[q].route][requests[q].stage] = stage
    BY DEF At, StageOf, Open
  <1>3. requests[q].stage \in Nat
    BY <1>1 DEF Request
  <1>4. requests[q].route \in Routes /\ requests[q].stage > 0
        /\ requests[q].stage <= Len(Stages[requests[q].route])
    BY <1>1, <1>2 DEF RequestOK, Open
  <1>5. Len(Stages[requests[q].route]) \in Nat
    BY <1>4, StagesOf
  <1> QED BY <1>1, <1>2, <1>3, <1>4, <1>5

(* A request that passes a stage other than the last three keeps what it     *)
(* established.                                                              *)
LEMMA PassingOK ==
  ASSUME ApiTypeOK, RequestsOK, NEW q \in Requests, NEW stage, At(q, stage),
         stage \notin {"tenant", "auth", "csrf", "handle"}
  PROVE  /\ Passing(q) \in Request
         /\ Passing(q).answer = NoRequest.answer
         /\ RequestOK(Passing(q))
         /\ stage # "limit" =>
              \A c : Counted(Passing(q), c) => Counted(requests[q], c)
  <1>1. PICK r : r = requests[q]
    OBVIOUS
  <1>2. PICK s : s = [r EXCEPT !.stage = @ + 1]
    OBVIOUS
  <1>3. Passing(q) = s
    BY <1>1, <1>2 DEF Passing
  <1>4. /\ r \in Request /\ RequestOK(r) /\ Open(r) /\ r.route \in Routes
        /\ r.stage \in 1..Len(Stages[r.route]) /\ Stages[r.route][r.stage] = stage
    BY <1>1, AtStage
  <1>5. /\ Len(Stages[r.route]) \in 3..8 /\ r.stage # Len(Stages[r.route])
        /\ r.stage # 2
        /\ r.stage = 3 => r.route \notin SignedRoutes
    BY <1>4, StagesOf
  <1>6. s \in Request
    <2>1. \A n \in 3..8 : \A i \in 1..n : i + 1 \in 0..12
      OBVIOUS
    <2>2. r.stage + 1 \in 0..12
      BY <1>4, <1>5, <2>1
    <2> QED BY <1>2, <1>4, <2>2 DEF Request
  <1>7. /\ s.stage = r.stage + 1 /\ s.route = r.route /\ s.answer = r.answer
        /\ s.tenant = r.tenant /\ s.session = r.session /\ s.header = r.header
        /\ s.cookies = r.cookies
    BY <1>2, <1>4 DEF Request
  <1>8. Open(s) /\ Acting(s) = Acting(r) /\ CallerOf(s) = CallerOf(r)
        /\ s.answer = NoRequest.answer
    BY <1>4, <1>7 DEF Open, Acting, CallerOf
  <1>9. \A x : HasPassed(s, x) => HasPassed(r, x) \/ x = stage
    BY <1>4, <1>7 DEF HasPassed
  <1>10. RequestOK(s)
    <2>1. s.stage <= Len(Stages[s.route])
      BY <1>4, <1>5, <1>7
    <2>2. s.session # Absent <=> s.stage > 3 /\ s.route \in SignedRoutes
      BY <1>4, <1>5, <1>7 DEF RequestOK
    <2>3. s.stage > 2 => s.tenant \in Tenants
      BY <1>4, <1>5, <1>7 DEF RequestOK
    <2>4. HasPassed(s, "csrf") => Acting(s) # Absent /\ Acting(s) = s.header
      BY <1>4, <1>7, <1>8, <1>9 DEF RequestOK
    <2> QED BY <1>4, <1>7, <1>8, <2>1, <2>2, <2>3, <2>4 DEF RequestOK
  <1>11. stage # "limit" => \A c : Counted(s, c) => Counted(r, c)
    BY <1>4, <1>7, <1>8, <1>9 DEF Counted
  <1> QED BY <1>1, <1>3, <1>6, <1>8, <1>10, <1>11

LEMMA TenantOK ==
  ASSUME ApiTypeOK, RequestsOK, NEW q \in Requests, At(q, "tenant"), NEW t \in Tenants
  PROVE  LET s == [Passing(q) EXCEPT !.tenant = t]
         IN /\ s \in Request /\ s.answer = NoRequest.answer /\ RequestOK(s)
            /\ \A c : Counted(s, c) => Counted(requests[q], c)
  <1>1. PICK r : r = requests[q]
    OBVIOUS
  <1>2. PICK s : s = [[r EXCEPT !.stage = @ + 1] EXCEPT !.tenant = t]
    OBVIOUS
  <1>3. [Passing(q) EXCEPT !.tenant = t] = s
    BY <1>1, <1>2 DEF Passing
  <1>4. /\ r \in Request /\ RequestOK(r) /\ Open(r) /\ r.route \in Routes
        /\ r.stage \in 1..Len(Stages[r.route]) /\ Stages[r.route][r.stage] = "tenant"
    BY <1>1, AtStage
  <1>5. Len(Stages[r.route]) \in 3..8 /\ r.stage = 2
    BY <1>4, StagesOf
  <1>6. s \in Request
    <2>1. PICK p : p = [r EXCEPT !.stage = @ + 1]
      OBVIOUS
    <2>2. p \in Request
      BY <1>4, <1>5, <2>1 DEF Request
    <2>3. s = [p EXCEPT !.tenant = t]
      BY <1>2, <2>1
    <2> QED BY <2>2, <2>3 DEF Request
  <1>7. /\ s.stage = 3 /\ s.route = r.route /\ s.answer = r.answer
        /\ s.tenant = t /\ s.session = r.session
    BY <1>2, <1>4, <1>5 DEF Request
  <1>8. Open(s) /\ s.answer = NoRequest.answer
    BY <1>4, <1>7 DEF Open
  <1>9. ~ HasPassed(s, "csrf") /\ ~ HasPassed(s, "limit")
    BY <1>4, <1>7, StagesOf DEF HasPassed
  <1>10. s.session = Absent
    BY <1>4, <1>5, <1>7 DEF RequestOK
  <1>11. RequestOK(s)
    <2>1. s.stage <= Len(Stages[s.route])
      <3>1. \A n \in 3..8 : 3 <= n
        OBVIOUS
      <3> QED BY <1>5, <1>7, <3>1
    <2>2. s.tenant \in Tenants /\ ~ (s.stage > 3)
      BY <1>7
    <2> QED BY <1>4, <1>7, <1>8, <1>9, <1>10, <2>1, <2>2 DEF RequestOK
  <1> QED BY <1>3, <1>6, <1>8, <1>9, <1>11 DEF Counted

LEMMA AuthOK ==
  ASSUME ApiTypeOK, RequestsOK, NEW q \in Requests, At(q, "auth"), authenticateCookie(q)
  PROVE  LET s == [Passing(q) EXCEPT !.session = requests[q].cookies.access]
         IN /\ s \in Request /\ s.answer = NoRequest.answer /\ RequestOK(s)
            /\ \A c : Counted(s, c) => Counted(requests[q], c)
  <1>1. PICK r : r = requests[q]
    OBVIOUS
  <1>2. PICK s : s = [[r EXCEPT !.stage = @ + 1] EXCEPT !.session = r.cookies.access]
    OBVIOUS
  <1>3. [Passing(q) EXCEPT !.session = requests[q].cookies.access] = s
    BY <1>1, <1>2 DEF Passing
  <1>4. /\ r \in Request /\ RequestOK(r) /\ Open(r) /\ r.route \in Routes
        /\ r.stage \in 1..Len(Stages[r.route]) /\ Stages[r.route][r.stage] = "auth"
    BY <1>1, AtStage
  <1>5. /\ Len(Stages[r.route]) \in 3..8 /\ r.stage = 3 /\ r.route \in SignedRoutes
        /\ r.stage # Len(Stages[r.route])
    BY <1>4, StagesOf
  <1>6. /\ r.cookies.access \in live
        /\ Home[owner[r.cookies.access]] = r.tenant
    BY <1>1 DEF authenticateCookie
  <1>7. r.cookies.access \in Sessions /\ owner[r.cookies.access] \in Users
    BY <1>6 DEF ApiTypeOK
  <1>8. s \in Request
    <2>1. PICK p : p = [r EXCEPT !.stage = @ + 1]
      OBVIOUS
    <2>2. p \in Request
      BY <1>4, <1>5, <2>1 DEF Request
    <2>3. s = [p EXCEPT !.session = r.cookies.access]
      BY <1>2, <2>1
    <2> QED BY <1>7, <2>2, <2>3 DEF Request
  <1>9. /\ s.stage = 4 /\ s.route = r.route /\ s.answer = r.answer
        /\ s.tenant = r.tenant /\ s.session = r.cookies.access
    BY <1>2, <1>4, <1>5 DEF Request
  <1>10. Open(s) /\ s.answer = NoRequest.answer
    BY <1>4, <1>9 DEF Open
  <1>11. ~ HasPassed(s, "csrf") /\ ~ HasPassed(s, "limit")
    <2>1. ASSUME NEW i \in 1..3
          PROVE  Stages[r.route][i] \in {"json", "tenant", "auth"}
      BY <1>4, <1>5, StagesOf
    <2> QED BY <1>9, <2>1 DEF HasPassed
  <1>12. r.cookies.access # Absent
    BY <1>7, ApiAssumption
  <1>13. RequestOK(s)
    <2>1. s.stage <= Len(Stages[s.route]) /\ s.stage > 3
      <3>1. \A n \in 3..8 : n # 3 => 4 <= n
        OBVIOUS
      <3>2. 4 <= Len(Stages[r.route])
        BY <1>5, <3>1
      <3>3. 4 <= Len(Stages[s.route])
        BY <1>9, <3>2
      <3>4. s.stage > 3
        BY <1>9
      <3> QED BY <1>9, <3>3, <3>4
    <2>2. s.tenant \in Tenants
      BY <1>6, <1>7, <1>9, ApiAssumption
    <2> QED BY <1>4, <1>5, <1>6, <1>7, <1>9, <1>10, <1>11, <1>12, <2>1, <2>2
         DEF RequestOK
  <1> QED BY <1>3, <1>8, <1>10, <1>11, <1>13 DEF Counted

(* The proof is of the session the request acts for, now and from here on.   *)
LEMMA CsrfOK ==
  ASSUME ApiTypeOK, RequestsOK, NEW q \in Requests, At(q, "csrf"), csrfProof(q)
  PROVE  /\ Passing(q) \in Request
         /\ Passing(q).answer = NoRequest.answer
         /\ RequestOK(Passing(q))
         /\ \A c : Counted(Passing(q), c) => Counted(requests[q], c)
  <1>1. PICK r : r = requests[q]
    OBVIOUS
  <1>2. PICK s : s = [r EXCEPT !.stage = @ + 1]
    OBVIOUS
  <1>3. Passing(q) = s
    BY <1>1, <1>2 DEF Passing
  <1>4. /\ r \in Request /\ RequestOK(r) /\ Open(r) /\ r.route \in Routes
        /\ r.stage \in 1..Len(Stages[r.route]) /\ Stages[r.route][r.stage] = "csrf"
    BY <1>1, AtStage
  <1>5. /\ Len(Stages[r.route]) \in 3..8 /\ r.stage # Len(Stages[r.route])
        /\ r.stage # 2
        /\ r.stage = 3 => r.route \notin SignedRoutes
    BY <1>4, StagesOf
  <1>6. s \in Request
    <2>1. \A n \in 3..8 : \A i \in 1..n : i + 1 \in 0..12
      OBVIOUS
    <2>2. r.stage + 1 \in 0..12
      BY <1>4, <1>5, <2>1
    <2> QED BY <1>2, <1>4, <2>2 DEF Request
  <1>7. /\ s.stage = r.stage + 1 /\ s.route = r.route /\ s.answer = r.answer
        /\ s.tenant = r.tenant /\ s.session = r.session /\ s.header = r.header
        /\ s.cookies = r.cookies
    BY <1>2, <1>4 DEF Request
  <1>8. Open(s) /\ Acting(s) = Acting(r) /\ CallerOf(s) = CallerOf(r)
        /\ s.answer = NoRequest.answer
    BY <1>4, <1>7 DEF Open, Acting, CallerOf
  <1>9. \A x : HasPassed(s, x) => HasPassed(r, x) \/ x = "csrf"
    BY <1>4, <1>7 DEF HasPassed
  <1>10. Acting(s) # Absent /\ Acting(s) = s.header
    BY <1>1, <1>7, <1>8 DEF csrfProof, ActingSession, Acting
  <1>11. RequestOK(s)
    <2>1. s.stage <= Len(Stages[s.route])
      BY <1>4, <1>5, <1>7
    <2>2. s.session # Absent <=> s.stage > 3 /\ s.route \in SignedRoutes
      BY <1>4, <1>5, <1>7 DEF RequestOK
    <2>3. s.stage > 2 => s.tenant \in Tenants
      BY <1>4, <1>5, <1>7 DEF RequestOK
    <2> QED BY <1>4, <1>7, <1>8, <1>10, <2>1, <2>2, <2>3 DEF RequestOK
  <1>12. \A c : Counted(s, c) => Counted(r, c)
    BY <1>4, <1>7, <1>8, <1>9 DEF Counted
  <1> QED BY <1>1, <1>3, <1>6, <1>8, <1>11, <1>12

(* A limiter counts for the one caller whose handler it lets through.        *)
LEMMA LimitedCaller ==
  ASSUME ApiTypeOK, RequestsOK, NEW q \in Requests, At(q, "limit")
  PROVE  LET c == <<requests[q].route, CallerOf(requests[q])>>
         IN /\ c \in Callers /\ BudgetOf(c) = rateLimitKey(q) /\ BudgetOf(c) \in Budgets
            /\ ~ Counted(requests[q], c)
            /\ \A d \in Callers :
                 d # c /\ Counted(Passing(q), d) => Counted(requests[q], d)
  <1>1. PICK r : r = requests[q]
    OBVIOUS
  <1>2. PICK s : s = [r EXCEPT !.stage = @ + 1]
    OBVIOUS
  <1>3. Passing(q) = s
    BY <1>1, <1>2 DEF Passing
  <1>4. /\ r \in Request /\ RequestOK(r) /\ Open(r) /\ r.route \in Routes
        /\ r.stage \in 1..Len(Stages[r.route]) /\ Stages[r.route][r.stage] = "limit"
    BY <1>1, AtStage
  <1>5. r.route \in LimitedRoutes
    BY <1>4, StagesOf
  <1>6. PICK c : c = <<r.route, CallerOf(r)>>
    OBVIOUS
  <1>7. CallerOf(r) \in Users \cup {Absent}
    BY <1>4 DEF CallerOf, RequestOK
  <1>8. c \in Callers /\ c[1] = r.route /\ c[2] = CallerOf(r)
    BY <1>5, <1>6, <1>7 DEF Callers
  <1>9. BudgetOf(c) = rateLimitKey(q) /\ BudgetOf(c) \in Budgets
    <2>1. CASE r.session = Absent
      BY <1>1, <1>5, <1>8, <2>1 DEF BudgetOf, CallerOf, rateLimitKey, Budgets
    <2>2. CASE r.session # Absent
      <3>1. /\ owner[r.session] \in Users /\ Home[owner[r.session]] = r.tenant
            /\ owner[r.session] # Absent
        BY <1>4, <2>2, ApiAssumption DEF RequestOK
      <3>2. c[2] = owner[r.session]
        BY <1>8, <2>2 DEF CallerOf
      <3>3. BudgetOf(c) = <<r.route, r.tenant, owner[r.session]>>
        BY <1>8, <3>1, <3>2 DEF BudgetOf
      <3>4. rateLimitKey(q) = <<r.route, r.tenant, owner[r.session]>>
        BY <1>1, <2>2 DEF rateLimitKey
      <3>5. r.tenant \in Tenants
        BY <3>1, ApiAssumption
      <3> QED BY <1>5, <3>1, <3>3, <3>4, <3>5 DEF Budgets
    <2> QED BY <2>1, <2>2
  <1>10. ~ HasPassed(r, "limit")
    <2>1. /\ Len(Stages[r.route]) \in 3..8
          /\ \A i, j \in 1..Len(Stages[r.route]) : Stages[r.route][i] = Stages[r.route][j] => i = j
      BY <1>4, StagesOf
    <2> QED BY <1>4, <2>1 DEF HasPassed
  <1>11. ~ Counted(r, c)
    BY <1>10 DEF Counted
  <1>12. ASSUME NEW d \in Callers, Counted(s, d)
         PROVE  d = c
    <2>1. s.route = r.route /\ s.session = r.session
      BY <1>2, <1>4 DEF Request
    <2>2. d[1] = r.route /\ d[2] = CallerOf(r)
      BY <1>12, <2>1 DEF Counted, CallerOf
    <2>3. d = <<d[1], d[2]>>
      BY DEF Callers
    <2> QED BY <1>6, <2>2, <2>3
  <1> QED BY <1>1, <1>3, <1>6, <1>8, <1>9, <1>11, <1>12
-----------------------------------------------------------------------------
(* Steps: most actions change one request and nothing else.                  *)

LEMMA WithinFinite ==
  \A c : /\ IsFiniteSet(Within(c)) /\ Cardinality(Within(c)) \in Nat
  BY ApiAssumption, FS_Subset, FS_CardinalityType DEF Within

LEMMA OneMore ==
  ASSUME NEW w, NEW x, IsFiniteSet(w)
  PROVE  IsFiniteSet(w \cup {x}) /\ Cardinality(w \cup {x}) <= Cardinality(w) + 1
  <1>1. Cardinality(w) \in Nat
    BY FS_CardinalityType
  <1>2. PICK n \in Nat : n = Cardinality(w)
    BY <1>1
  <1>3. IsFiniteSet(w \cup {x}) /\ Cardinality(w \cup {x}) \in {n, n + 1}
    BY <1>2, FS_AddElement
  <1>4. \A m \in {n, n + 1} : m <= n + 1
    OBVIOUS
  <1> QED BY <1>2, <1>3, <1>4

LEMMA OneLess ==
  ASSUME NEW w, NEW x \in w, IsFiniteSet(w)
  PROVE  /\ Cardinality(w \ {x}) \in Nat /\ Cardinality(w) \in Nat
         /\ Cardinality(w \ {x}) + 1 = Cardinality(w)
  <1>1. Cardinality(w) \in Nat
    BY FS_CardinalityType
  <1>2. PICK n \in Nat : n = Cardinality(w)
    BY <1>1
  <1>3. IsFiniteSet(w \ {x}) /\ Cardinality(w \ {x}) = n - 1
    BY <1>2, FS_RemoveElement
  <1>4. Cardinality(w \ {x}) \in Nat
    BY <1>3, FS_CardinalityType
  <1> QED BY <1>2, <1>3, <1>4

Others == <<jar, live, owner, closed, hits, attempts, clicks>>

(* A session that was opened keeps its user, so that what a request          *)
(* established stays true whatever other requests do.                        *)
OwnersKept == \A x \in Sessions : owner[x] # Absent => owner'[x] = owner[x]

LEMMA RequestKept ==
  ASSUME NEW r, RequestOK(r), OwnersKept
  PROVE  /\ RequestOK(r)'
         /\ \A c : Counted(r, c)' <=> Counted(r, c)
  <1>1. CASE r.session = Absent
    BY <1>1 DEF RequestOK, Open, HasPassed, Acting, Counted, CallerOf
  <1>2. CASE r.session # Absent
    <2>1. owner'[r.session] = owner[r.session]
      BY <1>2, ApiAssumption DEF RequestOK, OwnersKept
    <2> QED BY <1>2, <2>1 DEF RequestOK, Open, HasPassed, Acting, Counted, CallerOf
  <1> QED BY <1>1, <1>2

LEMMA RequestsMove ==
  ASSUME ApiInductive, NEW q \in Requests, NEW s \in Request, RequestOK(s),
         requests' = [requests EXCEPT ![q] = s], OwnersKept
  PROVE  /\ requests' \in [Requests -> Request]
         /\ RequestsOK'
         /\ \A c : Counted(requests[q], c) \/ ~ Counted(s, c) =>
              Within(c)' \subseteq Within(c)
         /\ \A c : ~ Counted(s, c) => q \notin Within(c)'
  <1>1. requests \in [Requests -> Request]
    BY DEF ApiInductive, ApiTypeOK
  <1>2. requests' \in [Requests -> Request]
    BY <1>1
  <1>3. requests'[q] = s /\ \A x \in Requests \ {q} : requests'[x] = requests[x]
    BY <1>1
  <1>4. ASSUME NEW x \in Requests
        PROVE  /\ RequestOK(requests[x])'
               /\ \A c : Counted(requests[x], c)' <=>
                    IF x = q THEN Counted(s, c) ELSE Counted(requests[x], c)
    <2>1. PICK r : r = requests[x]
      OBVIOUS
    <2>2. RequestOK(r)
      BY <2>1 DEF ApiInductive, RequestsOK
    <2>3. CASE x = q
      <3>1. RequestOK(s)' /\ \A c : Counted(s, c)' <=> Counted(s, c)
        BY RequestKept
      <3>2. requests'[x] = s
        BY <1>3, <2>3
      <3>3. RequestOK(requests[x])'
        BY <3>1, <3>2 DEF RequestOK, Open, HasPassed, Acting
      <3>4. \A c : Counted(requests[x], c)' <=> Counted(s, c)'
        BY <3>2 DEF Counted, Open, HasPassed, CallerOf
      <3> QED BY <2>3, <3>1, <3>3, <3>4
    <2>4. CASE x # q
      <3>1. RequestOK(r)' /\ \A c : Counted(r, c)' <=> Counted(r, c)
        BY <2>2, RequestKept
      <3>2. requests'[x] = r
        BY <1>3, <2>1, <2>4
      <3>3. RequestOK(requests[x])'
        BY <3>1, <3>2 DEF RequestOK, Open, HasPassed, Acting
      <3>4. \A c : Counted(requests[x], c)' <=> Counted(r, c)'
        BY <3>2 DEF Counted, Open, HasPassed, CallerOf
      <3> QED BY <2>1, <2>4, <3>1, <3>3, <3>4
    <2> QED BY <2>3, <2>4
  <1>5. \A c : Counted(requests[q], c) \/ ~ Counted(s, c) =>
              Within(c)' \subseteq Within(c)
    BY <1>4 DEF Within
  <1>6. \A c : ~ Counted(s, c) => q \notin Within(c)'
    BY <1>4 DEF Within
  <1> QED BY <1>2, <1>4, <1>5, <1>6 DEF RequestsOK

LEMMA BudgetTypes ==
  ASSUME ApiTypeOK, NEW c \in Callers
  PROVE  /\ BudgetOf(c) \in Budgets /\ hits[BudgetOf(c)] \in Nat
         /\ attempts[c] \in Nat /\ Limit \in Nat
  <1>1. BudgetOf(c) \in Budgets
    BY ApiAssumption DEF BudgetOf, Callers, Budgets
  <1>2. hits[BudgetOf(c)] \in Nat
    BY <1>1 DEF ApiTypeOK
  <1> QED BY <1>1, <1>2, ApiAssumption DEF ApiTypeOK

LEMMA BudgetsShrink ==
  ASSUME ApiInductive, UNCHANGED <<hits, attempts>>, \A c : Within(c)' \subseteq Within(c)
  PROVE  BudgetsOK'
  <1>1. ASSUME NEW c \in Callers
        PROVE  /\ attempts'[c] + Cardinality(Within(c)') <= hits'[BudgetOf(c)]
               /\ attempts'[c] + Cardinality(Within(c)') <= Limit
    <2>1. Cardinality(Within(c)') <= Cardinality(Within(c)) /\ Cardinality(Within(c)') \in Nat
      BY WithinFinite, FS_Subset, FS_CardinalityType
    <2>2. /\ attempts[c] \in Nat /\ Limit \in Nat /\ hits[BudgetOf(c)] \in Nat
      BY BudgetTypes DEF ApiInductive
    <2>3. /\ attempts[c] + Cardinality(Within(c)) <= hits[BudgetOf(c)]
          /\ attempts[c] + Cardinality(Within(c)) <= Limit
      BY DEF ApiInductive, BudgetsOK
    <2> QED BY <2>1, <2>2, <2>3, WithinFinite
  <1> QED BY <1>1 DEF BudgetsOK, BudgetOf

LEMMA QuietStep ==
  ASSUME ApiInductive, NEW q \in Requests, NEW s \in Request, RequestOK(s),
         Become(q, s), \A c : Counted(s, c) => Counted(requests[q], c), UNCHANGED Others
  PROVE  ApiInductive'
  <1>1. UNCHANGED <<jar, live, owner, closed, hits, attempts, clicks>>
    BY DEF Others
  <1>2. /\ requests' \in [Requests -> Request] /\ RequestsOK'
        /\ \A c : Within(c)' \subseteq Within(c)
    BY <1>1, RequestsMove DEF Become, OwnersKept
  <1>3. ApiTypeOK'
    BY <1>1, <1>2 DEF ApiInductive, ApiTypeOK
  <1>4. BudgetsOK'
    BY <1>1, <1>2, BudgetsShrink
  <1> QED BY <1>2, <1>3, <1>4 DEF ApiInductive

LEMMA RefuseStep ==
  ASSUME ApiInductive, NEW q \in Requests, NEW stage, At(q, stage),
         NEW answers, answers \subseteq Answers, Refuse(q, answers), UNCHANGED Others
  PROVE  ApiInductive'
  <1>1. ApiTypeOK /\ RequestsOK
    BY DEF ApiInductive
  <1>2. requests[q].route \in Routes
    BY <1>1, AtStage
  <1>3. PICK a \in Answers : Become(q, Answered(q, a, "keep"))
    BY DEF Refuse
  <1>4. PICK s : s = Answered(q, a, "keep")
    OBVIOUS
  <1>5. s \in Request /\ RequestOK(s) /\ \A c : ~ Counted(s, c)
    BY <1>1, <1>2, <1>4, AnsweredOK
  <1> QED BY <1>3, <1>4, <1>5, QuietStep

(* The stages before the handler. *)

LEMMA PassStep ==
  ASSUME ApiInductive, NEW q \in Requests, NEW stage, At(q, stage),
         stage \notin {"tenant", "auth", "csrf", "limit", "handle"},
         Become(q, Passing(q)), UNCHANGED Others
  PROVE  ApiInductive'
  <1>1. ApiTypeOK /\ RequestsOK
    BY DEF ApiInductive
  <1>2. PICK s : s = Passing(q)
    OBVIOUS
  <1>3. s \in Request /\ RequestOK(s) /\ \A c : Counted(s, c) => Counted(requests[q], c)
    BY <1>1, <1>2, PassingOK
  <1> QED BY <1>2, <1>3, QuietStep

LEMMA ClickSafe ==
  ASSUME ApiInductive, NEW q \in Requests, Click(q)
  PROVE  ApiInductive'
  <1>1. PICK r \in Sends[q] : Become(q, [NoRequest EXCEPT !.route = r, !.header = jar.csrf])
    BY DEF Click
  <1>2. r \in Routes
    BY ApiAssumption
  <1>3. jar.csrf \in Sessions \cup {Absent}
    BY DEF ApiInductive, ApiTypeOK, Cookies
  <1>4. PICK s : s = [NoRequest EXCEPT !.route = r, !.header = jar.csrf]
    OBVIOUS
  <1>5. s \in Request
    <2>1. PICK p : p = [NoRequest EXCEPT !.route = r]
      OBVIOUS
    <2>2. p \in Request
      BY <1>2, <2>1, NoRequestType DEF Request
    <2>3. s = [p EXCEPT !.header = jar.csrf]
      BY <1>4, <2>1
    <2> QED BY <1>3, <2>2, <2>3 DEF Request
  <1>6. s.stage = 0 /\ s.session = Absent
    BY <1>4, NoRequestType DEF Request
  <1>7. ~ Open(s) /\ RequestOK(s) /\ \A c : ~ Counted(s, c)
    BY <1>6 DEF RequestOK, Open, Counted
  <1>8. Become(q, s) /\ UNCHANGED <<jar, live, owner, closed, hits, attempts>>
    BY <1>1, <1>4 DEF Click
  <1>9. /\ requests' \in [Requests -> Request] /\ RequestsOK'
        /\ \A c : Within(c)' \subseteq Within(c)
    BY <1>5, <1>7, <1>8, RequestsMove DEF Become, OwnersKept
  <1>10. clicks' \in [Requests -> Nat] /\ \A x \in Requests : clicks'[x] <= MaxClicks[x]
    <2>1. /\ clicks \in [Requests -> Nat] /\ \A x \in Requests : clicks[x] <= MaxClicks[x]
          /\ clicks[q] < MaxClicks[q] /\ clicks' = [clicks EXCEPT ![q] = @ + 1]
      BY DEF Click, ApiInductive, ApiTypeOK
    <2>2. \A x \in Requests : MaxClicks[x] \in Nat
      BY ApiAssumption
    <2> QED BY <2>1, <2>2
  <1>11. ApiTypeOK'
    BY <1>8, <1>9, <1>10 DEF ApiInductive, ApiTypeOK
  <1>12. BudgetsOK'
    BY <1>8, <1>9, BudgetsShrink
  <1> QED BY <1>9, <1>11, <1>12 DEF ApiInductive

LEMMA SendSafe ==
  ASSUME ApiInductive, NEW q \in Requests, Send(q)
  PROVE  ApiInductive'
  <1>1. PICK cookies : cookies = IF requests[q].route \in UnderAuth THEN jar
                                 ELSE [jar EXCEPT !.refresh = Absent]
    OBVIOUS
  <1>2. jar \in Cookies /\ requests[q] \in Request
    BY DEF ApiInductive, ApiTypeOK
  <1>3. cookies \in Cookies
    BY <1>1, <1>2 DEF Cookies
  <1>4. PICK s : s = [requests[q] EXCEPT !.stage = 1, !.cookies = cookies]
    OBVIOUS
  <1>5. s \in Request
    <2>1. PICK p : p = [requests[q] EXCEPT !.stage = 1]
      OBVIOUS
    <2>2. p \in Request
      BY <1>2, <2>1 DEF Request
    <2>3. s = [p EXCEPT !.cookies = cookies]
      BY <1>4, <2>1
    <2> QED BY <1>3, <2>2, <2>3 DEF Request
  <1>6. s.stage = 1 /\ s.session = requests[q].session /\ s.route = requests[q].route
    BY <1>2, <1>4 DEF Request
  <1>7. requests[q].route \in Routes /\ requests[q].session = Absent
    <2>1. requests[q].stage = 0 /\ requests[q].route # Absent /\ RequestOK(requests[q])
      BY DEF Send, ApiInductive, RequestsOK
    <2> QED BY <1>2, <2>1 DEF RequestOK, Open, Request
  <1>8. \A x : ~ HasPassed(s, x)
    BY <1>6 DEF HasPassed
  <1>9. RequestOK(s)
    <2>1. \A n \in 3..8 : 1 <= n
      OBVIOUS
    <2>2. s.stage <= Len(Stages[s.route])
      BY <1>6, <1>7, <2>1, StagesOf
    <2> QED BY <1>6, <1>7, <1>8, <2>2 DEF RequestOK
  <1>10. Become(q, s) /\ UNCHANGED Others
    BY <1>1, <1>4 DEF Send, Others
  <1> QED BY <1>5, <1>8, <1>9, <1>10, QuietStep DEF Counted

LEMMA ParseJsonSafe ==
  ASSUME ApiInductive, NEW q \in Requests, ParseJson(q)
  PROVE  ApiInductive'
  <1>1. At(q, "json") /\ UNCHANGED Others
    BY DEF ParseJson, Others
  <1>2. CASE Become(q, Passing(q))
    BY <1>1, <1>2, PassStep
  <1>3. CASE Refuse(q, appErrors(400, {"INVALID_JSON_PAYLOAD"}))
    <2>1. appErrors(400, {"INVALID_JSON_PAYLOAD"}) \subseteq Answers
      BY AppErrors DEF Codes, AppErrorExampleCode
    <2> QED BY <1>1, <1>3, <2>1, RefuseStep
  <1> QED BY <1>2, <1>3 DEF ParseJson

LEMMA TenantSafe ==
  ASSUME ApiInductive, NEW q \in Requests, tenantMiddleware(q)
  PROVE  ApiInductive'
  <1>1. At(q, "tenant") /\ UNCHANGED Others
    BY DEF tenantMiddleware, Others
  <1>2. CASE \E t \in Tenants : Become(q, [Passing(q) EXCEPT !.tenant = t])
    <2>1. PICK t \in Tenants : Become(q, [Passing(q) EXCEPT !.tenant = t])
      BY <1>2
    <2>2. PICK s : s = [Passing(q) EXCEPT !.tenant = t]
      OBVIOUS
    <2>3. s \in Request /\ RequestOK(s) /\ \A c : Counted(s, c) => Counted(requests[q], c)
      BY <1>1, <2>2, TenantOK DEF ApiInductive
    <2> QED BY <1>1, <2>1, <2>2, <2>3, QuietStep
  <1>3. CASE Refuse(q, appErrors(400, {"TENANT_HEADER_REQUIRED"}))
    <2>1. appErrors(400, {"TENANT_HEADER_REQUIRED"}) \subseteq Answers
      BY AppErrors DEF Codes, AppErrorExampleCode
    <2> QED BY <1>1, <1>3, <2>1, RefuseStep
  <1>4. CASE Refuse(q, appErrors(400, {"INVALID_TENANT"}))
    <2>1. appErrors(400, {"INVALID_TENANT"}) \subseteq Answers
      BY AppErrors DEF Codes, AppErrorExampleCode
    <2> QED BY <1>1, <1>4, <2>1, RefuseStep
  <1> QED BY <1>2, <1>3, <1>4 DEF tenantMiddleware

LEMMA OriginSafe ==
  ASSUME ApiInductive, NEW q \in Requests, requireAllowedOrigin(q)
  PROVE  ApiInductive'
  <1>1. UNCHANGED Others
    BY DEF requireAllowedOrigin, Others
  <1>2. PICK stage \in {"origin", "presentOrigin"} : At(q, stage)
    BY DEF requireAllowedOrigin
  <1>3. CASE Become(q, Passing(q))
    BY <1>1, <1>2, <1>3, PassStep
  <1>4. CASE Refuse(q, appErrors(403, {"INVALID_ORIGIN"}))
    <2>1. appErrors(403, {"INVALID_ORIGIN"}) \subseteq Answers
      BY AppErrors DEF Codes, AppErrorExampleCode
    <2> QED BY <1>1, <1>2, <1>4, <2>1, RefuseStep
  <1> QED BY <1>3, <1>4 DEF requireAllowedOrigin

LEMMA AuthSafe ==
  ASSUME ApiInductive, NEW q \in Requests, authMiddleware(q)
  PROVE  ApiInductive'
  <1>1. At(q, "auth") /\ UNCHANGED Others
    BY DEF authMiddleware, Others
  <1>2. CASE Refuse(q, appErrors(401, {"AUTH_TOKEN_REQUIRED"}))
    <2>1. appErrors(401, {"AUTH_TOKEN_REQUIRED"}) \subseteq Answers
      BY AppErrors DEF Codes, AppErrorExampleCode
    <2> QED BY <1>1, <1>2, <2>1, RefuseStep
  <1>3. CASE Refuse(q, appErrors(401, {"INVALID_AUTH_TOKEN"}))
    <2>1. appErrors(401, {"INVALID_AUTH_TOKEN"}) \subseteq Answers
      BY AppErrors DEF Codes, AppErrorExampleCode
    <2> QED BY <1>1, <1>3, <2>1, RefuseStep
  <1>4. CASE /\ authenticateCookie(q)
             /\ Become(q, [Passing(q) EXCEPT !.session = requests[q].cookies.access])
    <2>1. PICK s : s = [Passing(q) EXCEPT !.session = requests[q].cookies.access]
      OBVIOUS
    <2>2. s \in Request /\ RequestOK(s) /\ \A c : Counted(s, c) => Counted(requests[q], c)
      BY <1>1, <1>4, <2>1, AuthOK DEF ApiInductive
    <2> QED BY <1>1, <1>4, <2>1, <2>2, QuietStep
  <1> QED BY <1>2, <1>3, <1>4 DEF authMiddleware

LEMMA CsrfSafe ==
  ASSUME ApiInductive, NEW q \in Requests, requireCsrf(q)
  PROVE  ApiInductive'
  <1>1. At(q, "csrf") /\ UNCHANGED Others
    BY DEF requireCsrf, Others
  <1>2. CASE Refuse(q, appErrors(403, csrfCodes))
    <2>1. appErrors(403, csrfCodes) \subseteq Answers
      BY AppErrors DEF csrfCodes, Codes, AppErrorExampleCode
    <2> QED BY <1>1, <1>2, <2>1, RefuseStep
  <1>3. CASE csrfProof(q) /\ Become(q, Passing(q))
    <2>1. PICK s : s = Passing(q)
      OBVIOUS
    <2>2. s \in Request /\ RequestOK(s) /\ \A c : Counted(s, c) => Counted(requests[q], c)
      BY <1>1, <1>3, <2>1, CsrfOK DEF ApiInductive
    <2> QED BY <1>1, <1>3, <2>1, <2>2, QuietStep
  <1> QED BY <1>2, <1>3 DEF requireCsrf

LEMMA IdempotencySafe ==
  ASSUME ApiInductive, NEW q \in Requests, requireIdempotencyKey(q)
  PROVE  ApiInductive'
  <1>1. At(q, "idempotency") /\ UNCHANGED Others
    BY DEF requireIdempotencyKey, Others
  <1>2. CASE Become(q, Passing(q))
    BY <1>1, <1>2, PassStep
  <1>3. CASE Refuse(q, appErrors(400, idempotencyCodes))
    <2>1. appErrors(400, idempotencyCodes) \subseteq Answers
      BY AppErrors DEF idempotencyCodes, Codes, AppErrorExampleCode
    <2> QED BY <1>1, <1>3, <2>1, RefuseStep
  <1> QED BY <1>2, <1>3 DEF requireIdempotencyKey

LEMMA DeliverySafe ==
  ASSUME ApiInductive, NEW q \in Requests, requireDelivery(q)
  PROVE  ApiInductive'
  <1>1. At(q, "delivery") /\ UNCHANGED Others
    BY DEF requireDelivery, Others
  <1>2. CASE Become(q, Passing(q))
    BY <1>1, <1>2, PassStep
  <1>3. CASE Refuse(q, appErrors(503, {"ACCOUNT_DELIVERY_UNAVAILABLE"}))
    <2>1. appErrors(503, {"ACCOUNT_DELIVERY_UNAVAILABLE"}) \subseteq Answers
      BY AppErrors DEF Codes, AppErrorExampleCode
    <2> QED BY <1>1, <1>3, <2>1, RefuseStep
  <1> QED BY <1>2, <1>3 DEF requireDelivery

LEMMA FaultsTypes ==
  ASSUME NEW codes \in SUBSET Codes
  PROVE  Faults(codes) \subseteq Answers
  BY AppErrors DEF Faults

LEMMA ValidatorTypes ==
  /\ validateLoginPayload \subseteq Answers
  /\ validateAccountRequest \subseteq Answers
  /\ validateAccountTokenConfirmation \subseteq Answers
  /\ validatePasswordResetConfirmation \subseteq Answers
  /\ validateProfileUpdate \subseteq Answers
  /\ validatePasswordChange \subseteq Answers
  /\ validateEmailChangeRequest \subseteq Answers
  /\ validateAccountDeactivation \subseteq Answers
  /\ validateCreateUserPayload \subseteq Answers
  /\ exactMoneyFaults \subseteq Answers
  /\ validateProductFilters \subseteq Answers
  /\ validateProductId \subseteq Answers
  /\ validateSellerId \subseteq Answers
  /\ validateResourceId \subseteq Answers
  /\ validateDeliveryAddress \subseteq Answers
  /\ shapeFaults \subseteq Answers
  /\ validateCreateProductPayload \subseteq Answers
  /\ validateUpdateProductPayload \subseteq Answers
  <1>1. validateLoginPayload \subseteq Answers
    BY FaultsTypes DEF validateLoginPayload, Codes, AppErrorExampleCode
  <1>2. validateAccountRequest \subseteq Answers
    BY FaultsTypes DEF validateAccountRequest, Codes, AppErrorExampleCode
  <1>3. validateAccountTokenConfirmation \subseteq Answers
    BY FaultsTypes DEF validateAccountTokenConfirmation, Codes, AppErrorExampleCode
  <1>4. validatePasswordResetConfirmation \subseteq Answers
    BY FaultsTypes DEF validatePasswordResetConfirmation, Codes, AppErrorExampleCode
  <1>5. validateProfileUpdate \subseteq Answers
    BY FaultsTypes DEF validateProfileUpdate, Codes, AppErrorExampleCode
  <1>6. validatePasswordChange \subseteq Answers
    BY FaultsTypes DEF validatePasswordChange, Codes, AppErrorExampleCode
  <1>7. validateEmailChangeRequest \subseteq Answers
    BY FaultsTypes DEF validateEmailChangeRequest, Codes, AppErrorExampleCode
  <1>8. validateAccountDeactivation \subseteq Answers
    BY FaultsTypes DEF validateAccountDeactivation, Codes, AppErrorExampleCode
  <1>9. validateCreateUserPayload \subseteq Answers
    BY FaultsTypes DEF validateCreateUserPayload, Codes, AppErrorExampleCode
  <1>10. exactMoneyFaults \subseteq Answers
    BY FaultsTypes DEF exactMoneyFaults, Codes, AppErrorExampleCode
  <1>11. validateProductFilters \subseteq Answers
    BY FaultsTypes DEF validateProductFilters, Codes, AppErrorExampleCode
  <1>12. validateProductId \subseteq Answers
    BY FaultsTypes DEF validateProductId, Codes, AppErrorExampleCode
  <1>13. validateSellerId \subseteq Answers
    BY FaultsTypes DEF validateSellerId, Codes, AppErrorExampleCode
  <1>14. validateResourceId \subseteq Answers
    BY FaultsTypes DEF validateResourceId, Codes, AppErrorExampleCode
  <1>15. validateDeliveryAddress \subseteq Answers
    BY FaultsTypes DEF validateDeliveryAddress, Codes, AppErrorExampleCode
  <1>16. shapeFaults \subseteq Answers
    BY FaultsTypes DEF shapeFaults, Codes, AppErrorExampleCode
  <1>17. validateCreateProductPayload \subseteq Answers
    BY <1>10, FaultsTypes DEF validateCreateProductPayload, Codes, AppErrorExampleCode
  <1>18. validateUpdateProductPayload \subseteq Answers
    BY <1>10, FaultsTypes DEF validateUpdateProductPayload, Codes, AppErrorExampleCode
  <1> QED BY <1>1, <1>2, <1>3, <1>4, <1>5, <1>6, <1>7, <1>8, <1>9, <1>10, <1>11, <1>12, <1>13, <1>14, <1>15, <1>16, <1>17, <1>18

LEMMA ValidatedTypes ==
  ASSUME NEW r \in DOMAIN validated
  PROVE  validated[r] \subseteq Answers
  BY ValidatedNames, ValidatorTypes DEF validated

LEMMA ValidateSafe ==
  ASSUME ApiInductive, NEW q \in Requests, validateRequest(q)
  PROVE  ApiInductive'
  <1>1. At(q, "validate") /\ UNCHANGED Others
    BY DEF validateRequest, Others
  <1>2. CASE Become(q, Passing(q))
    BY <1>1, <1>2, PassStep
  <1>3. CASE Refuse(q, validated[requests[q].route])
    <2>1. requests[q].route \in DOMAIN validated
      BY <1>1, AtStage, StagesOf DEF ApiInductive
    <2>2. validated[requests[q].route] \subseteq Answers
      BY <2>1, ValidatedTypes
    <2> QED BY <1>1, <1>3, <2>2, RefuseStep
  <1> QED BY <1>2, <1>3 DEF validateRequest

(* A hit pays for the request that the limiter lets through.                 *)
LEMMA LimiterSafe ==
  ASSUME ApiInductive, NEW q \in Requests, createRateLimiter(q)
  PROVE  ApiInductive'
  <1>1. /\ At(q, "limit") /\ hits' = [hits EXCEPT ![rateLimitKey(q)] = @ + 1]
        /\ UNCHANGED <<jar, live, owner, closed, attempts, clicks>>
    BY DEF createRateLimiter
  <1>2. ApiTypeOK /\ RequestsOK /\ BudgetsOK
    BY DEF ApiInductive
  <1>3. PICK own : own = <<requests[q].route, CallerOf(requests[q])>>
    OBVIOUS
  <1>4. PICK b : b = rateLimitKey(q)
    OBVIOUS
  <1>5. /\ own \in Callers /\ BudgetOf(own) = b /\ b \in Budgets
        /\ ~ Counted(requests[q], own)
        /\ \A d \in Callers :
             d # own /\ Counted(Passing(q), d) => Counted(requests[q], d)
    BY <1>1, <1>2, <1>3, <1>4, LimitedCaller
  <1>6. hits \in [Budgets -> Nat] /\ hits' = [hits EXCEPT ![b] = @ + 1]
    BY <1>1, <1>2, <1>4 DEF ApiTypeOK
  <1>7. /\ hits' \in [Budgets -> Nat] /\ hits'[b] = hits[b] + 1
        /\ \A x \in Budgets : hits[x] <= hits'[x]
    BY <1>5, <1>6
  <1>8. \A c : BudgetOf(c)' = BudgetOf(c)
    BY DEF BudgetOf
  <1>9. requests[q].route \in Routes /\ requests[q].route \in LimitedRoutes
    BY <1>1, <1>2, AtStage, StagesOf
  <1>10. ASSUME NEW s \in Request, RequestOK(s), Become(q, s)
         PROVE  /\ ApiTypeOK' /\ RequestsOK'
                /\ \A c : Counted(requests[q], c) \/ ~ Counted(s, c) =>
                     Within(c)' \subseteq Within(c)
    <2>1. /\ requests' \in [Requests -> Request] /\ RequestsOK'
          /\ \A c : Counted(requests[q], c) \/ ~ Counted(s, c) =>
               Within(c)' \subseteq Within(c)
      BY <1>1, <1>10, RequestsMove DEF Become, OwnersKept
    <2>2. ApiTypeOK'
      BY <1>1, <1>2, <1>7, <2>1 DEF ApiTypeOK
    <2> QED BY <2>1, <2>2
  <1>11. ASSUME NEW c \in Callers, Within(c)' \subseteq Within(c)
         PROVE  /\ attempts'[c] + Cardinality(Within(c)') <= hits'[BudgetOf(c)]
                /\ attempts'[c] + Cardinality(Within(c)') <= Limit
    <2>1. Cardinality(Within(c)') <= Cardinality(Within(c)) /\ Cardinality(Within(c)') \in Nat
      BY <1>11, WithinFinite, FS_Subset, FS_CardinalityType
    <2>2. /\ attempts[c] \in Nat /\ Limit \in Nat /\ hits[BudgetOf(c)] \in Nat
          /\ BudgetOf(c) \in Budgets
      BY <1>2, BudgetTypes
    <2>3. /\ attempts[c] + Cardinality(Within(c)) <= hits[BudgetOf(c)]
          /\ attempts[c] + Cardinality(Within(c)) <= Limit
      BY <1>2 DEF BudgetsOK
    <2>4. hits[BudgetOf(c)] <= hits'[BudgetOf(c)] /\ hits'[BudgetOf(c)] \in Nat
      BY <1>7, <2>2
    <2>5. attempts'[c] = attempts[c]
      BY <1>1
    <2> QED BY <2>1, <2>2, <2>3, <2>4, <2>5, WithinFinite
  <1>12. CASE hits[b] < Limit /\ Become(q, Passing(q))
    <2>1. PICK s : s = Passing(q)
      OBVIOUS
    <2>2. s \in Request /\ RequestOK(s)
      BY <1>1, <1>2, <2>1, PassingOK
    <2>3. /\ ApiTypeOK' /\ RequestsOK'
          /\ \A c : Counted(requests[q], c) \/ ~ Counted(s, c) =>
               Within(c)' \subseteq Within(c)
      BY <1>10, <1>12, <2>1, <2>2
    <2>4. ASSUME NEW c \in Callers, c # own
          PROVE  Within(c)' \subseteq Within(c)
      BY <1>5, <2>1, <2>3, <2>4
    <2>5. Within(own)' \subseteq Within(own) \cup {q}
      BY <1>1, <1>2, <1>12 DEF Within, Become, ApiTypeOK, Counted, Open, HasPassed, CallerOf
    <2>6. /\ Cardinality(Within(own)') <= Cardinality(Within(own)) + 1
          /\ Cardinality(Within(own)') \in Nat
      <3>1. /\ IsFiniteSet(Within(own) \cup {q})
            /\ Cardinality(Within(own) \cup {q}) <= Cardinality(Within(own)) + 1
        BY WithinFinite, OneMore
      <3>2. /\ Cardinality(Within(own)') <= Cardinality(Within(own) \cup {q})
            /\ Cardinality(Within(own)') \in Nat
            /\ Cardinality(Within(own) \cup {q}) \in Nat
        BY <2>5, <3>1, FS_Subset, FS_CardinalityType
      <3> QED BY <3>1, <3>2, WithinFinite
    <2>7. /\ attempts'[own] + Cardinality(Within(own)') <= hits'[BudgetOf(own)]
          /\ attempts'[own] + Cardinality(Within(own)') <= Limit
      <3>1. attempts[own] + Cardinality(Within(own)) <= hits[b]
        BY <1>2, <1>5 DEF BudgetsOK
      <3>2. attempts[own] \in Nat /\ Limit \in Nat /\ hits[b] \in Nat
        BY <1>2, <1>5, BudgetTypes
      <3>3. attempts'[own] = attempts[own] /\ hits'[BudgetOf(own)] = hits[b] + 1
        BY <1>1, <1>5, <1>7
      <3> QED BY <1>12, <2>6, <3>1, <3>2, <3>3, WithinFinite
    <2>8. BudgetsOK'
      <3>1. ASSUME NEW c \in Callers
            PROVE  /\ attempts'[c] + Cardinality(Within(c)') <= hits'[BudgetOf(c)]
                   /\ attempts'[c] + Cardinality(Within(c)') <= Limit
        BY <1>11, <2>4, <2>7
      <3> QED BY <1>8, <3>1 DEF BudgetsOK
    <2> QED BY <2>3, <2>8 DEF ApiInductive
  <1>13. CASE Refuse(q, {<<429, rateLimitCodes[requests[q].route]>>})
    <2>1. PICK a : a = <<429, rateLimitCodes[requests[q].route]>>
      OBVIOUS
    <2>2. a \in Answers
      <3>1. rateLimitCodes[requests[q].route] \in Codes
        BY <1>9 DEF LimitedRoutes, rateLimitCodes, Codes, AppErrorExampleCode
      <3> QED BY <2>1, <3>1 DEF Answers, Codes
    <2>3. PICK s : s = Answered(q, a, "keep")
      OBVIOUS
    <2>4. Become(q, s)
      BY <1>13, <2>1, <2>3 DEF Refuse
    <2>5. s \in Request /\ RequestOK(s) /\ \A c : ~ Counted(s, c)
      BY <1>2, <1>9, <2>2, <2>3, AnsweredOK
    <2>6. ApiTypeOK' /\ RequestsOK' /\ \A c : Within(c)' \subseteq Within(c)
      BY <1>10, <2>4, <2>5
    <2>7. BudgetsOK'
      BY <1>8, <1>11, <2>6 DEF BudgetsOK
    <2> QED BY <2>6, <2>7 DEF ApiInductive
  <1> QED BY <1>4, <1>12, <1>13 DEF createRateLimiter

-----------------------------------------------------------------------------
(* The handlers. *)

LEMMA HandlerStep ==
  ASSUME ApiInductive, NEW q \in Requests, NEW names, Handles(q, names),
         NEW a \in Answers, NEW change \in Sessions \cup {"keep", "clear"},
         Become(q, Answered(q, a, change)), OwnersKept,
         owner' \in [Sessions -> Users \cup {Absent}],
         live' \subseteq {x \in Sessions : owner'[x] # Absent}, closed' \subseteq Users
  PROVE  ApiInductive'
  <1>1. /\ At(q, "handle") /\ UNCHANGED <<jar, hits, clicks>>
        /\ attempts' = IF Limited(q)
                       THEN [attempts EXCEPT ![<<requests[q].route, Caller(q)>>] = @ + 1]
                       ELSE attempts
    BY DEF Handles
  <1>2. ApiTypeOK /\ RequestsOK /\ BudgetsOK
    BY DEF ApiInductive
  <1>3. PICK r : r = requests[q]
    OBVIOUS
  <1>4. /\ r \in Request /\ RequestOK(r) /\ Open(r) /\ r.route \in Routes
        /\ r.stage \in 1..Len(Stages[r.route]) /\ Stages[r.route][r.stage] = "handle"
    BY <1>1, <1>2, <1>3, AtStage
  <1>5. PICK s : s = Answered(q, a, change)
    OBVIOUS
  <1>6. s \in Request /\ RequestOK(s) /\ \A c : ~ Counted(s, c)
    BY <1>2, <1>3, <1>4, <1>5, AnsweredOK
  <1>7. /\ requests' \in [Requests -> Request] /\ RequestsOK'
        /\ \A c : Within(c)' \subseteq Within(c) /\ q \notin Within(c)'
    BY <1>5, <1>6, RequestsMove DEF Become
  <1>8. PICK own : own = <<r.route, CallerOf(r)>>
    OBVIOUS
  <1>9. attempts' = IF r.route \in LimitedRoutes THEN [attempts EXCEPT ![own] = @ + 1]
                    ELSE attempts
    BY <1>1, <1>3, <1>8 DEF Limited, Caller, CallerOf
  <1>10. attempts \in [Callers -> Nat]
    BY <1>2 DEF ApiTypeOK
  <1>11. ASSUME NEW c \in Callers, attempts'[c] = attempts[c]
         PROVE  /\ attempts'[c] + Cardinality(Within(c)') <= hits'[BudgetOf(c)]
                /\ attempts'[c] + Cardinality(Within(c)') <= Limit
    <2>1. Cardinality(Within(c)') <= Cardinality(Within(c)) /\ Cardinality(Within(c)') \in Nat
      BY <1>7, WithinFinite, FS_Subset, FS_CardinalityType
    <2>2. /\ attempts[c] \in Nat /\ Limit \in Nat /\ hits[BudgetOf(c)] \in Nat
      BY <1>2, BudgetTypes
    <2>3. /\ attempts[c] + Cardinality(Within(c)) <= hits[BudgetOf(c)]
          /\ attempts[c] + Cardinality(Within(c)) <= Limit
      BY <1>2 DEF BudgetsOK
    <2> QED BY <1>1, <1>11, <2>1, <2>2, <2>3, WithinFinite
  <1>12. CASE r.route \notin LimitedRoutes
    <2>1. attempts' = attempts
      BY <1>9, <1>12
    <2>2. ApiTypeOK'
      BY <1>1, <1>2, <1>7, <2>1 DEF ApiTypeOK
    <2>3. BudgetsOK'
      BY <1>11, <2>1 DEF BudgetsOK, BudgetOf
    <2> QED BY <1>7, <2>2, <2>3 DEF ApiInductive
  <1>13. CASE r.route \in LimitedRoutes
    <2>1. own \in Callers /\ own[1] = r.route /\ own[2] = CallerOf(r)
      BY <1>4, <1>8, <1>13 DEF Callers, CallerOf, RequestOK
    <2>2. /\ attempts' \in [Callers -> Nat] /\ attempts'[own] = attempts[own] + 1
          /\ \A c \in Callers \ {own} : attempts'[c] = attempts[c]
      BY <1>9, <1>10, <1>13, <2>1
    <2>3. ApiTypeOK'
      BY <1>1, <1>2, <1>7, <2>2 DEF ApiTypeOK
    <2>4. HasPassed(r, "limit")
      <3>1. PICK i \in 1..Len(Stages[r.route]) : Stages[r.route][i] = "limit"
        BY <1>4, <1>13, StagesOf
      <3>2. r.stage = Len(Stages[r.route]) /\ i # r.stage
        BY <1>4, <3>1, StagesOf
      <3>3. \A n \in 3..8 : \A j \in 1..n : j # n => j \in 1..n - 1
        OBVIOUS
      <3>4. i \in 1..r.stage - 1
        BY <1>4, <3>1, <3>2, <3>3, StagesOf
      <3> QED BY <3>1, <3>4 DEF HasPassed
    <2>5. q \in Within(own)
      BY <1>3, <1>4, <2>1, <2>4 DEF Within, Counted
    <2>6. Within(own)' \subseteq Within(own) \ {q}
      BY <1>7
    <2>7. /\ Cardinality(Within(own)') + 1 <= Cardinality(Within(own))
          /\ Cardinality(Within(own)') \in Nat
      <3>1. /\ Cardinality(Within(own) \ {q}) \in Nat
            /\ Cardinality(Within(own) \ {q}) + 1 = Cardinality(Within(own))
        BY <2>5, WithinFinite, OneLess
      <3>2. IsFiniteSet(Within(own) \ {q})
        BY WithinFinite, FS_Subset
      <3>3. /\ Cardinality(Within(own)') <= Cardinality(Within(own) \ {q})
            /\ Cardinality(Within(own)') \in Nat
        BY <2>6, <3>2, FS_Subset, FS_CardinalityType
      <3> QED BY <3>1, <3>3
    <2>8. /\ attempts'[own] + Cardinality(Within(own)') <= hits'[BudgetOf(own)]
          /\ attempts'[own] + Cardinality(Within(own)') <= Limit
      <3>1. /\ attempts[own] \in Nat /\ Limit \in Nat /\ hits[BudgetOf(own)] \in Nat
        BY <1>2, <2>1, BudgetTypes
      <3>2. /\ attempts[own] + Cardinality(Within(own)) <= hits[BudgetOf(own)]
            /\ attempts[own] + Cardinality(Within(own)) <= Limit
        BY <1>2, <2>1 DEF BudgetsOK
      <3> QED BY <1>1, <2>2, <2>7, <3>1, <3>2, WithinFinite
    <2>9. ASSUME NEW c \in Callers
          PROVE  /\ attempts'[c] + Cardinality(Within(c)') <= hits'[BudgetOf(c)]
                 /\ attempts'[c] + Cardinality(Within(c)') <= Limit
      BY <1>11, <2>2, <2>8
    <2>10. BudgetsOK'
      BY <2>9 DEF BudgetsOK, BudgetOf
    <2> QED BY <1>7, <2>3, <2>10 DEF ApiInductive
  <1> QED BY <1>12, <1>13

LEMMA RefusalTypes ==
  ASSUME NEW r
  PROVE  refusals(r) \subseteq Answers
  <1>1. ASSUME NEW x \in DOMAIN accountRefusals
        PROVE  accountRefusals[x] \subseteq Answers
    BY <1>1, AppErrors DEF accountRefusals, Codes, AppErrorExampleCode
  <1>2. ownedProduct \subseteq Answers
    BY AppErrors DEF ownedProduct, Codes, AppErrorExampleCode
  <1>3. ASSUME NEW x \in DOMAIN productRefusals
        PROVE  productRefusals[x] \subseteq Answers
    BY <1>2, <1>3, AppErrors DEF productRefusals, Codes, AppErrorExampleCode
  <1>4. pricingRefusals \subseteq Answers
    BY AppErrors DEF pricingRefusals, Codes, AppErrorExampleCode
  <1>5. ASSUME NEW x \in DOMAIN commerceRefusals
        PROVE  commerceRefusals[x] \subseteq Answers
    BY <1>4, <1>5, AppErrors DEF commerceRefusals, Codes, AppErrorExampleCode
  <1> QED BY <1>1, <1>3, <1>5 DEF refusals

LEMMA SuccessType ==
  \A r : <<successOf(r), "OK">> \in Answers
  <1>1. \A r : successOf(r) \in 200..503
    BY DEF successOf
  <1>2. "OK" \in Codes
    BY DEF Codes
  <1> QED BY <1>1, <1>2 DEF Answers, Codes

\* What a handler keeps when it opens no session.
LEMMA ClosingStep ==
  ASSUME ApiInductive, NEW q \in Requests, NEW names, Handles(q, names),
         NEW a \in Answers, NEW change \in Sessions \cup {"keep", "clear"},
         Become(q, Answered(q, a, change)), UNCHANGED owner,
         live' \subseteq live, closed' \subseteq Users
  PROVE  ApiInductive'
  <1>1. OwnersKept
    BY DEF OwnersKept
  <1>2. /\ owner' \in [Sessions -> Users \cup {Absent}]
        /\ live' \subseteq {x \in Sessions : owner'[x] # Absent}
    BY DEF ApiInductive, ApiTypeOK
  <1> QED BY <1>1, <1>2, HandlerStep

LEMMA RefusingStep ==
  ASSUME ApiInductive, NEW q \in Requests, NEW names, Handles(q, names),
         NEW answers, answers \subseteq Answers, Refuse(q, answers),
         UNCHANGED <<live, owner, closed>>
  PROVE  ApiInductive'
  <1>1. PICK a \in Answers : Become(q, Answered(q, a, "keep"))
    BY DEF Refuse
  <1>2. closed' \subseteq Users
    BY DEF ApiInductive, ApiTypeOK
  <1> QED BY <1>1, <1>2, ClosingStep

LEMMA SucceedingStep ==
  ASSUME ApiInductive, NEW q \in Requests, NEW names, Handles(q, names),
         NEW change \in Sessions \cup {"keep", "clear"}, Succeed(q, change),
         UNCHANGED owner, live' \subseteq live, closed' \subseteq Users
  PROVE  ApiInductive'
  <1>1. PICK a \in Answers : Become(q, Answered(q, a, change))
    BY SuccessType DEF Succeed
  <1> QED BY <1>1, ClosingStep

LEMMA DeclineSafe ==
  ASSUME ApiInductive, NEW q \in Requests, Decline(q)
  PROVE  ApiInductive'
  <1>1. Handles(q, Routes) /\ UNCHANGED <<live, owner, closed>>
    BY DEF Decline
  <1>2. CASE Refuse(q, refusals(requests[q].route))
    BY <1>1, <1>2, RefusalTypes, RefusingStep
  <1>3. CASE Refuse(q, appErrors(500, {"INTERNAL_SERVER_ERROR"}))
    <2>1. appErrors(500, {"INTERNAL_SERVER_ERROR"}) \subseteq Answers
      BY AppErrors DEF Codes
    <2> QED BY <1>1, <1>3, <2>1, RefusingStep
  <1>4. CASE Refuse(q, appErrors(503, {"NOT_READY"}))
    <2>1. appErrors(503, {"NOT_READY"}) \subseteq Answers
      BY AppErrors DEF Codes
    <2> QED BY <1>1, <1>4, <2>1, RefusingStep
  <1> QED BY <1>2, <1>3, <1>4 DEF Decline

LEMMA ServeSafe ==
  ASSUME ApiInductive, NEW q \in Requests, Serve(q)
  PROVE  ApiInductive'
  <1>1. PICK names : Handles(q, names)
    BY DEF Serve
  <1>2. Succeed(q, "keep") /\ UNCHANGED <<live, owner, closed>>
    BY DEF Serve
  <1>3. closed' \subseteq Users
    BY <1>2 DEF ApiInductive, ApiTypeOK
  <1> QED BY <1>1, <1>2, <1>3, SucceedingStep

LEMMA LoginSafe ==
  ASSUME ApiInductive, NEW q \in Requests, authenticate(q)
  PROVE  ApiInductive'
  <1>1. Handles(q, {"login"}) /\ UNCHANGED closed
    BY DEF authenticate
  <1>2. PICK s \in Sessions, u \in Users :
          /\ owner[s] = Absent
          /\ owner' = [owner EXCEPT ![s] = u]
          /\ live' = live \cup {s}
          /\ Succeed(q, s)
    BY DEF authenticate
  <1>3. /\ owner \in [Sessions -> Users \cup {Absent}] /\ closed \subseteq Users
        /\ live \subseteq {x \in Sessions : owner[x] # Absent}
    BY DEF ApiInductive, ApiTypeOK
  <1>4. OwnersKept
    BY <1>2, <1>3 DEF OwnersKept
  <1>5. owner' \in [Sessions -> Users \cup {Absent}]
    BY <1>2, <1>3
  <1>6. u # Absent
    BY <1>2, ApiAssumption
  <1>7. live' \subseteq {x \in Sessions : owner'[x] # Absent}
    BY <1>2, <1>3, <1>6
  <1>8. PICK a \in Answers : Become(q, Answered(q, a, s))
    BY <1>2, SuccessType DEF Succeed
  <1> QED BY <1>1, <1>3, <1>4, <1>5, <1>7, <1>8, HandlerStep

LEMMA RefreshSafe ==
  ASSUME ApiInductive, NEW q \in Requests, refreshSession(q)
  PROVE  ApiInductive'
  <1>1. PICK s : s = requests[q].cookies.refresh
    OBVIOUS
  <1>2. Handles(q, {"refresh"}) /\ UNCHANGED <<owner, closed>> /\ closed' \subseteq Users
    BY DEF refreshSession, ApiInductive, ApiTypeOK
  <1>3. CASE s \in live /\ Succeed(q, s) /\ UNCHANGED live
    <2>1. s \in Sessions
      BY <1>3 DEF ApiInductive, ApiTypeOK
    <2> QED BY <1>2, <1>3, <2>1, SucceedingStep
  <1>4. CASE Refuse(q, appErrors(409, {"REFRESH_ALREADY_ROTATED"})) /\ UNCHANGED live
    <2>1. appErrors(409, {"REFRESH_ALREADY_ROTATED"}) \subseteq Answers
      BY AppErrors DEF Codes, AppErrorExampleCode
    <2> QED BY <1>2, <1>4, <2>1, RefusingStep
  <1>5. ASSUME NEW code \in {"INVALID_REFRESH_TOKEN", "SESSION_EXPIRED",
                             "REFRESH_TOKEN_REUSED"},
               Become(q, Answered(q, <<401, code>>, "clear")), live' \subseteq live
        PROVE  ApiInductive'
    <2>1. code \in Codes
      BY DEF Codes, AppErrorExampleCode
    <2>2. <<401, code>> \in Answers
      BY <2>1 DEF Answers, Codes
    <2> QED BY <1>2, <1>5, <2>2, ClosingStep
  <1>6. \/ s \in live /\ Succeed(q, s) /\ UNCHANGED live
        \/ Refuse(q, appErrors(409, {"REFRESH_ALREADY_ROTATED"})) /\ UNCHANGED live
        \/ \E code \in {"INVALID_REFRESH_TOKEN", "SESSION_EXPIRED", "REFRESH_TOKEN_REUSED"} :
             Become(q, Answered(q, <<401, code>>, "clear")) /\ live' \subseteq live
    BY <1>1 DEF refreshSession
  <1> QED BY <1>3, <1>4, <1>5, <1>6

LEMMA RevokeSafe ==
  ASSUME ApiInductive, NEW q \in Requests, revokeSession(q)
  PROVE  ApiInductive'
  <1>1. Handles(q, {"revokeSession"}) /\ UNCHANGED <<owner, closed>> /\ closed' \subseteq Users
    BY DEF revokeSession, ApiInductive, ApiTypeOK
  <1>2. CASE Refuse(q, appErrors(404, {"SESSION_NOT_FOUND"})) /\ UNCHANGED live
    <2>1. appErrors(404, {"SESSION_NOT_FOUND"}) \subseteq Answers
      BY AppErrors DEF Codes, AppErrorExampleCode
    <2> QED BY <1>1, <1>2, <2>1, RefusingStep
  <1>3. ASSUME NEW change \in {"keep", "clear"}, Succeed(q, change), live' \subseteq live
        PROVE  ApiInductive'
    BY <1>1, <1>3, SucceedingStep
  <1>4. \/ Refuse(q, appErrors(404, {"SESSION_NOT_FOUND"})) /\ UNCHANGED live
        \/ \E change \in {"keep", "clear"} : Succeed(q, change) /\ live' \subseteq live
    BY DEF revokeSession, clearedBy
  <1> QED BY <1>2, <1>3, <1>4

LEMMA LogoutCurrentSafe ==
  ASSUME ApiInductive, NEW q \in Requests, logoutCurrent(q)
  PROVE  ApiInductive'
  <1>1. Handles(q, {"logoutCurrent"}) /\ UNCHANGED <<owner, closed>> /\ closed' \subseteq Users
    BY DEF logoutCurrent, ApiInductive, ApiTypeOK
  <1>2. CASE Refuse(q, appErrors(404, {"SESSION_NOT_FOUND"})) /\ UNCHANGED live
    <2>1. appErrors(404, {"SESSION_NOT_FOUND"}) \subseteq Answers
      BY AppErrors DEF Codes, AppErrorExampleCode
    <2> QED BY <1>1, <1>2, <2>1, RefusingStep
  <1>3. CASE Succeed(q, "clear") /\ live' \subseteq live
    BY <1>1, <1>3, SucceedingStep
  <1> QED BY <1>2, <1>3 DEF logoutCurrent

LEMMA EndEverySafe ==
  ASSUME ApiInductive, NEW q \in Requests, endEverySession(q)
  PROVE  ApiInductive'
  <1>1. PICK names : Handles(q, names)
    BY DEF endEverySession
  <1>2. Succeed(q, "clear") /\ live' \subseteq live /\ UNCHANGED owner
    BY DEF endEverySession
  <1>3. closed' \subseteq Users
    <2>1. closed \subseteq Users
      BY DEF ApiInductive, ApiTypeOK
    <2>2. CASE closed' = closed
      BY <2>1, <2>2
    <2>3. CASE /\ requests[q].route = "deactivateAccount"
               /\ closed' = closed \cup {owner[requests[q].session]}
      <3>1. /\ requests[q] \in Request /\ RequestOK(requests[q]) /\ Open(requests[q])
            /\ Stages[requests[q].route][requests[q].stage] = "handle"
            /\ requests[q].stage \in 1..Len(Stages[requests[q].route])
            /\ requests[q].route \in Routes
        BY <1>1, AtStage DEF Handles, ApiInductive
      <3>2. requests[q].route \in SignedRoutes
        BY <2>3 DEF SignedRoutes
      <3>3. requests[q].stage > 3
        <4>1. /\ Stages[requests[q].route][3] = "auth"
              /\ requests[q].stage = Len(Stages[requests[q].route])
              /\ Len(Stages[requests[q].route]) \in 3..8
          BY <3>1, <3>2, StagesOf
        <4>2. requests[q].stage # 3
          BY <3>1, <4>1
        <4>3. requests[q].stage \in 3..8
          BY <4>1
        <4> QED BY <4>2, <4>3
      <3>4. owner[requests[q].session] \in Users
        BY <3>1, <3>2, <3>3 DEF RequestOK
      <3> QED BY <2>1, <2>3, <3>4
    <2> QED BY <2>2, <2>3 DEF endEverySession
  <1> QED BY <1>1, <1>2, <1>3, SucceedingStep

LEMMA ConfirmSafe ==
  ASSUME ApiInductive, NEW q \in Requests, confirmForAccount(q)
  PROVE  ApiInductive'
  <1>1. PICK names : Handles(q, names)
    BY DEF confirmForAccount
  <1>2. /\ Succeed(q, "clear") /\ live' \subseteq live /\ UNCHANGED <<owner, closed>>
        /\ closed' \subseteq Users
    BY DEF confirmForAccount, ApiInductive, ApiTypeOK
  <1> QED BY <1>1, <1>2, SucceedingStep

LEMMA DeliverSafe ==
  ASSUME ApiInductive, NEW q \in Requests, Deliver(q)
  PROVE  ApiInductive'
  <1>1. /\ jar' = received(requests[q].change) /\ Become(q, NoRequest)
        /\ UNCHANGED <<live, owner, closed, hits, attempts, clicks>>
    BY DEF Deliver
  <1>2. jar \in Cookies /\ requests[q].change \in Sessions \cup {"keep", "clear"}
        /\ jar.refresh = jar.csrf /\ jar.access \in {Absent, jar.csrf}
    BY DEF ApiInductive, ApiTypeOK, Request
  <1>3. jar' \in Cookies /\ jar'.refresh = jar'.csrf /\ jar'.access \in {Absent, jar'.csrf}
    <2>1. CASE requests[q].change = "keep"
      BY <1>1, <1>2, <2>1 DEF received
    <2>2. CASE requests[q].change = "clear"
      BY <1>1, <2>2 DEF received, NoCookies, Cookies
    <2>3. CASE requests[q].change \in Sessions
      <3>1. jar' = CookiesOf(requests[q].change)
        BY <1>1, <2>3, ApiAssumption DEF received
      <3> QED BY <2>3, <3>1 DEF CookiesOf, Cookies
    <2> QED BY <1>2, <2>1, <2>2, <2>3
  <1>4. /\ requests' \in [Requests -> Request] /\ RequestsOK'
        /\ \A c : Within(c)' \subseteq Within(c)
    BY <1>1, NoRequestType, RequestsMove DEF Become, OwnersKept
  <1>5. ApiTypeOK'
    BY <1>1, <1>3, <1>4 DEF ApiInductive, ApiTypeOK
  <1>6. BudgetsOK'
    BY <1>1, <1>4, BudgetsShrink
  <1> QED BY <1>4, <1>5, <1>6 DEF ApiInductive

(* Steps that change no request. *)
LEMMA RequestsStay ==
  ASSUME ApiInductive, UNCHANGED <<requests, owner, closed, hits, attempts, clicks>>,
         live' \subseteq live,
         jar' \in Cookies /\ jar'.refresh = jar'.csrf /\ jar'.access \in {Absent, jar'.csrf}
  PROVE  ApiInductive'
  <1>1. ApiTypeOK'
    BY DEF ApiInductive, ApiTypeOK
  <1>2. RequestsOK'
    BY DEF ApiInductive, RequestsOK, RequestOK, Open, HasPassed, Acting
  <1>3. \A c : Within(c)' \subseteq Within(c)
    BY DEF Within, Counted, Open, HasPassed, CallerOf
  <1>4. BudgetsOK'
    BY <1>3, BudgetsShrink
  <1> QED BY <1>1, <1>2, <1>4 DEF ApiInductive

LEMMA ApiInitSafe ==
  ASSUME ApiInit
  PROVE  ApiInductive
  <1>1. PICK s \in Sessions \cup {Absent}, u \in Users :
          /\ jar = CookiesOf(s)
          /\ live = {s} \ {Absent}
          /\ owner = [x \in Sessions |-> IF x = s THEN u ELSE Absent]
    BY DEF ApiInit
  <1>2. /\ requests = [q \in Requests |-> NoRequest] /\ closed = {}
        /\ hits = [b \in Budgets |-> 0] /\ attempts = [c \in Callers |-> 0]
        /\ clicks = [q \in Requests |-> 0]
    BY DEF ApiInit
  <1>3. ApiTypeOK
    <2>1. jar \in Cookies /\ jar.refresh = jar.csrf /\ jar.access \in {Absent, jar.csrf}
      BY <1>1 DEF CookiesOf, Cookies
    <2>2. requests \in [Requests -> Request]
      BY <1>2, NoRequestType
    <2>3. owner \in [Sessions -> Users \cup {Absent}]
      BY <1>1
    <2>4. live \subseteq {x \in Sessions : owner[x] # Absent}
      BY <1>1, ApiAssumption
    <2>5. /\ hits \in [Budgets -> Nat] /\ attempts \in [Callers -> Nat]
          /\ clicks \in [Requests -> Nat] /\ closed \subseteq Users
      BY <1>2
    <2>6. \A q \in Requests : clicks[q] <= MaxClicks[q]
      <3>1. \A q \in Requests : MaxClicks[q] \in Nat
        BY ApiAssumption
      <3> QED BY <1>2, <3>1
    <2> QED BY <2>1, <2>2, <2>3, <2>4, <2>5, <2>6 DEF ApiTypeOK
  <1>4. RequestsOK
    BY <1>2, NoRequestType DEF RequestsOK
  <1>5. ASSUME NEW c \in Callers
        PROVE  /\ attempts[c] + Cardinality(Within(c)) <= hits[BudgetOf(c)]
               /\ attempts[c] + Cardinality(Within(c)) <= Limit
    <2>1. Within(c) = {}
      BY <1>2, NoRequestType DEF Within
    <2>2. Cardinality(Within(c)) = 0
      BY <2>1, FS_EmptySet
    <2>3. attempts[c] = 0 /\ hits[BudgetOf(c)] = 0 /\ Limit \in Nat
      BY <1>2, <1>3, BudgetTypes
    <2> QED BY <2>2, <2>3
  <1> QED BY <1>3, <1>4, <1>5 DEF ApiInductive, BudgetsOK

LEMMA ApiNextSafe ==
  ASSUME ApiInductive, [ApiNext]_apiVars
  PROVE  ApiInductive'
  <1>1. jar \in Cookies /\ jar.refresh = jar.csrf /\ jar.access \in {Absent, jar.csrf}
    BY DEF ApiInductive, ApiTypeOK
  <1>2. CASE AccessCookieExpires
    <2>1. jar' = [jar EXCEPT !.access = Absent]
          /\ UNCHANGED <<requests, live, owner, closed, hits, attempts, clicks>>
      BY <1>2 DEF AccessCookieExpires
    <2>2. jar' \in Cookies /\ jar'.refresh = jar'.csrf /\ jar'.access \in {Absent, jar'.csrf}
      BY <1>1, <2>1 DEF Cookies
    <2> QED BY <2>1, <2>2, RequestsStay
  <1>3. CASE SessionExpires
    BY <1>1, <1>3, RequestsStay DEF SessionExpires
  <1>4. CASE UNCHANGED apiVars
    BY <1>1, <1>4, RequestsStay DEF apiVars
  <1>5. ASSUME NEW q \in Requests,
               \/ Click(q) \/ Send(q) \/ ParseJson(q) \/ tenantMiddleware(q)
               \/ requireAllowedOrigin(q) \/ authMiddleware(q) \/ requireCsrf(q)
               \/ requireIdempotencyKey(q) \/ requireDelivery(q) \/ createRateLimiter(q)
               \/ validateRequest(q)
        PROVE  ApiInductive'
    BY <1>5, ClickSafe, SendSafe, ParseJsonSafe, TenantSafe, OriginSafe, AuthSafe, CsrfSafe,
       IdempotencySafe, DeliverySafe, LimiterSafe, ValidateSafe
  <1>6. ASSUME NEW q \in Requests,
               \/ Decline(q) \/ Serve(q) \/ authenticate(q) \/ refreshSession(q)
               \/ revokeSession(q) \/ logoutCurrent(q) \/ endEverySession(q)
               \/ confirmForAccount(q) \/ Deliver(q)
        PROVE  ApiInductive'
    BY <1>6, DeclineSafe, ServeSafe, LoginSafe, RefreshSafe, RevokeSafe, LogoutCurrentSafe,
       EndEverySafe, ConfirmSafe, DeliverSafe
  <1> QED BY <1>2, <1>3, <1>4, <1>5, <1>6 DEF ApiNext

(* Whatever the routes of routes.ts and their middleware are given, a request *)
(* at a stage has what the stages before it establish, and a limiter has let  *)
(* through no more than it counted.                                           *)
THEOREM ApiInductiveHolds == ApiSpec => []ApiInductive
  <1>1. ApiInit => ApiInductive
    BY ApiInitSafe
  <1>2. ApiInductive /\ [ApiNext]_apiVars => ApiInductive'
    BY ApiNextSafe
  <1> QED BY <1>1, <1>2, PTL DEF ApiSpec

(* A handler behind authMiddleware (auth.ts) acts in the tenant its account   *)
(* belongs to, whatever tenant the request names and whatever other pages     *)
(* and sessions do meanwhile.                                                 *)
THEOREM ApiSafe == ApiSpec => []ApiInv
  <1>1. ASSUME ApiInductive
        PROVE  ApiInv
    <2>1. ASSUME NEW q \in Requests, requests[q].session # Absent
          PROVE  Home[owner[requests[q].session]] = requests[q].tenant
      BY <1>1, <2>1 DEF ApiInductive, RequestsOK, RequestOK
    <2> QED BY <1>1, <2>1 DEF ApiInv, ActsInOwnTenant, ApiInductive
  <1> QED BY <1>1, ApiInductiveHolds, PTL

(* A change behind requireCsrf (csrf.ts) is made for the session whose token  *)
(* the page read, though another page may have signed in to another account   *)
(* before the request left.  The cookies of a request travel together, and    *)
(* the proof compares the header with the CSRF cookie of that same request.   *)
THEOREM ApiPageSession == ApiSpec => []ChangesForPageSession
  <1>1. ASSUME ApiInductive
        PROVE  ChangesForPageSession
    <2>1. SUFFICES ASSUME NEW q \in Requests, At(q, "handle"),
                          NEW i \in 1..Len(Stages[requests[q].route]),
                          Stages[requests[q].route][i] = "csrf"
                   PROVE  ActingSession(q) # Absent /\ ActingSession(q) = requests[q].header
      BY DEF ChangesForPageSession
    <2>2. PICK r : r = requests[q]
      OBVIOUS
    <2>3. /\ r \in Request /\ RequestOK(r) /\ Open(r) /\ r.route \in Routes
          /\ r.stage \in 1..Len(Stages[r.route]) /\ Stages[r.route][r.stage] = "handle"
      BY <1>1, <2>1, <2>2, AtStage DEF ApiInductive
    <2>4. r.stage = Len(Stages[r.route]) /\ i # r.stage
      BY <2>1, <2>2, <2>3, StagesOf
    <2>5. \A n \in 3..8 : \A j \in 1..n : j # n => j \in 1..n - 1
      OBVIOUS
    <2>6. i \in 1..r.stage - 1
      BY <2>1, <2>2, <2>3, <2>4, <2>5, StagesOf
    <2>7. HasPassed(r, "csrf")
      BY <2>1, <2>2, <2>6 DEF HasPassed
    <2> QED BY <2>2, <2>3, <2>7 DEF RequestOK, Acting, ActingSession
  <1> QED BY <1>1, ApiInductiveHolds, PTL

(* createRateLimiter (rateLimit.ts) admits a caller to the handlers behind it *)
(* at most Limit times in a window, however many sessions the caller opens    *)
(* and however its requests interleave.                                       *)
THEOREM ApiAttempts == ApiSpec => []AttemptsLimited
  <1>1. ASSUME ApiInductive
        PROVE  AttemptsLimited
    <2>1. ASSUME NEW c \in Callers
          PROVE  attempts[c] <= Limit
      <3>1. attempts[c] + Cardinality(Within(c)) <= Limit
        BY <1>1 DEF ApiInductive, BudgetsOK
      <3>2. attempts[c] \in Nat /\ Limit \in Nat
        BY <1>1, BudgetTypes DEF ApiInductive
      <3> QED BY <3>1, <3>2, WithinFinite
    <2> QED BY <2>1 DEF AttemptsLimited
  <1> QED BY <1>1, ApiInductiveHolds, PTL

-----------------------------------------------------------------------------
(* Cookies and sessions end together.  A request with a session that gets    *)
(* its answer is refused, which leaves both, or reaches the handler of a     *)
(* signed route.                                                             *)

LEMMA AnswerShown ==
  ASSUME ApiTypeOK, NEW q \in Requests, NEW a, NEW change, Become(q, Answered(q, a, change))
  PROVE  requests'[q].change = change
  BY DEF Become, Answered, NoRequest, ApiTypeOK

LEMMA RefusalKeeps ==
  ASSUME ApiTypeOK, NEW q \in Requests, NEW answers, Refuse(q, answers)
  PROVE  requests'[q].change = "keep"
  <1>1. PICK a \in answers : Become(q, Answered(q, a, "keep"))
    BY DEF Refuse
  <1> QED BY <1>1, AnswerShown

LEMMA StillOpen ==
  ASSUME ApiTypeOK, NEW q \in Requests, requests[q].answer = NoRequest.answer,
         Become(q, Passing(q))
  PROVE  requests'[q].answer = NoRequest.answer
  <1>1. requests[q] \in Request /\ requests'[q] = Passing(q)
    BY DEF Become, ApiTypeOK
  <1> QED BY <1>1 DEF Passing, Request

Ends(q) ==
  /\ requests[q].session \in live \ live' => requests'[q].change = "clear"
  /\ requests'[q].change = "clear" => requests[q].session \notin live'

LEMMA CookiesStep ==
  ASSUME ApiInductive, ApiNext, NEW x \in Requests, requests[x].session # Absent,
         requests[x].answer = NoRequest.answer, requests'[x].answer # NoRequest.answer
  PROVE  Ends(x)
  <1>1. ApiTypeOK /\ RequestOK(requests[x]) /\ requests[x] \in Request
    BY DEF ApiInductive, RequestsOK, ApiTypeOK
  <1>2. /\ requests[x].stage > 3 /\ requests[x].route \in SignedRoutes
        /\ requests[x].session \in Sessions
    BY <1>1 DEF RequestOK, Open
  <1>3. ASSUME NEW q \in Requests, NEW r, Become(q, r)
        PROVE  q = x
    <2>1. CASE q # x
      <3>1. requests'[x] = requests[x]
        BY <1>1, <1>3, <2>1 DEF Become, ApiTypeOK
      <3> QED BY <3>1
    <2> QED BY <2>1
  <1>4. ASSUME NEW q \in Requests, NEW answers, Refuse(q, answers), UNCHANGED live
        PROVE  Ends(x)
    <2>1. PICK a \in answers : Become(q, Answered(q, a, "keep"))
      BY <1>4 DEF Refuse
    <2>2. q = x /\ requests'[x].change = "keep"
      BY <1>1, <1>3, <1>4, <2>1, RefusalKeeps
    <2> QED BY <1>4, <2>2 DEF Ends
  <1>5. ASSUME NEW q \in Requests, Become(q, Passing(q))
        PROVE  FALSE
    BY <1>1, <1>3, <1>5, StillOpen
  <1>6. ASSUME NEW q \in Requests, NEW names, Handles(q, names), q = x
        PROVE  requests[x].route \in names
    BY <1>6 DEF Handles
  <1>7. ASSUME NEW q \in Requests, NEW change, Succeed(q, change)
        PROVE  q = x /\ requests'[x].change = change
    <2>1. PICK a : Become(q, Answered(q, a, change))
      BY <1>7 DEF Succeed
    <2> QED BY <1>1, <1>3, <2>1, AnswerShown
  <1>8. ASSUME NEW q \in Requests,
               \/ ParseJson(q) \/ requireIdempotencyKey(q) \/ requireDelivery(q)
               \/ validateRequest(q) \/ requireAllowedOrigin(q) \/ requireCsrf(q)
               \/ createRateLimiter(q)
        PROVE  Ends(x)
    <2>1. UNCHANGED live /\ (Become(q, Passing(q)) \/ \E answers : Refuse(q, answers))
      BY <1>8 DEF ParseJson, requireIdempotencyKey, requireDelivery, validateRequest,
         requireAllowedOrigin, requireCsrf, createRateLimiter
    <2> QED BY <1>4, <1>5, <2>1
  <1>9. ASSUME NEW q \in Requests, Click(q) \/ Send(q) \/ Deliver(q)
        PROVE  Ends(x)
    <2>1. q = x
      BY <1>3, <1>9 DEF Click, Send, Deliver
    <2>2. requests[x] = NoRequest \/ requests[x].stage = 0 \/ requests[x].answer # NoRequest.answer
      BY <1>9, <2>1 DEF Click, Send, Deliver
    <2> QED BY <1>2, <2>2, NoRequestType
  <1>10. ASSUME NEW q \in Requests, tenantMiddleware(q) \/ authMiddleware(q)
         PROVE  Ends(x)
    <2>1. CASE UNCHANGED live /\ \E answers : Refuse(q, answers)
      BY <1>4, <2>1
    <2>2. CASE \E t : Become(q, [Passing(q) EXCEPT !.tenant = t])
      <3>1. PICK t : Become(q, [Passing(q) EXCEPT !.tenant = t])
        BY <2>2
      <3>2. q = x /\ requests'[x] = [Passing(x) EXCEPT !.tenant = t]
        BY <1>1, <1>3, <3>1 DEF Become, ApiTypeOK
      <3> QED BY <1>1, <3>2 DEF Passing, Request
    <2>3. CASE Become(q, [Passing(q) EXCEPT !.session = requests[q].cookies.access])
      <3>1. q = x /\ requests'[x] = [Passing(x) EXCEPT !.session = requests[x].cookies.access]
        BY <1>1, <1>3, <2>3 DEF Become, ApiTypeOK
      <3> QED BY <1>1, <3>1 DEF Passing, Request
    <2> QED BY <1>10, <2>1, <2>2, <2>3 DEF tenantMiddleware, authMiddleware
  <1>11. ASSUME NEW q \in Requests, Decline(q)
         PROVE  Ends(x)
    BY <1>4, <1>11 DEF Decline
  <1>12. ASSUME NEW q \in Requests, Serve(q)
         PROVE  Ends(x)
    <2>1. Succeed(q, "keep") /\ UNCHANGED live
      BY <1>12 DEF Serve
    <2>2. requests'[x].change = "keep"
      BY <1>7, <2>1
    <2> QED BY <2>1, <2>2 DEF Ends
  <1>13. ASSUME NEW q \in Requests, authenticate(q) \/ refreshSession(q) \/ confirmForAccount(q)
         PROVE  Ends(x)
    <2>1. Handles(q, {"login"}) \/ Handles(q, {"refresh"})
          \/ Handles(q, {"confirmPasswordReset", "confirmEmailChange"})
      BY <1>13 DEF authenticate, refreshSession, confirmForAccount
    <2>2. \E r : Become(q, r)
      BY <1>13 DEF authenticate, refreshSession, confirmForAccount, Succeed, Refuse
    <2>3. requests[x].route \in {"login", "refresh", "confirmPasswordReset", "confirmEmailChange"}
      BY <1>3, <1>6, <2>1, <2>2
    <2> QED BY <1>2, <2>3 DEF SignedRoutes
  <1>14. ASSUME NEW q \in Requests, revokeSession(q)
         PROVE  Ends(x)
    <2>1. PICK s \in Sessions :
            \/ Succeed(q, clearedBy(q, s)) /\ live' = live \ {s}
            \/ Refuse(q, appErrors(404, {"SESSION_NOT_FOUND"})) /\ UNCHANGED live
      BY <1>14 DEF revokeSession
    <2>2. CASE Succeed(q, clearedBy(q, s)) /\ live' = live \ {s}
      <3>1. q = x /\ requests'[x].change = clearedBy(x, s)
        BY <1>7, <2>2
      <3>2. CASE s = requests[x].session
        BY <2>2, <3>1, <3>2 DEF clearedBy, Ends
      <3>3. CASE s # requests[x].session
        BY <2>2, <3>1, <3>3 DEF clearedBy, Ends
      <3> QED BY <3>2, <3>3
    <2> QED BY <1>4, <2>1, <2>2
  <1>15. ASSUME NEW q \in Requests, logoutCurrent(q)
         PROVE  Ends(x)
    <2>1. CASE Succeed(q, "clear") /\ live' = live \ {requests[q].session}
      <3>1. q = x /\ requests'[x].change = "clear"
        BY <1>7, <2>1
      <3> QED BY <2>1, <3>1 DEF Ends
    <2> QED BY <1>4, <1>15, <2>1 DEF logoutCurrent
  <1>16. ASSUME NEW q \in Requests, endEverySession(q)
         PROVE  Ends(x)
    <2>1. /\ Succeed(q, "clear")
          /\ live' = live \ SessionsOf(owner[requests[q].session])
      BY <1>16 DEF endEverySession
    <2>2. q = x /\ requests'[x].change = "clear"
      BY <1>7, <2>1
    <2>3. requests[x].session \notin live'
      BY <2>1, <2>2 DEF SessionsOf
    <2> QED BY <2>2, <2>3 DEF Ends
  <1>17. ~ AccessCookieExpires /\ ~ SessionExpires
    BY DEF AccessCookieExpires, SessionExpires
  <1> QED BY <1>8, <1>9, <1>10, <1>11, <1>12, <1>13, <1>14, <1>15, <1>16, <1>17 DEF ApiNext

(* The answer to a request that ended its own session removes the cookies     *)
(* (clearAuthCookies in the controllers), and no answer removes them while    *)
(* the session of the request still lives.                                    *)
THEOREM ApiCookies == ApiSpec => CookiesEndWithSession
  <1>1. ASSUME ApiInductive, [ApiNext]_apiVars, NEW x \in Requests,
               requests[x].session # Absent, requests[x].answer = NoRequest.answer,
               requests'[x].answer # NoRequest.answer
        PROVE  /\ requests[x].session \in live \ live' => requests'[x].change = "clear"
               /\ requests'[x].change = "clear" => requests[x].session \notin live'
    <2>1. ApiNext
      BY <1>1 DEF apiVars
    <2> QED BY <1>1, <2>1, CookiesStep DEF Ends
  <1>2. ApiInductive /\ [ApiNext]_apiVars =>
          [\A q \in Requests :
             LET s == requests[q].session
             IN s # Absent /\ requests[q].answer = NoRequest.answer
                  /\ requests'[q].answer # NoRequest.answer
                  => /\ s \in live \ live' => requests'[q].change = "clear"
                     /\ requests'[q].change = "clear" => s \notin live']_apiVars
    BY <1>1
  <1> QED BY <1>2, ApiInductiveHolds, PTL DEF ApiSpec, CookiesEndWithSession
-----------------------------------------------------------------------------
(* Answers and the OpenAPI document.  Whatever a stage of a route answers   *)
(* stands in the row of the document for the route, or is one of the listed  *)
(* exceptions.                                                               *)

Given(r, row, answers) == \A a \in answers : a \in row \/ <<r, a>> \in Unannounced

\* What the stages before the validator answer.
Shields(r, row) ==
  /\ r \notin DOMAIN systemPaths => appErrors(400, tenantCodes) \subseteq row
  /\ r \in OriginRoutes => appErrors(403, {"INVALID_ORIGIN"}) \subseteq row
  /\ r \in SignedRoutes => appErrors(401, authenticationCodes) \subseteq row
  /\ r \in ProvedRoutes => appErrors(403, csrfCodes) \subseteq row
  /\ r \in KeyedRoutes => appErrors(400, idempotencyCodes) \subseteq row
  /\ r \in DeliveryRoutes => appErrors(503, {"ACCOUNT_DELIVERY_UNAVAILABLE"}) \subseteq row
  /\ r \in LimitedRoutes => <<429, rateLimitCodes[r]>> \in row

RowOK(r, row) ==
  /\ Shields(r, row)
  /\ r \in DOMAIN validated => Given(r, row, validated[r])
  /\ Given(r, row, refusals(r))
  /\ <<successOf(r), "OK">> \in row

LEMMA RefusalNames ==
  /\ DOMAIN accountRefusals =
       {"addUser", "login", "sellerProfile", "confirmEmailVerification",
        "confirmPasswordReset", "confirmEmailChange", "updateProfile", "changePassword",
        "requestEmailChange", "deactivateAccount", "logout", "session"}
  /\ DOMAIN productRefusals =
       {"productDetail", "addProduct", "updateProduct", "updateInventory", "updateStatus"}
  /\ DOMAIN commerceRefusals =
       {"setCartItem", "addWatchlist", "getCheckoutQuote", "createOrder",
        "updateOrderStatus", "createReview", "updateNotificationRead", "updateAddress",
        "deleteAddress"}
  BY DEF accountRefusals, productRefusals, commerceRefusals

LEMMA SystemRows ==
  ASSUME NEW r \in DOMAIN systemPaths
  PROVE  RowOK(r, systemPaths[r])
  <1>1. r \in {"getRoot", "getHealth", "getReady"}
    BY DEF systemPaths
  <1>2. Shields(r, systemPaths[r])
    BY <1>1, LimitedNames DEF Shields, systemPaths, appErrors, tenantCodes,
       authenticationCodes, csrfCodes, idempotencyCodes, OriginRoutes, SignedRoutes,
       ProvedRoutes, KeyedRoutes, DeliveryRoutes
  <1>3. r \in DOMAIN validated => Given(r, systemPaths[r], validated[r])
    BY <1>1, ValidatedNames DEF Given, validated, systemPaths, Faults, appErrors,
       Unannounced, tenantCodes, idempotencyCodes
  <1>4. Given(r, systemPaths[r], refusals(r))
    BY <1>1, RefusalNames DEF Given, refusals, systemPaths, appErrors, Unannounced
  <1>5. <<successOf(r), "OK">> \in systemPaths[r]
    BY <1>1 DEF successOf, created, accepted, emptied, systemPaths, Success
  <1> QED BY <1>2, <1>3, <1>4, <1>5 DEF RowOK

LEMMA EmailVerificationRows ==
  ASSUME NEW r \in DOMAIN emailVerificationPaths
  PROVE  RowOK(r, emailVerificationPaths[r])
  <1>1. r \in {"login", "requestEmailVerification", "confirmEmailVerification"}
    BY DEF emailVerificationPaths
  <1>2. Shields(r, emailVerificationPaths[r])
    BY <1>1, LimitedNames DEF Shields, emailVerificationPaths, authErrorCodes,
       accountSecurityErrorCodes, appErrors, tenantCodes, authenticationCodes,
       csrfCodes, idempotencyCodes, rateLimitCodes, OriginRoutes, SignedRoutes,
       ProvedRoutes, KeyedRoutes, DeliveryRoutes
  <1>3. r \in DOMAIN validated => Given(r, emailVerificationPaths[r], validated[r])
    BY <1>1, ValidatedNames DEF Given, validated, emailVerificationPaths,
       authErrorCodes, accountSecurityErrorCodes, validateAccountRequest,
       validateAccountTokenConfirmation, validateLoginPayload, Faults, appErrors,
       Unannounced, tenantCodes, idempotencyCodes
  <1>4. Given(r, emailVerificationPaths[r], refusals(r))
    BY <1>1, RefusalNames DEF Given, refusals, accountRefusals, emailVerificationPaths,
       authErrorCodes, accountSecurityErrorCodes, appErrors, Unannounced
  <1>5. <<successOf(r), "OK">> \in emailVerificationPaths[r]
    BY <1>1 DEF successOf, created, accepted, emptied, emailVerificationPaths, Success
  <1> QED BY <1>2, <1>3, <1>4, <1>5 DEF RowOK

LEMMA PasswordResetRows ==
  ASSUME NEW r \in DOMAIN passwordResetPaths
  PROVE  RowOK(r, passwordResetPaths[r])
  <1>1. r \in {"requestPasswordReset", "confirmPasswordReset", "confirmEmailChange"}
    BY DEF passwordResetPaths
  <1>2. Shields(r, passwordResetPaths[r])
    BY <1>1, LimitedNames DEF Shields, passwordResetPaths, accountSecurityErrorCodes,
       accountManagementErrorCodes, appErrors, tenantCodes, authenticationCodes,
       csrfCodes, idempotencyCodes, rateLimitCodes, OriginRoutes, SignedRoutes,
       ProvedRoutes, KeyedRoutes, DeliveryRoutes
  <1>3. r \in DOMAIN validated => Given(r, passwordResetPaths[r], validated[r])
    BY <1>1, ValidatedNames DEF Given, validated, passwordResetPaths,
       accountSecurityErrorCodes, accountManagementErrorCodes, validateAccountRequest,
       validateAccountTokenConfirmation, validatePasswordResetConfirmation, Faults,
       appErrors, Unannounced, tenantCodes, idempotencyCodes
  <1>4. Given(r, passwordResetPaths[r], refusals(r))
    BY <1>1, RefusalNames DEF Given, refusals, accountRefusals, passwordResetPaths,
       accountSecurityErrorCodes, accountManagementErrorCodes, appErrors, Unannounced
  <1>5. <<successOf(r), "OK">> \in passwordResetPaths[r]
    BY <1>1 DEF successOf, created, accepted, emptied, passwordResetPaths, Success
  <1> QED BY <1>2, <1>3, <1>4, <1>5 DEF RowOK

LEMMA ProfileRows ==
  ASSUME NEW r \in DOMAIN profilePaths
  PROVE  RowOK(r, profilePaths[r])
  <1>1. r \in {"updateProfile", "changePassword"}
    BY DEF profilePaths
  <1>2. Shields(r, profilePaths[r])
    BY <1>1, LimitedNames DEF Shields, profilePaths, accountManagementErrorCodes,
       appErrors, tenantCodes, authenticationCodes, csrfCodes, idempotencyCodes,
       rateLimitCodes, OriginRoutes, SignedRoutes, ProvedRoutes, KeyedRoutes,
       DeliveryRoutes
  <1>3. r \in DOMAIN validated => Given(r, profilePaths[r], validated[r])
    BY <1>1, ValidatedNames DEF Given, validated, profilePaths,
       accountManagementErrorCodes, validatePasswordChange, validateProfileUpdate,
       Faults, appErrors, Unannounced, tenantCodes, idempotencyCodes
  <1>4. Given(r, profilePaths[r], refusals(r))
    BY <1>1, RefusalNames DEF Given, refusals, accountRefusals, profilePaths,
       accountManagementErrorCodes, appErrors, Unannounced
  <1>5. <<successOf(r), "OK">> \in profilePaths[r]
    BY <1>1 DEF successOf, created, accepted, emptied, profilePaths, Success
  <1> QED BY <1>2, <1>3, <1>4, <1>5 DEF RowOK

LEMMA AccountChangeRows ==
  ASSUME NEW r \in DOMAIN accountChangePaths
  PROVE  RowOK(r, accountChangePaths[r])
  <1>1. r \in {"requestEmailChange", "deactivateAccount"}
    BY DEF accountChangePaths
  <1>2. Shields(r, accountChangePaths[r])
    BY <1>1, LimitedNames DEF Shields, accountChangePaths, accountManagementErrorCodes,
       appErrors, tenantCodes, authenticationCodes, csrfCodes, idempotencyCodes,
       rateLimitCodes, OriginRoutes, SignedRoutes, ProvedRoutes, KeyedRoutes,
       DeliveryRoutes
  <1>3. r \in DOMAIN validated => Given(r, accountChangePaths[r], validated[r])
    BY <1>1, ValidatedNames DEF Given, validated, accountChangePaths,
       accountManagementErrorCodes, validateAccountDeactivation,
       validateEmailChangeRequest, Faults, appErrors, Unannounced, tenantCodes,
       idempotencyCodes
  <1>4. Given(r, accountChangePaths[r], refusals(r))
    BY <1>1, RefusalNames DEF Given, refusals, accountRefusals, accountChangePaths,
       accountManagementErrorCodes, appErrors, Unannounced
  <1>5. <<successOf(r), "OK">> \in accountChangePaths[r]
    BY <1>1 DEF successOf, created, accepted, emptied, accountChangePaths, Success
  <1> QED BY <1>2, <1>3, <1>4, <1>5 DEF RowOK

LEMMA SessionPathRows ==
  ASSUME NEW r \in DOMAIN sessionPaths
  PROVE  RowOK(r, sessionPaths[r])
  <1>1. r \in {"session", "refresh", "sessions", "revokeSession", "logoutCurrent",
         "logout"}
    BY DEF sessionPaths
  <1>2. Shields(r, sessionPaths[r])
    BY <1>1, LimitedNames DEF Shields, sessionPaths, authErrorCodes, appErrors,
       tenantCodes, authenticationCodes, csrfCodes, idempotencyCodes, OriginRoutes,
       SignedRoutes, ProvedRoutes, KeyedRoutes, DeliveryRoutes
  <1>3. r \in DOMAIN validated => Given(r, sessionPaths[r], validated[r])
    BY <1>1, ValidatedNames DEF Given, validated, sessionPaths, authErrorCodes,
       validateResourceId, Faults, appErrors, Unannounced, tenantCodes,
       idempotencyCodes
  <1>4. Given(r, sessionPaths[r], refusals(r))
    BY <1>1, RefusalNames DEF Given, refusals, accountRefusals, sessionPaths,
       authErrorCodes, authenticationCodes, appErrors, Unannounced
  <1>5. <<successOf(r), "OK">> \in sessionPaths[r]
    BY <1>1 DEF successOf, created, accepted, emptied, sessionPaths, Success
  <1> QED BY <1>2, <1>3, <1>4, <1>5 DEF RowOK

LEMMA UserRows ==
  ASSUME NEW r \in DOMAIN userPaths
  PROVE  RowOK(r, userPaths[r])
  <1>1. r \in {"addUser", "sellerProfile", "listBySeller"}
    BY DEF userPaths
  <1>2. Shields(r, userPaths[r])
    BY <1>1, LimitedNames DEF Shields, userPaths, userErrorCodes, productErrorCodes,
       appErrors, tenantCodes, authenticationCodes, csrfCodes, idempotencyCodes,
       rateLimitCodes, OriginRoutes, SignedRoutes, ProvedRoutes, KeyedRoutes,
       DeliveryRoutes
  <1>3. r \in DOMAIN validated => Given(r, userPaths[r], validated[r])
    BY <1>1, ValidatedNames DEF Given, validated, userPaths, userErrorCodes,
       productErrorCodes, validateCreateUserPayload, validateProductFilters,
       validateSellerId, Faults, appErrors, Unannounced, tenantCodes, idempotencyCodes
  <1>4. Given(r, userPaths[r], refusals(r))
    BY <1>1, RefusalNames DEF Given, refusals, accountRefusals, userPaths,
       userErrorCodes, productErrorCodes, appErrors, Unannounced
  <1>5. <<successOf(r), "OK">> \in userPaths[r]
    BY <1>1 DEF successOf, created, accepted, emptied, userPaths, Success
  <1> QED BY <1>2, <1>3, <1>4, <1>5 DEF RowOK

LEMMA ProductRows ==
  ASSUME NEW r \in DOMAIN productPaths
  PROVE  RowOK(r, productPaths[r])
  <1>1. r \in {"indexProducts", "addProduct"}
    BY DEF productPaths
  <1>2. Shields(r, productPaths[r])
    BY <1>1, LimitedNames DEF Shields, productPaths, productErrorCodes, appErrors,
       tenantCodes, authenticationCodes, csrfCodes, idempotencyCodes, OriginRoutes,
       SignedRoutes, ProvedRoutes, KeyedRoutes, DeliveryRoutes
  <1>3. r \in DOMAIN validated => Given(r, productPaths[r], validated[r])
    BY <1>1, ValidatedNames DEF Given, validated, productPaths, productErrorCodes,
       validateCreateProductPayload, validateProductFilters, exactMoneyFaults, Faults,
       appErrors, Unannounced, tenantCodes, idempotencyCodes
  <1>4. Given(r, productPaths[r], refusals(r))
    BY <1>1, RefusalNames DEF Given, refusals, productRefusals, productPaths,
       productErrorCodes, appErrors, Unannounced
  <1>5. <<successOf(r), "OK">> \in productPaths[r]
    BY <1>1 DEF successOf, created, accepted, emptied, productPaths, Success
  <1> QED BY <1>2, <1>3, <1>4, <1>5 DEF RowOK

LEMMA ProductChangeRows ==
  ASSUME NEW r \in DOMAIN productChangePaths
  PROVE  RowOK(r, productChangePaths[r])
  <1>1. r \in {"productDetail", "updateProduct", "updateInventory", "updateStatus"}
    BY DEF productChangePaths
  <1>2. Shields(r, productChangePaths[r])
    <2>1. /\ tenantCodes \subseteq productErrorCodes.detail
          /\ tenantCodes \subseteq productErrorCodes.update
          /\ tenantCodes \subseteq productErrorCodes.inventory
          /\ tenantCodes \subseteq productErrorCodes.status
          /\ productErrorCodes.authentication = authenticationCodes
          /\ csrfCodes \subseteq productErrorCodes.ownership
      BY DEF productErrorCodes
    <2> QED BY <1>1, <2>1, LimitedNames
         DEF Shields, productChangePaths, appErrors, OriginRoutes, SignedRoutes,
             ProvedRoutes, KeyedRoutes, DeliveryRoutes
  <1>3. r \in DOMAIN validated => Given(r, productChangePaths[r], validated[r])
    BY <1>1, ValidatedNames DEF Given, validated, productChangePaths,
       productErrorCodes, shapeFaults, validateProductId, validateUpdateProductPayload,
       exactMoneyFaults, Faults, appErrors, Unannounced, tenantCodes, idempotencyCodes
  <1>4. Given(r, productChangePaths[r], refusals(r))
    BY <1>1, RefusalNames DEF Given, refusals, productRefusals, productChangePaths,
       productErrorCodes, ownedProduct, appErrors, Unannounced
  <1>5. <<successOf(r), "OK">> \in productChangePaths[r]
    BY <1>1 DEF successOf, created, accepted, emptied, productChangePaths, Success
  <1> QED BY <1>2, <1>3, <1>4, <1>5 DEF RowOK

LEMMA AddressRows ==
  ASSUME NEW r \in DOMAIN addressPaths
  PROVE  RowOK(r, addressPaths[r])
  <1>1. r \in {"getCart", "listAddresses", "createAddress", "updateAddress",
         "deleteAddress"}
    BY DEF addressPaths
  <1>2. Shields(r, addressPaths[r])
    BY <1>1, LimitedNames DEF Shields, addressPaths, cartErrorCodes,
       deliveryErrorCodes, appErrors, tenantCodes, authenticationCodes, csrfCodes,
       idempotencyCodes, OriginRoutes, SignedRoutes, ProvedRoutes, KeyedRoutes,
       DeliveryRoutes
  <1>3. r \in DOMAIN validated => Given(r, addressPaths[r], validated[r])
    BY <1>1, ValidatedNames DEF Given, validated, addressPaths, cartErrorCodes,
       deliveryErrorCodes, validateDeliveryAddress, validateResourceId, Faults,
       appErrors, Unannounced, tenantCodes, idempotencyCodes
  <1>4. Given(r, addressPaths[r], refusals(r))
    BY <1>1, RefusalNames DEF Given, refusals, commerceRefusals, addressPaths,
       cartErrorCodes, deliveryErrorCodes, appErrors, Unannounced
  <1>5. <<successOf(r), "OK">> \in addressPaths[r]
    BY <1>1 DEF successOf, created, accepted, emptied, addressPaths, Success
  <1> QED BY <1>2, <1>3, <1>4, <1>5 DEF RowOK

LEMMA CartItemRows ==
  ASSUME NEW r \in DOMAIN cartItemPaths
  PROVE  RowOK(r, cartItemPaths[r])
  <1>1. r \in {"setCartItem", "removeCartItem"}
    BY DEF cartItemPaths
  <1>2. Shields(r, cartItemPaths[r])
    BY <1>1, LimitedNames DEF Shields, cartItemPaths, cartErrorCodes, appErrors,
       tenantCodes, authenticationCodes, csrfCodes, idempotencyCodes, OriginRoutes,
       SignedRoutes, ProvedRoutes, KeyedRoutes, DeliveryRoutes
  <1>3. r \in DOMAIN validated => Given(r, cartItemPaths[r], validated[r])
    BY <1>1, ValidatedNames DEF Given, validated, cartItemPaths, cartErrorCodes,
       shapeFaults, validateResourceId, Faults, appErrors, Unannounced, tenantCodes,
       idempotencyCodes
  <1>4. Given(r, cartItemPaths[r], refusals(r))
    BY <1>1, RefusalNames DEF Given, refusals, commerceRefusals, cartItemPaths,
       cartErrorCodes, appErrors, Unannounced
  <1>5. <<successOf(r), "OK">> \in cartItemPaths[r]
    BY <1>1 DEF successOf, created, accepted, emptied, cartItemPaths, Success
  <1> QED BY <1>2, <1>3, <1>4, <1>5 DEF RowOK

LEMMA WatchlistRows ==
  ASSUME NEW r \in DOMAIN watchlistPaths
  PROVE  RowOK(r, watchlistPaths[r])
  <1>1. r \in {"listWatchlist", "addWatchlist", "removeWatchlist"}
    BY DEF watchlistPaths
  <1>2. Shields(r, watchlistPaths[r])
    BY <1>1, LimitedNames DEF Shields, watchlistPaths, watchlistErrorCodes, appErrors,
       tenantCodes, authenticationCodes, csrfCodes, idempotencyCodes, OriginRoutes,
       SignedRoutes, ProvedRoutes, KeyedRoutes, DeliveryRoutes
  <1>3. r \in DOMAIN validated => Given(r, watchlistPaths[r], validated[r])
    BY <1>1, ValidatedNames DEF Given, validated, watchlistPaths, watchlistErrorCodes,
       validateResourceId, Faults, appErrors, Unannounced, tenantCodes,
       idempotencyCodes
  <1>4. Given(r, watchlistPaths[r], refusals(r))
    BY <1>1, RefusalNames DEF Given, refusals, commerceRefusals, watchlistPaths,
       watchlistErrorCodes, appErrors, Unannounced
  <1>5. <<successOf(r), "OK">> \in watchlistPaths[r]
    BY <1>1 DEF successOf, created, accepted, emptied, watchlistPaths, Success
  <1> QED BY <1>2, <1>3, <1>4, <1>5 DEF RowOK

LEMMA OrderRows ==
  ASSUME NEW r \in DOMAIN orderPaths
  PROVE  RowOK(r, orderPaths[r])
  <1>1. r \in {"listOrders", "createOrder", "getCheckoutQuote"}
    BY DEF orderPaths
  <1>2. Shields(r, orderPaths[r])
    BY <1>1, LimitedNames DEF Shields, orderPaths, orderErrorCodes, appErrors,
       tenantCodes, authenticationCodes, csrfCodes, idempotencyCodes, OriginRoutes,
       SignedRoutes, ProvedRoutes, KeyedRoutes, DeliveryRoutes
  <1>3. r \in DOMAIN validated => Given(r, orderPaths[r], validated[r])
    BY <1>1, ValidatedNames DEF Given, validated, orderPaths, orderErrorCodes,
       shapeFaults, Faults, appErrors, Unannounced, tenantCodes, idempotencyCodes
  <1>4. Given(r, orderPaths[r], refusals(r))
    BY <1>1, RefusalNames DEF Given, refusals, commerceRefusals, orderPaths,
       orderErrorCodes, pricingRefusals, appErrors, Unannounced
  <1>5. <<successOf(r), "OK">> \in orderPaths[r]
    BY <1>1 DEF successOf, created, accepted, emptied, orderPaths, Success
  <1> QED BY <1>2, <1>3, <1>4, <1>5 DEF RowOK

LEMMA OperationRows ==
  ASSUME NEW r \in DOMAIN operationPaths
  PROVE  RowOK(r, operationPaths[r])
  <1>1. r \in {"getSellerOperations", "updateOrderStatus"}
    BY DEF operationPaths
  <1>2. Shields(r, operationPaths[r])
    BY <1>1, LimitedNames DEF Shields, operationPaths, sellerOperationsErrorCodes,
       orderErrorCodes, appErrors, tenantCodes, authenticationCodes, csrfCodes,
       idempotencyCodes, OriginRoutes, SignedRoutes, ProvedRoutes, KeyedRoutes,
       DeliveryRoutes
  <1>3. r \in DOMAIN validated => Given(r, operationPaths[r], validated[r])
    BY <1>1, ValidatedNames DEF Given, validated, operationPaths,
       sellerOperationsErrorCodes, orderErrorCodes, shapeFaults, validateResourceId,
       Faults, appErrors, Unannounced, tenantCodes, idempotencyCodes
  <1>4. Given(r, operationPaths[r], refusals(r))
    BY <1>1, RefusalNames DEF Given, refusals, commerceRefusals, operationPaths,
       sellerOperationsErrorCodes, orderErrorCodes, appErrors, Unannounced
  <1>5. <<successOf(r), "OK">> \in operationPaths[r]
    BY <1>1 DEF successOf, created, accepted, emptied, operationPaths, Success
  <1> QED BY <1>2, <1>3, <1>4, <1>5 DEF RowOK

LEMMA ReviewRows ==
  ASSUME NEW r \in DOMAIN reviewPaths
  PROVE  RowOK(r, reviewPaths[r])
  <1>1. r \in {"listReviews", "createReview"}
    BY DEF reviewPaths
  <1>2. Shields(r, reviewPaths[r])
    BY <1>1, LimitedNames DEF Shields, reviewPaths, reviewErrorCodes, appErrors,
       tenantCodes, authenticationCodes, csrfCodes, idempotencyCodes, OriginRoutes,
       SignedRoutes, ProvedRoutes, KeyedRoutes, DeliveryRoutes
  <1>3. r \in DOMAIN validated => Given(r, reviewPaths[r], validated[r])
    BY <1>1, ValidatedNames DEF Given, validated, reviewPaths, reviewErrorCodes,
       shapeFaults, validateResourceId, Faults, appErrors, Unannounced, tenantCodes,
       idempotencyCodes
  <1>4. Given(r, reviewPaths[r], refusals(r))
    BY <1>1, RefusalNames DEF Given, refusals, commerceRefusals, reviewPaths,
       reviewErrorCodes, appErrors, Unannounced
  <1>5. <<successOf(r), "OK">> \in reviewPaths[r]
    BY <1>1 DEF successOf, created, accepted, emptied, reviewPaths, Success
  <1> QED BY <1>2, <1>3, <1>4, <1>5 DEF RowOK

LEMMA NotificationRows ==
  ASSUME NEW r \in DOMAIN notificationPaths
  PROVE  RowOK(r, notificationPaths[r])
  <1>1. r \in {"listNotifications", "countUnreadNotifications",
         "updateNotificationRead"}
    BY DEF notificationPaths
  <1>2. Shields(r, notificationPaths[r])
    BY <1>1, LimitedNames DEF Shields, notificationPaths, notificationErrorCodes,
       appErrors, tenantCodes, authenticationCodes, csrfCodes, idempotencyCodes,
       OriginRoutes, SignedRoutes, ProvedRoutes, KeyedRoutes, DeliveryRoutes
  <1>3. r \in DOMAIN validated => Given(r, notificationPaths[r], validated[r])
    BY <1>1, ValidatedNames DEF Given, validated, notificationPaths,
       notificationErrorCodes, shapeFaults, validateResourceId, Faults, appErrors,
       Unannounced, tenantCodes, idempotencyCodes
  <1>4. Given(r, notificationPaths[r], refusals(r))
    BY <1>1, RefusalNames DEF Given, refusals, commerceRefusals, notificationPaths,
       notificationErrorCodes, appErrors, Unannounced
  <1>5. <<successOf(r), "OK">> \in notificationPaths[r]
    BY <1>1 DEF successOf, created, accepted, emptied, notificationPaths, Success
  <1> QED BY <1>2, <1>3, <1>4, <1>5 DEF RowOK

LEMMA PathNames ==
  /\ DOMAIN systemPaths = {"getRoot", "getHealth", "getReady"}
  /\ DOMAIN emailVerificationPaths =
       {"login", "requestEmailVerification", "confirmEmailVerification"}
  /\ DOMAIN passwordResetPaths =
       {"requestPasswordReset", "confirmPasswordReset", "confirmEmailChange"}
  /\ DOMAIN profilePaths = {"updateProfile", "changePassword"}
  /\ DOMAIN accountChangePaths = {"requestEmailChange", "deactivateAccount"}
  /\ DOMAIN sessionPaths =
       {"session", "refresh", "sessions", "revokeSession", "logoutCurrent", "logout"}
  /\ DOMAIN userPaths = {"addUser", "sellerProfile", "listBySeller"}
  /\ DOMAIN productPaths = {"indexProducts", "addProduct"}
  /\ DOMAIN productChangePaths =
       {"productDetail", "updateProduct", "updateInventory", "updateStatus"}
  /\ DOMAIN addressPaths =
       {"getCart", "listAddresses", "createAddress", "updateAddress", "deleteAddress"}
  /\ DOMAIN cartItemPaths = {"setCartItem", "removeCartItem"}
  /\ DOMAIN watchlistPaths = {"listWatchlist", "addWatchlist", "removeWatchlist"}
  /\ DOMAIN orderPaths = {"listOrders", "createOrder", "getCheckoutQuote"}
  /\ DOMAIN operationPaths = {"getSellerOperations", "updateOrderStatus"}
  /\ DOMAIN reviewPaths = {"listReviews", "createReview"}
  /\ DOMAIN notificationPaths =
       {"listNotifications", "countUnreadNotifications", "updateNotificationRead"}
  BY DEF systemPaths, emailVerificationPaths, passwordResetPaths, profilePaths,
     accountChangePaths, sessionPaths, userPaths, productPaths, productChangePaths,
     addressPaths, cartItemPaths, watchlistPaths, orderPaths, operationPaths,
     reviewPaths, notificationPaths

(* Every route of routes.ts has a row in the document. *)
LEMMA RoutesInPaths ==
  ASSUME NEW r \in Routes
  PROVE  \E paths \in Paths : r \in DOMAIN paths
  BY PublicNames, TableNames, PathNames DEF Routes, Paths

LEMMA RowsOK ==
  ASSUME NEW paths \in Paths, NEW r \in DOMAIN paths
  PROVE  RowOK(r, paths[r])
  BY SystemRows, EmailVerificationRows, PasswordResetRows, ProfileRows, AccountChangeRows,
     SessionPathRows, UserRows, ProductRows, ProductChangeRows, AddressRows, CartItemRows,
     WatchlistRows, OrderRows, OperationRows, ReviewRows, NotificationRows
  DEF Paths

LEMMA DocumentedOK ==
  ASSUME NEW r \in Routes
  PROVE  RowOK(r, Documented(r))
  <1>1. PICK paths \in Paths : r \in DOMAIN paths
    BY RoutesInPaths
  <1>2. RowOK(r, paths[r])
    BY <1>1, RowsOK
  <1>3. paths[r] \subseteq Documented(r)
    BY <1>1 DEF Documented
  <1>4. Shields(r, Documented(r))
    BY <1>2, <1>3 DEF RowOK, Shields
  <1> QED BY <1>2, <1>3, <1>4 DEF RowOK, Given

LEMMA Exceptions ==
  /\ \A r \in Routes :
       /\ <<r, <<400, "INVALID_JSON_PAYLOAD">>>> \in Unannounced
       /\ <<r, <<500, "INTERNAL_SERVER_ERROR">>>> \in Unannounced
  /\ \A r \in DOMAIN systemPaths, a \in appErrors(400, tenantCodes) :
       <<r, a>> \in Unannounced
  /\ <<"logoutCurrent", <<404, "SESSION_NOT_FOUND">>>> \in Unannounced
  BY DEF Unannounced

(* What the answers of a route may be, wherever they are given. *)
Answerable(r, answers) == Given(r, Documented(r), answers)

RouteSays(r) ==
  /\ Answerable(r, appErrors(400, {"INVALID_JSON_PAYLOAD"}))
  /\ Answerable(r, appErrors(500, {"INTERNAL_SERVER_ERROR"}))
  /\ Answerable(r, appErrors(400, tenantCodes))
  /\ Answerable(r, refusals(r))
  /\ Answerable(r, {<<successOf(r), "OK">>})

LEMMA AnyAnswerable ==
  ASSUME NEW r \in Routes
  PROVE  RouteSays(r)
  <1>1. RowOK(r, Documented(r))
    BY DocumentedOK
  <1>2. ASSUME NEW status, NEW code, <<r, <<status, code>>>> \in Unannounced
        PROVE  Answerable(r, appErrors(status, {code}))
    BY <1>2 DEF Answerable, Given, appErrors
  <1>3. /\ Answerable(r, appErrors(400, {"INVALID_JSON_PAYLOAD"}))
        /\ Answerable(r, appErrors(500, {"INTERNAL_SERVER_ERROR"}))
    <2>1. /\ <<r, <<400, "INVALID_JSON_PAYLOAD">>>> \in Unannounced
          /\ <<r, <<500, "INTERNAL_SERVER_ERROR">>>> \in Unannounced
      BY Exceptions
    <2> QED BY <1>2, <2>1
  <1>4. Answerable(r, appErrors(400, tenantCodes))
    <2>1. CASE r \in DOMAIN systemPaths
      <3>1. \A a \in appErrors(400, tenantCodes) : <<r, a>> \in Unannounced
        BY <2>1, Exceptions
      <3> QED BY <3>1 DEF Answerable, Given
    <2>2. CASE r \notin DOMAIN systemPaths
      BY <1>1, <2>2 DEF RowOK, Shields, Answerable, Given
    <2> QED BY <2>1, <2>2
  <1> QED BY <1>1, <1>3, <1>4 DEF RouteSays, Answerable, Given, RowOK

StageSays(r, stage) ==
  /\ stage \in {"origin", "presentOrigin"} =>
       Answerable(r, appErrors(403, {"INVALID_ORIGIN"}))
  /\ stage = "auth" => Answerable(r, appErrors(401, authenticationCodes))
  /\ stage = "csrf" => Answerable(r, appErrors(403, csrfCodes))
  /\ stage = "idempotency" => Answerable(r, appErrors(400, idempotencyCodes))
  /\ stage = "delivery" =>
       Answerable(r, appErrors(503, {"ACCOUNT_DELIVERY_UNAVAILABLE"}))
  /\ stage = "limit" => Answerable(r, {<<429, rateLimitCodes[r]>>})
  /\ stage = "validate" => Answerable(r, validated[r])

LEMMA StageAnswerable ==
  ASSUME ApiTypeOK, RequestsOK, NEW q \in Requests, NEW stage, At(q, stage)
  PROVE  requests[q].route \in Routes /\ StageSays(requests[q].route, stage)
  <1>1. PICK r : r = requests[q].route
    OBVIOUS
  <1>2. /\ r \in Routes /\ requests[q].stage \in 1..Len(Stages[r])
        /\ Stages[r][requests[q].stage] = stage
    BY <1>1, AtStage
  <1>3. RowOK(r, Documented(r))
    BY <1>2, DocumentedOK
  <1>4. /\ stage \in {"origin", "presentOrigin"} => r \in OriginRoutes
        /\ stage = "auth" => r \in SignedRoutes
        /\ stage = "csrf" => r \in ProvedRoutes
        /\ stage = "idempotency" => r \in KeyedRoutes
        /\ stage = "delivery" => r \in DeliveryRoutes
        /\ stage = "limit" => r \in LimitedRoutes
        /\ stage = "validate" => r \in DOMAIN validated
    BY <1>2, StagesOf
  <1>5. StageSays(r, stage)
    BY <1>3, <1>4 DEF StageSays, RowOK, Shields, Answerable, Given
  <1> QED BY <1>1, <1>2, <1>5

LEMMA AnswersKept ==
  ASSUME ApiTypeOK, AnswersDocumented, NEW q \in Requests, NEW s, Become(q, s),
         s.answer # NoRequest.answer => Answerable(s.route, {s.answer})
  PROVE  AnswersDocumented'
  <1>1. requests'[q] = s /\ \A x \in Requests \ {q} : requests'[x] = requests[x]
    BY DEF Become, ApiTypeOK
  <1> QED BY <1>1 DEF AnswersDocumented, Answerable, Given

(* A request that is not answered yet has no answer to document. *)
LEMMA OpenKept ==
  ASSUME ApiTypeOK, AnswersDocumented, NEW q \in Requests, NEW s, Become(q, s),
         s.answer = NoRequest.answer
  PROVE  AnswersDocumented'
  BY AnswersKept

LEMMA PassingKept ==
  ASSUME ApiTypeOK, AnswersDocumented, NEW q \in Requests,
         requests[q].answer = NoRequest.answer, Become(q, Passing(q))
  PROVE  AnswersDocumented'
  <1>1. requests[q] \in Request
    BY DEF ApiTypeOK
  <1>2. Passing(q).answer = NoRequest.answer
    BY <1>1 DEF Passing, Request
  <1> QED BY <1>2, OpenKept

LEMMA AnswerDocumented ==
  ASSUME ApiTypeOK, AnswersDocumented, NEW q \in Requests, NEW answers, NEW a \in answers,
         NEW change, Become(q, Answered(q, a, change)),
         Answerable(requests[q].route, answers)
  PROVE  AnswersDocumented'
  <1>1. PICK s : s = Answered(q, a, change)
    OBVIOUS
  <1>2. s.route = requests[q].route /\ s.answer = a
    BY <1>1 DEF Answered, NoRequest
  <1> QED BY <1>1, <1>2, AnswersKept DEF Answerable, Given

LEMMA RefusalDocumented ==
  ASSUME ApiTypeOK, AnswersDocumented, NEW q \in Requests, NEW answers, Refuse(q, answers),
         Answerable(requests[q].route, answers)
  PROVE  AnswersDocumented'
  <1>1. PICK a \in answers : Become(q, Answered(q, a, "keep"))
    BY DEF Refuse
  <1> QED BY <1>1, AnswerDocumented

LEMMA SuccessDocumented ==
  ASSUME ApiTypeOK, AnswersDocumented, NEW q \in Requests, requests[q].route \in Routes,
         NEW change, Succeed(q, change)
  PROVE  AnswersDocumented'
  <1>1. Answerable(requests[q].route, {<<successOf(requests[q].route), "OK">>})
    BY AnyAnswerable DEF RouteSays
  <1>2. PICK a \in {<<successOf(requests[q].route), "OK">>} :
          Become(q, Answered(q, a, change))
    BY DEF Succeed
  <1> QED BY <1>1, <1>2, AnswerDocumented

LEMMA StagesDocumented ==
  ASSUME ApiTypeOK, RequestsOK, AnswersDocumented, NEW q \in Requests,
         \/ ParseJson(q) \/ tenantMiddleware(q) \/ requireAllowedOrigin(q)
         \/ authMiddleware(q) \/ requireCsrf(q) \/ requireIdempotencyKey(q)
         \/ requireDelivery(q) \/ createRateLimiter(q) \/ validateRequest(q)
  PROVE  AnswersDocumented'
  <1>1. requests[q] \in Request
    BY DEF ApiTypeOK
  <1>2. PICK r : r = requests[q].route
    OBVIOUS
  <1>3. ASSUME NEW stage, At(q, stage)
        PROVE  /\ requests[q].answer = NoRequest.answer
               /\ r \in Routes /\ StageSays(r, stage)
    <2>1. requests[q].answer = NoRequest.answer
      BY <1>3 DEF At
    <2> QED BY <1>2, <1>3, <2>1, StageAnswerable
  <1>4. ASSUME NEW stage, At(q, stage), Become(q, Passing(q))
        PROVE  AnswersDocumented'
    BY <1>3, <1>4, PassingKept
  <1>5. ASSUME NEW answers, Refuse(q, answers), Answerable(r, answers)
        PROVE  AnswersDocumented'
    BY <1>2, <1>5, RefusalDocumented
  <1>6. CASE ParseJson(q)
    <2>1. At(q, "json")
      BY <1>6 DEF ParseJson
    <2>2. Answerable(r, appErrors(400, {"INVALID_JSON_PAYLOAD"}))
      BY <1>3, <2>1, AnyAnswerable DEF RouteSays
    <2> QED BY <1>4, <1>5, <1>6, <2>1, <2>2 DEF ParseJson
  <1>7. CASE tenantMiddleware(q)
    <2>1. At(q, "tenant")
      BY <1>7 DEF tenantMiddleware
    <2>2. ASSUME NEW t, Become(q, [Passing(q) EXCEPT !.tenant = t])
          PROVE  AnswersDocumented'
      <3>1. [Passing(q) EXCEPT !.tenant = t].answer = NoRequest.answer
        BY <1>1, <1>3, <2>1 DEF Passing, Request
      <3> QED BY <2>2, <3>1, OpenKept
    <2>3. /\ Answerable(r, appErrors(400, {"TENANT_HEADER_REQUIRED"}))
          /\ Answerable(r, appErrors(400, {"INVALID_TENANT"}))
      <3>1. Answerable(r, appErrors(400, tenantCodes))
        BY <1>3, <2>1, AnyAnswerable DEF RouteSays
      <3> QED BY <3>1 DEF Answerable, Given, appErrors, tenantCodes
    <2> QED BY <1>5, <1>7, <2>2, <2>3 DEF tenantMiddleware
  <1>8. CASE requireAllowedOrigin(q)
    <2>1. PICK stage \in {"origin", "presentOrigin"} : At(q, stage)
      BY <1>8 DEF requireAllowedOrigin
    <2>2. StageSays(r, stage)
      BY <1>3, <2>1
    <2>3. Answerable(r, appErrors(403, {"INVALID_ORIGIN"}))
      BY <2>1, <2>2 DEF StageSays
    <2> QED BY <1>4, <1>5, <1>8, <2>1, <2>3 DEF requireAllowedOrigin
  <1>9. CASE authMiddleware(q)
    <2>1. At(q, "auth")
      BY <1>9 DEF authMiddleware
    <2>2. ASSUME NEW access, Become(q, [Passing(q) EXCEPT !.session = access])
          PROVE  AnswersDocumented'
      <3>1. [Passing(q) EXCEPT !.session = access].answer = NoRequest.answer
        BY <1>1, <1>3, <2>1 DEF Passing, Request
      <3> QED BY <2>2, <3>1, OpenKept
    <2>3. /\ Answerable(r, appErrors(401, {"AUTH_TOKEN_REQUIRED"}))
          /\ Answerable(r, appErrors(401, {"INVALID_AUTH_TOKEN"}))
      <3>1. Answerable(r, appErrors(401, authenticationCodes))
        BY <1>3, <2>1 DEF StageSays
      <3> QED BY <3>1 DEF Answerable, Given, appErrors, authenticationCodes
    <2> QED BY <1>5, <1>9, <2>2, <2>3 DEF authMiddleware
  <1>10. CASE requireCsrf(q)
    <2>1. At(q, "csrf")
      BY <1>10 DEF requireCsrf
    <2>2. Answerable(r, appErrors(403, csrfCodes))
      BY <1>3, <2>1 DEF StageSays
    <2> QED BY <1>4, <1>5, <1>10, <2>1, <2>2 DEF requireCsrf
  <1>11. CASE requireIdempotencyKey(q)
    <2>1. At(q, "idempotency")
      BY <1>11 DEF requireIdempotencyKey
    <2>2. Answerable(r, appErrors(400, idempotencyCodes))
      BY <1>3, <2>1 DEF StageSays
    <2> QED BY <1>4, <1>5, <1>11, <2>1, <2>2 DEF requireIdempotencyKey
  <1>12. CASE requireDelivery(q)
    <2>1. At(q, "delivery")
      BY <1>12 DEF requireDelivery
    <2>2. Answerable(r, appErrors(503, {"ACCOUNT_DELIVERY_UNAVAILABLE"}))
      BY <1>3, <2>1 DEF StageSays
    <2> QED BY <1>4, <1>5, <1>12, <2>1, <2>2 DEF requireDelivery
  <1>13. CASE createRateLimiter(q)
    <2>1. At(q, "limit")
      BY <1>13 DEF createRateLimiter
    <2>2. Answerable(r, {<<429, rateLimitCodes[r]>>})
      BY <1>3, <2>1 DEF StageSays
    <2>3. Become(q, Passing(q)) \/ Refuse(q, {<<429, rateLimitCodes[r]>>})
      BY <1>2, <1>13 DEF createRateLimiter
    <2> QED BY <1>4, <1>5, <2>1, <2>2, <2>3
  <1>14. CASE validateRequest(q)
    <2>1. At(q, "validate")
      BY <1>14 DEF validateRequest
    <2>2. Answerable(r, validated[r])
      BY <1>3, <2>1 DEF StageSays
    <2> QED BY <1>2, <1>4, <1>5, <1>14, <2>1, <2>2 DEF validateRequest
  <1> QED BY <1>6, <1>7, <1>8, <1>9, <1>10, <1>11, <1>12, <1>13, <1>14

LEMMA HandlersDocumented ==
  ASSUME ApiTypeOK, RequestsOK, AnswersDocumented, NEW q \in Requests,
         \/ Decline(q) \/ Serve(q) \/ authenticate(q) \/ refreshSession(q)
         \/ revokeSession(q) \/ logoutCurrent(q) \/ endEverySession(q)
         \/ confirmForAccount(q)
  PROVE  AnswersDocumented'
  <1>1. PICK r : r = requests[q].route
    OBVIOUS
  <1>2. At(q, "handle")
    BY DEF Decline, Serve, authenticate, refreshSession, revokeSession, logoutCurrent,
       endEverySession, confirmForAccount, Handles
  <1>3. r \in Routes
    BY <1>1, <1>2, AtStage
  <1>4. ASSUME NEW change, Succeed(q, change)
        PROVE  AnswersDocumented'
    BY <1>1, <1>3, <1>4, SuccessDocumented
  <1>5. CASE Decline(q)
    <2>1. r = "getReady" => Answerable(r, appErrors(503, {"NOT_READY"}))
      <3>1. systemPaths \in Paths /\ "getReady" \in DOMAIN systemPaths
            /\ <<503, "NOT_READY">> \in systemPaths["getReady"]
        BY DEF Paths, systemPaths
      <3>2. <<503, "NOT_READY">> \in Documented("getReady")
        BY <3>1 DEF Documented
      <3> QED BY <3>2 DEF Answerable, Given, appErrors
    <2>2. /\ Answerable(r, refusals(r))
          /\ Answerable(r, appErrors(500, {"INTERNAL_SERVER_ERROR"}))
      BY <1>3, AnyAnswerable DEF RouteSays
    <2> QED BY <1>1, <1>5, <2>1, <2>2, RefusalDocumented DEF Decline
  <1>6. CASE Serve(q) \/ authenticate(q) \/ endEverySession(q) \/ confirmForAccount(q)
    <2>1. \E change : Succeed(q, change)
      BY <1>6 DEF Serve, authenticate, endEverySession, confirmForAccount
    <2> QED BY <1>4, <2>1
  <1>7. CASE refreshSession(q)
    <2>1. r = "refresh"
      BY <1>1, <1>7 DEF refreshSession, Handles
    <2>2. sessionPaths \in Paths /\ "refresh" \in DOMAIN sessionPaths
          /\ <<409, "REFRESH_ALREADY_ROTATED">> \in sessionPaths["refresh"]
          /\ \A code \in {"INVALID_REFRESH_TOKEN", "SESSION_EXPIRED", "REFRESH_TOKEN_REUSED"} :
               <<401, code>> \in sessionPaths["refresh"]
      BY DEF Paths, sessionPaths, authErrorCodes, appErrors
    <2>3. Answerable(r, appErrors(409, {"REFRESH_ALREADY_ROTATED"}))
      BY <2>1, <2>2 DEF Documented, Answerable, Given, appErrors
    <2>4. ASSUME NEW code \in {"INVALID_REFRESH_TOKEN", "SESSION_EXPIRED",
                               "REFRESH_TOKEN_REUSED"},
                 Become(q, Answered(q, <<401, code>>, "clear"))
          PROVE  AnswersDocumented'
      <3>1. Answerable(r, {<<401, code>>})
        BY <2>1, <2>2 DEF Documented, Answerable, Given
      <3>2. PICK a \in {<<401, code>>} : Become(q, Answered(q, a, "clear"))
        BY <2>4
      <3> QED BY <1>1, <3>1, <3>2, AnswerDocumented
    <2>5. \/ \E change : Succeed(q, change)
          \/ Refuse(q, appErrors(409, {"REFRESH_ALREADY_ROTATED"}))
          \/ \E code \in {"INVALID_REFRESH_TOKEN", "SESSION_EXPIRED", "REFRESH_TOKEN_REUSED"} :
               Become(q, Answered(q, <<401, code>>, "clear"))
      BY <1>7 DEF refreshSession
    <2> QED BY <1>1, <1>4, <2>3, <2>4, <2>5, RefusalDocumented
  <1>8. CASE revokeSession(q) \/ logoutCurrent(q)
    <2>1. r \in {"revokeSession", "logoutCurrent"}
      BY <1>1, <1>8 DEF revokeSession, logoutCurrent, Handles
    <2>2. sessionPaths \in Paths /\ "revokeSession" \in DOMAIN sessionPaths
          /\ <<404, "SESSION_NOT_FOUND">> \in sessionPaths["revokeSession"]
      BY DEF Paths, sessionPaths, authErrorCodes, appErrors
    <2>3. Answerable(r, appErrors(404, {"SESSION_NOT_FOUND"}))
      BY <2>1, <2>2, Exceptions DEF Documented, Answerable, Given, appErrors
    <2>4. (\E change : Succeed(q, change)) \/ Refuse(q, appErrors(404, {"SESSION_NOT_FOUND"}))
      BY <1>8 DEF revokeSession, logoutCurrent
    <2> QED BY <1>1, <1>4, <2>3, <2>4, RefusalDocumented
  <1> QED BY <1>5, <1>6, <1>7, <1>8

LEMMA DocumentedNext ==
  ASSUME ApiInductive, AnswersDocumented, [ApiNext]_apiVars
  PROVE  AnswersDocumented'
  <1>1. ApiTypeOK /\ RequestsOK
    BY DEF ApiInductive
  <1>2. CASE UNCHANGED requests
    BY <1>2 DEF AnswersDocumented
  <1>3. CASE AccessCookieExpires \/ SessionExpires \/ UNCHANGED apiVars
    BY <1>2, <1>3 DEF AccessCookieExpires, SessionExpires, apiVars
  <1>4. ASSUME NEW q \in Requests, Click(q) \/ Send(q) \/ Deliver(q)
        PROVE  AnswersDocumented'
    <2>1. CASE Click(q)
      <3>1. PICK r : Become(q, [NoRequest EXCEPT !.route = r, !.header = jar.csrf])
        BY <2>1 DEF Click
      <3>2. [NoRequest EXCEPT !.route = r, !.header = jar.csrf].answer = NoRequest.answer
        BY DEF NoRequest
      <3> QED BY <1>1, <3>1, <3>2, OpenKept
    <2>2. CASE Send(q)
      <3>1. PICK cookies : Become(q, [requests[q] EXCEPT !.stage = 1, !.cookies = cookies])
        BY <2>2 DEF Send
      <3>2. PICK s : s = [requests[q] EXCEPT !.stage = 1, !.cookies = cookies]
        OBVIOUS
      <3>3. s.answer = requests[q].answer /\ s.route = requests[q].route
        BY <1>1, <3>2 DEF ApiTypeOK, Request
      <3>4. s.answer # NoRequest.answer => Answerable(s.route, {s.answer})
        BY <3>3 DEF AnswersDocumented, Answerable, Given
      <3> QED BY <1>1, <3>1, <3>2, <3>4, AnswersKept
    <2>3. CASE Deliver(q)
      BY <1>1, <2>3, OpenKept DEF Deliver
    <2> QED BY <1>4, <2>1, <2>2, <2>3
  <1>5. ASSUME NEW q \in Requests,
               \/ ParseJson(q) \/ tenantMiddleware(q) \/ requireAllowedOrigin(q)
               \/ authMiddleware(q) \/ requireCsrf(q) \/ requireIdempotencyKey(q)
               \/ requireDelivery(q) \/ createRateLimiter(q) \/ validateRequest(q)
        PROVE  AnswersDocumented'
    BY <1>1, <1>5, StagesDocumented
  <1>6. ASSUME NEW q \in Requests,
               \/ Decline(q) \/ Serve(q) \/ authenticate(q) \/ refreshSession(q)
               \/ revokeSession(q) \/ logoutCurrent(q) \/ endEverySession(q)
               \/ confirmForAccount(q)
        PROVE  AnswersDocumented'
    BY <1>1, <1>6, HandlersDocumented
  <1> QED BY <1>3, <1>4, <1>5, <1>6 DEF ApiNext

(* Whatever stage of whatever route answers (routes.ts and the middleware and *)
(* services behind it), and however requests and sessions interleave, the     *)
(* answer is one that openapi/document.ts announces for the operation, but    *)
(* for the exceptions Unannounced lists.                                      *)
THEOREM ApiDocumented == ApiSpec => []AnswersDocumented
  <1>1. ApiInit => AnswersDocumented
    BY DEF ApiInit, AnswersDocumented
  <1>2. ApiInductive /\ AnswersDocumented /\ [ApiNext]_apiVars => AnswersDocumented'
    BY DocumentedNext
  <1> QED BY <1>1, <1>2, ApiInductiveHolds, PTL DEF ApiSpec
=============================================================================
