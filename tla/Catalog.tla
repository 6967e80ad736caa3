------------------------------- MODULE Catalog -------------------------------
(***************************************************************************)
(* Creating products and reviews with an Idempotency-Key, and the prices of *)
(* products (productService.ts, createReviewWithRepository of               *)
(* commerceService.ts, mutationIdempotencyRepository.ts,                    *)
(* productRepository.ts), for one seller and one reviewer.                  *)
(*                                                                         *)
(* The INSERT of a claim waits for a transaction that has inserted the same *)
(* key and not ended; it holds the key until then. What the transaction      *)
(* writes after its claim appears with its commit, in one action.           *)
(***************************************************************************)
EXTENDS Naturals, Sequences

CONSTANTS
    Conn,        \* database connections, one request each
    Key,         \* idempotency keys
    Body,        \* what a request says: the price of a product, a rating
    MaxHistory,  \* bound on the price history of a product
    None         \* nobody, an unused field

ASSUME BodyAssumption == None \notin Body \cup Key /\ MaxHistory \in Nat

VARIABLES
    claims,     \* claims[op][k]: the committed row of mutation_idempotency
    products,   \* products created, each with its price and price history
    review,     \* the rating in the reviewer's row of the reviewed product
    inbox,      \* number of notifications the seller has received
    purchased,  \* whether the reviewer has ordered the product
    effects,    \* effects[op]: the requests that took effect, in order
    tx          \* tx[c]: the request the connection is executing

vars == <<claims, products, review, inbox, purchased, effects, tx>>
store == <<claims, products, review, inbox, effects>>

Operation == {"product.create", "review.upsert"}

NoClaim == [body |-> None, resource |-> 0]
Claim == {NoClaim} \cup [body: Body, resource: Nat \ {0}]
Product == [price: Body, history: Seq([sequence: Nat, price: Body])]

\* sequence is the max(sequence) + 1 that a price change has read.
Tx == [pc: {"idle", "claim", "claimed", "lockProduct", "price"},
       operation: Operation \cup {None}, key: Key \cup {None},
       body: Body \cup {None}, product: Nat, sequence: Nat,
       reply: {"none", "done", "conflict"}]
Idle(reply) ==
    [pc |-> "idle", operation |-> None, key |-> None, body |-> None,
     product |-> 0, sequence |-> 0, reply |-> reply]

Init ==
    /\ claims = [op \in Operation |-> [k \in Key |-> NoClaim]]
    /\ products = <<>>
    /\ review = None
    /\ inbox = 0
    /\ purchased = FALSE
    /\ effects = [op \in Operation |-> <<>>]
    /\ tx = [c \in Conn |-> Idle("none")]

Start(c, request) ==
    /\ tx[c].pc = "idle"
    /\ tx' = [tx EXCEPT ![c] = request]

Finish(c, reply) == tx' = [tx EXCEPT ![c] = Idle(reply)]

\* The connection or process dies, or a check refuses the request and the
\* transaction rolls its claim back.
Abort(c) ==
    /\ tx[c].pc # "idle"
    /\ Finish(c, "none")
    /\ UNCHANGED <<store, purchased>>

-----------------------------------------------------------------------------
(* Claims *)

\* A client sends, or sends again, a request with a key.
createWithKey(c, op, k, body) ==
    /\ Start(c, [Idle("none") EXCEPT !.pc = "claim", !.operation = op,
                                     !.key = k, !.body = body])
    /\ UNCHANGED <<store, purchased>>

\* Mutant: the insert does not wait.
KeyHeld_Never(op, k) == FALSE

KeyHeld(op, k) ==
    \E c \in Conn :
        tx[c].pc = "claimed" /\ tx[c].operation = op /\ tx[c].key = k

Claimed(c) == claims[tx[c].operation][tx[c].key]

claim(c) ==
    /\ tx[c].pc = "claim"
    /\ ~KeyHeld(tx[c].operation, tx[c].key)
    /\ Claimed(c) = NoClaim
    /\ tx' = [tx EXCEPT ![c].pc = "claimed"]
    /\ UNCHANGED <<store, purchased>>

\* Mutant: the hash of the request is not compared.
ReplayClaim_AnyHash(c) ==
    /\ tx[c].pc = "claim"
    /\ ~KeyHeld(tx[c].operation, tx[c].key)
    /\ Claimed(c) # NoClaim
    /\ Finish(c, "done")
    /\ UNCHANGED <<store, purchased>>

\* The resource of the claim is read again and returned as it is now.
ReplayClaim(c) ==
    /\ tx[c].pc = "claim"
    /\ ~KeyHeld(tx[c].operation, tx[c].key)
    /\ Claimed(c) # NoClaim
    /\ Claimed(c).body = tx[c].body
    /\ Finish(c, "done")
    /\ UNCHANGED <<store, purchased>>

idempotencyKeyConflict(c) ==
    /\ tx[c].pc = "claim"
    /\ ~KeyHeld(tx[c].operation, tx[c].key)
    /\ Claimed(c) # NoClaim
    /\ Claimed(c).body # tx[c].body
    /\ Finish(c, "conflict")
    /\ UNCHANGED <<store, purchased>>

\* Mutant: the claim is completed without its row.
complete_Forgotten(c, resource) == UNCHANGED claims

complete(c, resource) ==
    claims' = [claims EXCEPT ![tx[c].operation][tx[c].key] =
                 [body |-> tx[c].body, resource |-> resource]]

RecordEffect(c) ==
    effects' = [effects EXCEPT ![tx[c].operation] =
                  Append(@, [key |-> tx[c].key, body |-> tx[c].body])]

-----------------------------------------------------------------------------
(* What a claimed key does *)

\* The product, the first entry of its price history, and the claim.
createProduct(c) ==
    /\ tx[c].pc = "claimed"
    /\ tx[c].operation = "product.create"
    /\ products' = Append(products,
          [price |-> tx[c].body,
           history |-> <<[sequence |-> 1, price |-> tx[c].body]>>])
    /\ complete(c, Len(products) + 1)
    /\ RecordEffect(c)
    /\ Finish(c, "done")
    /\ UNCHANGED <<review, inbox, purchased>>

\* Only buyers of the product get here; others roll back (Abort).
createReview(c) ==
    /\ tx[c].pc = "claimed"
    /\ tx[c].operation = "review.upsert"
    /\ purchased
    /\ review' = tx[c].body
    /\ inbox' = inbox + 1
    /\ complete(c, 1)
    /\ RecordEffect(c)
    /\ Finish(c, "done")
    /\ UNCHANGED <<products, purchased>>

Purchase ==
    /\ ~purchased
    /\ purchased' = TRUE
    /\ UNCHANGED <<store, tx>>

-----------------------------------------------------------------------------
(* Price changes *)

updateProduct(c, p, price) ==
    /\ Len(products[p].history) < MaxHistory
    /\ Start(c, [Idle("none") EXCEPT !.pc = "lockProduct", !.product = p,
                                     !.body = price])
    /\ UNCHANGED <<store, purchased>>

\* Mutant: the product is read without FOR UPDATE.
ProductLocked_Never(p) == FALSE

ProductLocked(p) == \E c \in Conn : tx[c].pc = "price" /\ tx[c].product = p

\* The row is locked, its price differs from the requested one, and the next
\* sequence is read.
findByIdForUpdate(c) ==
    LET product == products[tx[c].product]
    IN  /\ tx[c].pc = "lockProduct"
        /\ ~ProductLocked(tx[c].product)
        /\ product.price # tx[c].body
        /\ Len(product.history) < MaxHistory
        /\ tx' = [tx EXCEPT ![c].pc = "price",
                            ![c].sequence = Len(product.history) + 1]
        /\ UNCHANGED <<store, purchased>>

appendPriceHistory(c) ==
    /\ tx[c].pc = "price"
    /\ products' = [products EXCEPT ![tx[c].product] =
          [price |-> tx[c].body,
           history |-> Append(@.history, [sequence |-> tx[c].sequence,
                                          price |-> tx[c].body])]]
    /\ Finish(c, "none")
    /\ UNCHANGED <<claims, review, inbox, effects, purchased>>

-----------------------------------------------------------------------------

RequestStep(c) ==
    \/ claim(c)
    \/ ReplayClaim(c)
    \/ idempotencyKeyConflict(c)
    \/ createProduct(c)
    \/ createReview(c)
    \/ findByIdForUpdate(c)
    \/ appendPriceHistory(c)

Next ==
    \/ \E c \in Conn :
          \/ \E op \in Operation, k \in Key, body \in Body :
                createWithKey(c, op, k, body)
          \/ \E p \in DOMAIN products, price \in Body :
                updateProduct(c, p, price)
          \/ RequestStep(c)
          \/ Abort(c)
    \/ Purchase

Spec == Init /\ [][Next]_vars

-----------------------------------------------------------------------------
(* Properties *)

\* Types of the rows and of the requests in progress.
TypeOK ==
    /\ claims \in [Operation -> [Key -> Claim]]
    /\ products \in Seq(Product)
    /\ review \in Body \cup {None}
    /\ inbox \in Nat
    /\ purchased \in BOOLEAN
    /\ effects \in [Operation -> Seq([key: Key, body: Body])]
    /\ tx \in [Conn -> Tx]

\* A key takes effect at most once, however often and at whatever moment the
\* request is repeated, and a repetition is never taken for another request:
\* claims, products, reviews and notifications together are the keyed
\* mutations of the abstract module (idempotency.md, "Product creation").
KeyedStore ==
    INSTANCE KeyedMutations WITH
        Scope <- Operation,
        meaning <- [op \in Operation |->
                      [k \in Key |-> claims[op][k].body]]
ImplementsKeyedMutations == KeyedStore!Spec

\* What is answered agrees with what was done: a client told of success
\* (201, or 200 for a replay) finds its own body behind the key, and one whose
\* body took effect is never told that the key conflicts.
AnswersTrue ==
    [][\A c \in Conn : tx[c].pc \in {"claim", "claimed"} /\ tx'[c].pc = "idle" =>
          LET mutations == effects'[tx[c].operation]
              known == \E i \in DOMAIN mutations :
                          mutations[i] = [key |-> tx[c].key, body |-> tx[c].body]
          IN  /\ tx'[c].reply = "done" => known
              /\ tx'[c].reply = "conflict" => ~known]_vars

\* Each effect is in the tables once: a product per creation with the body's
\* price first in its history, the review of the last review request, and a
\* notification for each of them.
TablesMatchEffects ==
    LET created == effects["product.create"]
        reviews == effects["review.upsert"]
    IN  /\ Len(products) = Len(created)
        /\ \A p \in DOMAIN products :
              /\ products[p].history[1].price = created[p].body
              /\ claims["product.create"][created[p].key].resource = p
        /\ inbox = Len(reviews)
        /\ review = IF reviews = <<>> THEN None ELSE reviews[Len(reviews)].body

\* Price history has no gap, no repetition and no missing change, and ends with
\* the price of the row, whichever price changes of the product overlap
\* (productRepository.ts lines 177-200, productService.ts lines 164-199).
HistoryExact ==
    \A p \in DOMAIN products :
        LET history == products[p].history
        IN  /\ \A i \in DOMAIN history : history[i].sequence = i
            /\ \A i \in DOMAIN history \ {1} :
                  history[i].price # history[i - 1].price
            /\ products[p].price = history[Len(history)].price
=============================================================================
