---------------------------- MODULE CatalogProofs ----------------------------
(***************************************************************************)
(* Theorems of Catalog for every set of connections, keys and bodies and     *)
(* every bound: the store implements KeyedMutations, its answers are true,   *)
(* price histories are exact, and the tables hold each effect once. The      *)
(* argument: whoever has inserted a claim holds the key alone and found no   *)
(* row for it, and whoever has read the next sequence of a price history     *)
(* holds the product alone.                                                  *)
(***************************************************************************)
EXTENDS Catalog, TLAPS

\* What a request has read is still so.
RequestOK(c) ==
    /\ tx[c].pc \in {"claim", "claimed"} =>
          /\ tx[c].operation \in Operation
          /\ tx[c].key \in Key
          /\ tx[c].body \in Body
    /\ tx[c].pc = "claimed" => Claimed(c) = NoClaim
    /\ tx[c].pc \in {"lockProduct", "price"} =>
          tx[c].product \in DOMAIN products /\ tx[c].body \in Body
    /\ tx[c].pc = "price" =>
          /\ tx[c].body # products[tx[c].product].price
          /\ tx[c].sequence = Len(products[tx[c].product].history) + 1

\* A key and a product have one holder each.
HeldOnce ==
    \A c, d \in Conn : c # d =>
        /\ tx[c].pc = "claimed" /\ tx[d].pc = "claimed" =>
              tx[c].operation # tx[d].operation \/ tx[c].key # tx[d].key
        /\ tx[c].pc = "price" /\ tx[d].pc = "price" =>
              tx[c].product # tx[d].product

\* The claims are the effects.
ClaimsAreEffects ==
    \A op \in Operation :
        /\ \A i \in DOMAIN effects[op] :
              claims[op][effects[op][i].key].body = effects[op][i].body
        /\ \A k \in Key : claims[op][k] # NoClaim =>
              \E i \in DOMAIN effects[op] : effects[op][i].key = k

HistoryOK(product) ==
    LET history == product.history
    IN  /\ history # <<>>
        /\ \A i \in DOMAIN history : history[i].sequence = i
        /\ \A i \in DOMAIN history \ {1} : history[i].price # history[i - 1].price
        /\ product.price = history[Len(history)].price

\* The inductive invariant.
CatalogInv ==
    /\ TypeOK
    /\ \A c \in Conn : RequestOK(c)
    /\ HeldOnce
    /\ ClaimsAreEffects
    /\ \A p \in DOMAIN products : HistoryOK(products[p])

LEMMA IdleType ==
    ASSUME NEW reply \in {"none", "done", "conflict"}
    PROVE  Idle(reply) \in Tx /\ Idle(reply).pc = "idle" /\ Idle(reply).reply = reply
  BY DEF Idle, Tx

LEMMA InitInv == Init => CatalogInv
  <1> SUFFICES ASSUME Init PROVE CatalogInv
    OBVIOUS
  <1>1. \A c \in Conn : tx[c] = Idle("none")
    BY DEF Init
  <1>2. TypeOK
    <2>1. claims \in [Operation -> [Key -> Claim]]
      BY DEF Init, Claim
    <2>2. products \in Seq(Product)
      BY DEF Init
    <2>3. effects \in [Operation -> Seq([key: Key, body: Body])]
      BY DEF Init
    <2> QED
      BY <2>1, <2>2, <2>3, IdleType DEF Init, TypeOK
  <1>3. \A c \in Conn : RequestOK(c)
    BY <1>1, IdleType DEF RequestOK
  <1>4. HeldOnce
    BY <1>1, IdleType DEF HeldOnce
  <1>5. ClaimsAreEffects /\ \A p \in DOMAIN products : HistoryOK(products[p])
    BY DEF Init, ClaimsAreEffects
  <1> QED
    BY <1>2, <1>3, <1>4, <1>5 DEF CatalogInv

-----------------------------------------------------------------------------
(* Steps that leave the tables alone *)

\* A request that moves on keeps the invariant if its own part holds and what it
\* has come to hold was nobody else's.
LEMMA MoveKeeps ==
    ASSUME CatalogInv, UNCHANGED store, purchased' \in BOOLEAN,
           NEW c \in Conn, NEW t \in Tx, tx' = [tx EXCEPT ![c] = t],
           RequestOK(c)',
           \A d \in Conn \ {c} :
              /\ t.pc = "claimed" /\ tx[d].pc = "claimed" =>
                    t.operation # tx[d].operation \/ t.key # tx[d].key
              /\ t.pc = "price" /\ tx[d].pc = "price" => t.product # tx[d].product
    PROVE  CatalogInv'
  <1>1. tx \in [Conn -> Tx]
    BY DEF CatalogInv, TypeOK
  <1>2. tx'[c] = t /\ \A d \in Conn \ {c} : tx'[d] = tx[d]
    BY <1>1
  <1>3. TypeOK'
    BY <1>1 DEF CatalogInv, TypeOK, store
  <1>4. HeldOnce'
    BY <1>2 DEF CatalogInv, HeldOnce
  <1>5. ASSUME NEW d \in Conn \ {c} PROVE RequestOK(d)'
    BY <1>2 DEF CatalogInv, RequestOK, Claimed, store
  <1>6. ClaimsAreEffects' /\ \A p \in DOMAIN products' : HistoryOK(products'[p])
    BY DEF CatalogInv, ClaimsAreEffects, HistoryOK, store
  <1> QED
    BY <1>3, <1>4, <1>5, <1>6 DEF CatalogInv

LEMMA FinishKeeps ==
    ASSUME CatalogInv, UNCHANGED <<store, purchased>>, NEW c \in Conn,
           NEW reply \in {"none", "done", "conflict"}, Finish(c, reply)
    PROVE  CatalogInv'
  <1>1. tx' = [tx EXCEPT ![c] = Idle(reply)] /\ purchased' \in BOOLEAN
    BY DEF Finish, CatalogInv, TypeOK
  <1>2. tx'[c] = Idle(reply)
    BY <1>1 DEF CatalogInv, TypeOK
  <1>3. RequestOK(c)'
    BY <1>2, IdleType DEF RequestOK
  <1> QED
    BY <1>1, <1>3, IdleType, MoveKeeps

LEMMA StartClaimKeeps ==
    ASSUME CatalogInv, NEW c \in Conn, NEW op \in Operation, NEW k \in Key,
           NEW body \in Body, createWithKey(c, op, k, body)
    PROVE  CatalogInv'
  <1> DEFINE t == [Idle("none") EXCEPT !.pc = "claim", !.operation = op,
                                       !.key = k, !.body = body]
  <1>1. t \in Tx /\ t.pc = "claim" /\ t.operation = op /\ t.key = k /\ t.body = body
    BY DEF Idle, Tx
  <1>2. tx' = [tx EXCEPT ![c] = t] /\ UNCHANGED store /\ purchased' \in BOOLEAN
    BY DEF createWithKey, Start, CatalogInv, TypeOK
  <1>3. tx'[c] = t
    BY <1>2 DEF CatalogInv, TypeOK
  <1>4. RequestOK(c)'
    BY <1>1, <1>3 DEF RequestOK
  <1> HIDE DEF t
  <1> QED
    BY <1>1, <1>2, <1>4, MoveKeeps

LEMMA ClaimKeeps ==
    ASSUME CatalogInv, NEW c \in Conn, claim(c) PROVE CatalogInv'
  <1> DEFINE t == [tx[c] EXCEPT !.pc = "claimed"]
  <1>1. tx \in [Conn -> Tx] /\ tx[c] \in Tx /\ RequestOK(c)
    BY DEF CatalogInv, TypeOK
  <1>2. t \in Tx /\ t.pc = "claimed" /\ t.operation = tx[c].operation
        /\ t.key = tx[c].key /\ t.body = tx[c].body
    BY <1>1 DEF Tx
  <1>3. tx' = [tx EXCEPT ![c] = t] /\ UNCHANGED store /\ purchased' \in BOOLEAN
    BY <1>1 DEF claim, CatalogInv, TypeOK
  <1>4. tx'[c] = t
    BY <1>1, <1>3
  <1>5. RequestOK(c)'
    <2>1. tx[c].pc = "claim" /\ Claimed(c) = NoClaim
      BY DEF claim
    <2> QED
      BY <1>1, <1>2, <1>3, <1>4, <2>1 DEF RequestOK, Claimed, store
  <1>6. \A d \in Conn \ {c} : tx[d].pc = "claimed" =>
            t.operation # tx[d].operation \/ t.key # tx[d].key
    BY <1>2 DEF claim, KeyHeld
  <1> HIDE DEF t
  <1> QED
    BY <1>2, <1>3, <1>5, <1>6, MoveKeeps

LEMMA StartPriceKeeps ==
    ASSUME CatalogInv, NEW c \in Conn, NEW p \in DOMAIN products,
           NEW price \in Body, updateProduct(c, p, price)
    PROVE  CatalogInv'
  <1> DEFINE t == [Idle("none") EXCEPT !.pc = "lockProduct", !.product = p,
                                       !.body = price]
  <1>1. p \in Nat
    BY DEF CatalogInv, TypeOK
  <1>2. t \in Tx /\ t.pc = "lockProduct" /\ t.product = p /\ t.body = price
    BY <1>1 DEF Idle, Tx
  <1>3. tx' = [tx EXCEPT ![c] = t] /\ UNCHANGED store /\ purchased' \in BOOLEAN
    BY DEF updateProduct, Start, CatalogInv, TypeOK
  <1>4. tx'[c] = t
    BY <1>3 DEF CatalogInv, TypeOK
  <1>5. RequestOK(c)'
    BY <1>2, <1>3, <1>4 DEF RequestOK, store
  <1> HIDE DEF t
  <1> QED
    BY <1>2, <1>3, <1>5, MoveKeeps

LEMMA LockProductKeeps ==
    ASSUME CatalogInv, NEW c \in Conn, findByIdForUpdate(c) PROVE CatalogInv'
  <1> DEFINE p == tx[c].product
             t == [tx[c] EXCEPT !.pc = "price",
                                !.sequence = Len(products[p].history) + 1]
  <1>1. tx \in [Conn -> Tx] /\ tx[c] \in Tx /\ RequestOK(c)
    BY DEF CatalogInv, TypeOK
  <1>2. p \in DOMAIN products /\ tx[c].body \in Body
    BY <1>1 DEF findByIdForUpdate, RequestOK
  <1>3. products[p] \in Product
    BY <1>2 DEF CatalogInv, TypeOK
  <1>4. Len(products[p].history) + 1 \in Nat
    BY <1>3 DEF Product
  <1>5. t \in Tx /\ t.pc = "price" /\ t.product = p /\ t.body = tx[c].body
        /\ t.sequence = Len(products[p].history) + 1
    BY <1>1, <1>4 DEF Tx
  <1>6. tx' = [tx EXCEPT ![c] = t] /\ UNCHANGED store /\ purchased' \in BOOLEAN
    BY <1>1 DEF findByIdForUpdate, CatalogInv, TypeOK
  <1>7. tx'[c] = t
    BY <1>1, <1>6
  <1>8. RequestOK(c)'
    <2>1. products[p].price # tx[c].body /\ products' = products
      BY <1>6 DEF findByIdForUpdate, store
    <2> QED
      BY <1>2, <1>5, <1>7, <2>1 DEF RequestOK
  <1>9. \A d \in Conn \ {c} : tx[d].pc = "price" => t.product # tx[d].product
    BY <1>5 DEF findByIdForUpdate, ProductLocked
  <1> HIDE DEF t
  <1> QED
    BY <1>5, <1>6, <1>8, <1>9, MoveKeeps

-----------------------------------------------------------------------------
(* Steps that take effect *)

\* The last element of an appended sequence, and the others.
LEMMA Appended ==
    ASSUME NEW S, NEW s \in Seq(S), NEW e \in S
    PROVE  /\ Append(s, e) \in Seq(S)
           /\ DOMAIN Append(s, e) = DOMAIN s \cup {Len(s) + 1}
           /\ Len(s) + 1 \notin DOMAIN s
           /\ Append(s, e)[Len(s) + 1] = e
           /\ \A i \in DOMAIN s : Append(s, e)[i] = s[i]
           /\ Len(Append(s, e)) = Len(s) + 1
           /\ Len(s) \in Nat
  OBVIOUS

\* Two functions of pairs are equal when they agree on all pairs.
LEMMA SamePairs ==
    ASSUME NEW S, NEW T, NEW R, NEW f \in [S -> [T -> R]], NEW g \in [S -> [T -> R]],
           \A s \in S, t \in T : f[s][t] = g[s][t]
    PROVE  f = g
  <1>1. \A s \in S : f[s] = g[s]
    OBVIOUS
  <1> QED
    BY <1>1

LEMMA Element ==
    ASSUME NEW S, NEW s \in Seq(S), NEW i \in DOMAIN s PROVE s[i] \in S
  OBVIOUS

\* A mutation of a claimed key: the key's row and its effect are new.
LEMMA EffectKeeps ==
    ASSUME CatalogInv, NEW c \in Conn, tx[c].pc = "claimed",
           NEW resource \in Nat \ {0}, complete(c, resource), RecordEffect(c)
    PROVE  /\ claims' \in [Operation -> [Key -> Claim]]
           /\ effects' \in [Operation -> Seq([key: Key, body: Body])]
           /\ ClaimsAreEffects'
           /\ \A d \in Conn \ {c} : tx[d].pc = "claimed" =>
                 claims'[tx[d].operation][tx[d].key] = claims[tx[d].operation][tx[d].key]
           /\ \A op \in Operation, k \in Key : claims[op][k] # NoClaim =>
                 claims'[op][k] = claims[op][k]
  <1> DEFINE op == tx[c].operation
             k == tx[c].key
             row == [body |-> tx[c].body, resource |-> resource]
             effect == [key |-> k, body |-> tx[c].body]
  <1>1. /\ op \in Operation /\ k \in Key /\ tx[c].body \in Body
        /\ claims[op][k] = NoClaim
        /\ claims \in [Operation -> [Key -> Claim]]
        /\ effects \in [Operation -> Seq([key: Key, body: Body])]
    BY DEF CatalogInv, TypeOK, RequestOK, Claimed
  <1>2. row \in Claim /\ effect \in [key: Key, body: Body]
    BY <1>1 DEF Claim
  <1>3. claims' = [claims EXCEPT ![op][k] = row]
    BY DEF complete
  <1>4. claims' \in [Operation -> [Key -> Claim]]
    BY <1>1, <1>2, <1>3
  <1>5. \A o \in Operation, x \in Key :
          claims'[o][x] = IF o = op /\ x = k THEN row ELSE claims[o][x]
    BY <1>1, <1>3
  <1>6. effects' = [effects EXCEPT ![op] = Append(effects[op], effect)]
    BY <1>1 DEF RecordEffect
  <1>7. effects'[op] = Append(effects[op], effect)
        /\ \A o \in Operation \ {op} : effects'[o] = effects[o]
    BY <1>1, <1>6
  <1>8. effects[op] \in Seq([key: Key, body: Body])
    BY <1>1
  <1>9. effects' \in [Operation -> Seq([key: Key, body: Body])]
    BY <1>1, <1>2, <1>6, <1>8, Appended
  <1>10. \A i \in DOMAIN effects[op] : effects[op][i].key # k
    <2> SUFFICES ASSUME NEW i \in DOMAIN effects[op], effects[op][i].key = k
                 PROVE  FALSE
      OBVIOUS
    <2>1. claims[op][k].body = effects[op][i].body
      BY <1>1 DEF CatalogInv, ClaimsAreEffects
    <2>2. effects[op][i] \in [key: Key, body: Body]
      BY <1>8, Element
    <2> QED
      BY <1>1, <2>1, <2>2, BodyAssumption DEF NoClaim
  <1>11. ClaimsAreEffects'
    <2>1. ASSUME NEW o \in Operation, NEW i \in DOMAIN effects'[o]
          PROVE  claims'[o][effects'[o][i].key].body = effects'[o][i].body
      <3>1. CASE o = op /\ i = Len(effects[op]) + 1
        <4>1. effects'[o][i] = effect
          BY <1>2, <1>7, <1>8, <3>1, Appended
        <4> QED
          BY <1>1, <1>5, <3>1, <4>1
      <3>2. CASE ~(o = op /\ i = Len(effects[op]) + 1)
        <4>1. i \in DOMAIN effects[o] /\ effects'[o][i] = effects[o][i]
          <5>1. CASE o # op
            BY <1>7, <5>1
          <5>2. CASE o = op
            <6>1. effects'[op] = Append(effects[op], effect)
              BY <1>7
            <6>2. i \in DOMAIN Append(effects[op], effect)
              BY <5>2, <6>1
            <6> QED
              BY <1>2, <1>8, <3>2, <5>2, <6>1, <6>2, Appended
          <5> QED
            BY <5>1, <5>2
        <4>2. effects[o] \in Seq([key: Key, body: Body])
          BY <1>1
        <4>3. effects[o][i] \in [key: Key, body: Body]
          BY <4>1, <4>2, Element
        <4>4. ~(o = op /\ effects[o][i].key = k)
          BY <1>10, <4>1
        <4>5. claims'[o][effects[o][i].key] = claims[o][effects[o][i].key]
          BY <1>5, <4>3, <4>4
        <4> QED
          BY <4>1, <4>5 DEF CatalogInv, ClaimsAreEffects
      <3> QED
        BY <3>1, <3>2
    <2>2. ASSUME NEW o \in Operation, NEW x \in Key, claims'[o][x] # NoClaim
          PROVE  \E i \in DOMAIN effects'[o] : effects'[o][i].key = x
      <3>1. CASE o = op /\ x = k
        <4>1. Len(effects[op]) + 1 \in DOMAIN effects'[op]
              /\ effects'[op][Len(effects[op]) + 1] = effect
          BY <1>2, <1>7, <1>8, Appended
        <4> QED
          BY <3>1, <4>1
      <3>2. CASE ~(o = op /\ x = k)
        <4>1. claims[o][x] # NoClaim
          BY <1>5, <2>2, <3>2
        <4>2. PICK i \in DOMAIN effects[o] : effects[o][i].key = x
          BY <4>1 DEF CatalogInv, ClaimsAreEffects
        <4>3. i \in DOMAIN effects'[o] /\ effects'[o][i] = effects[o][i]
          <5>1. CASE o = op
            BY <1>2, <1>7, <1>8, <4>2, <5>1, Appended
          <5>2. CASE o # op
            BY <1>7, <4>2, <5>2
          <5> QED
            BY <5>1, <5>2
        <4> QED
          BY <4>2, <4>3
      <3> QED
        BY <3>1, <3>2
    <2> QED
      BY <2>1, <2>2 DEF ClaimsAreEffects
  <1>12. ASSUME NEW d \in Conn \ {c}, tx[d].pc = "claimed"
         PROVE  claims'[tx[d].operation][tx[d].key] = claims[tx[d].operation][tx[d].key]
    <2>1. tx[d].operation \in Operation /\ tx[d].key \in Key
          /\ (tx[d].operation # op \/ tx[d].key # k)
      BY <1>12 DEF CatalogInv, RequestOK, HeldOnce
    <2> QED
      BY <1>5, <2>1
  <1>13. \A o \in Operation, x \in Key : claims[o][x] # NoClaim =>
            claims'[o][x] = claims[o][x]
    BY <1>1, <1>5
  <1> QED
    BY <1>4, <1>9, <1>11, <1>12, <1>13

\* The rest of the tables and of the requests, after a mutation.
LEMMA MutationKeeps ==
    ASSUME CatalogInv, NEW c \in Conn, tx[c].pc = "claimed",
           NEW resource \in Nat \ {0}, complete(c, resource), RecordEffect(c),
           Finish(c, "done"), products' \in Seq(Product),
           \A p \in DOMAIN products : p \in DOMAIN products' /\ products'[p] = products[p],
           \A p \in DOMAIN products' : HistoryOK(products'[p]),
           review' \in Body \cup {None}, inbox' \in Nat, purchased' \in BOOLEAN
    PROVE  CatalogInv'
  <1>1. tx' = [tx EXCEPT ![c] = Idle("done")] /\ tx \in [Conn -> Tx]
    BY DEF Finish, CatalogInv, TypeOK
  <1>2. tx'[c] = Idle("done") /\ \A d \in Conn \ {c} : tx'[d] = tx[d]
    BY <1>1
  <1>3. tx' \in [Conn -> Tx]
    BY <1>1, IdleType
  <1>4. TypeOK'
    BY <1>3, EffectKeeps DEF TypeOK
  <1>5. HeldOnce'
    BY <1>2, IdleType DEF CatalogInv, HeldOnce
  <1>6. RequestOK(c)'
    BY <1>2, IdleType DEF RequestOK
  <1>7. ASSUME NEW d \in Conn \ {c} PROVE RequestOK(d)'
    <2>1. RequestOK(d) /\ tx'[d] = tx[d]
      BY <1>2 DEF CatalogInv
    <2>2. tx[d].pc = "claimed" =>
            claims'[tx[d].operation][tx[d].key] = claims[tx[d].operation][tx[d].key]
      BY EffectKeeps
    <2> QED
      BY <2>1, <2>2 DEF RequestOK, Claimed
  <1>8. ClaimsAreEffects'
    BY EffectKeeps
  <1>9. (\A d \in Conn : RequestOK(d))'
    BY <1>6, <1>7
  <1> QED
    BY <1>4, <1>5, <1>8, <1>9 DEF CatalogInv

LEMMA CreateProductKeeps ==
    ASSUME CatalogInv, NEW c \in Conn, createProduct(c) PROVE CatalogInv'
  <1> DEFINE body == tx[c].body
             entry == [sequence |-> 1, price |-> body]
             product == [price |-> body, history |-> <<entry>>]
  <1>1. body \in Body /\ products \in Seq(Product) /\ Len(products) + 1 \in Nat \ {0}
        /\ tx[c].pc = "claimed" /\ review \in Body \cup {None} /\ inbox \in Nat
        /\ purchased \in BOOLEAN
    BY DEF createProduct, CatalogInv, RequestOK, TypeOK
  <1>2. entry \in [sequence: Nat, price: Body]
    BY <1>1
  <1>3. <<entry>> \in Seq([sequence: Nat, price: Body])
    BY <1>2
  <1>4. product \in Product
    BY <1>1, <1>3 DEF Product
  <1>5. HistoryOK(product)
    BY DEF HistoryOK
  <1>6. products' = Append(products, product)
    BY DEF createProduct
  <1> HIDE DEF product
  <1>7. \A p \in DOMAIN products' : HistoryOK(products'[p])
    BY <1>1, <1>4, <1>5, <1>6, Appended DEF CatalogInv
  <1>8. products' \in Seq(Product)
        /\ \A p \in DOMAIN products : p \in DOMAIN products' /\ products'[p] = products[p]
    BY <1>1, <1>4, <1>6, Appended
  <1>9. complete(c, Len(products) + 1) /\ RecordEffect(c) /\ Finish(c, "done")
        /\ review' = review /\ inbox' = inbox /\ purchased' = purchased
    BY DEF createProduct
  <1> QED
    BY <1>1, <1>7, <1>8, <1>9, MutationKeeps

LEMMA CreateReviewKeeps ==
    ASSUME CatalogInv, NEW c \in Conn, createReview(c) PROVE CatalogInv'
  <1>1. tx[c].pc = "claimed" /\ tx[c].body \in Body /\ products \in Seq(Product)
        /\ inbox + 1 \in Nat /\ purchased \in BOOLEAN
        /\ \A p \in DOMAIN products : HistoryOK(products[p])
    BY DEF createReview, CatalogInv, RequestOK, TypeOK
  <1>2. products' = products /\ review' = tx[c].body /\ inbox' = inbox + 1
        /\ purchased' = purchased /\ complete(c, 1) /\ RecordEffect(c) /\ Finish(c, "done")
    BY DEF createReview
  <1>3. 1 \in Nat \ {0}
    OBVIOUS
  <1> QED
    BY <1>1, <1>2, <1>3, MutationKeeps

LEMMA AppendPriceKeeps ==
    ASSUME CatalogInv, NEW c \in Conn, appendPriceHistory(c) PROVE CatalogInv'
  <1> DEFINE q == tx[c].product
             history == products[q].history
             entry == [sequence |-> tx[c].sequence, price |-> tx[c].body]
             product == [price |-> tx[c].body, history |-> Append(history, entry)]
  <1>1. /\ tx \in [Conn -> Tx] /\ tx[c] \in Tx /\ tx[c].pc = "price"
        /\ products \in Seq(Product)
        /\ q \in DOMAIN products /\ tx[c].body \in Body
        /\ tx[c].body # products[q].price
        /\ tx[c].sequence = Len(history) + 1
        /\ HistoryOK(products[q])
    BY DEF appendPriceHistory, CatalogInv, RequestOK, TypeOK
  <1>2. products[q] \in Product /\ history \in Seq([sequence: Nat, price: Body])
    <2>1. products[q] \in Product
      BY <1>1, Element
    <2> QED
      BY <2>1 DEF Product
  <1>3. entry \in [sequence: Nat, price: Body]
    BY <1>1 DEF Tx
  <1>4. product \in Product
    BY <1>1, <1>2, <1>3, Appended DEF Product
  <1>5. HistoryOK(product)
    <2> DEFINE longer == Append(history, entry)
    <2>1. /\ DOMAIN longer = DOMAIN history \cup {Len(history) + 1}
          /\ Len(history) + 1 \notin DOMAIN history
          /\ longer[Len(history) + 1] = entry
          /\ \A i \in DOMAIN history : longer[i] = history[i]
          /\ Len(longer) = Len(history) + 1
          /\ Len(history) \in Nat
      <3> HIDE DEF history, entry
      <3> QED
        BY <1>2, <1>3, Appended
    <2>2. /\ history # <<>>
          /\ \A i \in DOMAIN history : history[i].sequence = i
          /\ \A i \in DOMAIN history \ {1} : history[i].price # history[i - 1].price
          /\ products[q].price = history[Len(history)].price
      BY <1>1 DEF HistoryOK
    <2>3. DOMAIN history = 1..Len(history) /\ Len(history) # 0
      BY <1>2, <2>2
    <2>4. \A i \in DOMAIN longer : longer[i].sequence = i
      BY <1>1, <2>1, <2>2
    <2>5. ASSUME NEW i \in DOMAIN longer \ {1}
          PROVE  longer[i].price # longer[i - 1].price
      <3>1. CASE i = Len(history) + 1
        <4>1. i - 1 = Len(history) /\ i - 1 \in DOMAIN history
          BY <2>1, <2>3, <3>1
        <4> QED
          BY <1>1, <2>1, <2>2, <3>1, <4>1
      <3>2. CASE i \in DOMAIN history
        <4>1. i - 1 \in DOMAIN history
          BY <2>3, <3>2
        <4> QED
          BY <2>1, <2>2, <3>2, <4>1
      <3> QED
        BY <2>1, <3>1, <3>2
    <2>6. longer # <<>> /\ longer[Len(longer)].price = tx[c].body
      BY <2>1
    <2> HIDE DEF longer
    <2>7. product.history = longer /\ product.price = tx[c].body
      BY DEF longer
    <2> HIDE DEF product
    <2> QED
      BY <2>4, <2>5, <2>6, <2>7 DEF HistoryOK
  <1>6. products' = [products EXCEPT ![q] = product]
    BY <1>1 DEF appendPriceHistory
  <1> HIDE DEF product
  <1>7. products' \in Seq(Product) /\ DOMAIN products' = DOMAIN products
        /\ products'[q] = product /\ \A p \in DOMAIN products \ {q} : products'[p] = products[p]
    BY <1>1, <1>4, <1>6
  <1>8. /\ tx' = [tx EXCEPT ![c] = Idle("none")]
        /\ UNCHANGED <<claims, review, inbox, effects, purchased>>
    BY DEF appendPriceHistory, Finish
  <1>9. tx'[c] = Idle("none") /\ \A d \in Conn \ {c} : tx'[d] = tx[d]
    BY <1>1, <1>8
  <1>10. tx' \in [Conn -> Tx]
    BY <1>1, <1>8, IdleType
  <1>11. TypeOK'
    BY <1>7, <1>8, <1>10 DEF CatalogInv, TypeOK
  <1>12. HeldOnce' /\ ClaimsAreEffects'
    BY <1>8, <1>9, IdleType DEF CatalogInv, HeldOnce, ClaimsAreEffects
  <1>13. RequestOK(c)'
    BY <1>9, IdleType DEF RequestOK
  <1>14. ASSUME NEW d \in Conn \ {c} PROVE RequestOK(d)'
    <2>1. RequestOK(d) /\ tx'[d] = tx[d]
      BY <1>9 DEF CatalogInv
    <2>2. tx[d].pc = "price" => tx[d].product # q
      BY <1>1 DEF CatalogInv, HeldOnce
    <2> QED
      BY <1>7, <1>8, <2>1, <2>2 DEF RequestOK, Claimed
  <1>15. (\A d \in Conn : RequestOK(d))'
    BY <1>13, <1>14
  <1>16. \A p \in DOMAIN products' : HistoryOK(products'[p])
    BY <1>5, <1>7 DEF CatalogInv
  <1> QED
    BY <1>11, <1>12, <1>15, <1>16 DEF CatalogInv

-----------------------------------------------------------------------------
(* The theorems *)

LEMMA StutterKeeps == CatalogInv /\ UNCHANGED <<store, tx>> /\ purchased' \in BOOLEAN
                        => CatalogInv'
  <1> SUFFICES ASSUME CatalogInv, UNCHANGED <<store, tx>>, purchased' \in BOOLEAN
               PROVE  CatalogInv'
    OBVIOUS
  <1>1. TypeOK'
    BY DEF CatalogInv, TypeOK, store
  <1>2. \A c \in Conn : RequestOK(c)'
    BY DEF CatalogInv, RequestOK, Claimed, store
  <1>3. HeldOnce' /\ ClaimsAreEffects' /\ \A p \in DOMAIN products' : HistoryOK(products'[p])
    BY DEF CatalogInv, HeldOnce, ClaimsAreEffects, HistoryOK, store
  <1> QED
    BY <1>1, <1>2, <1>3 DEF CatalogInv

LEMMA NextInv == CatalogInv /\ [Next]_vars => CatalogInv'
  <1> SUFFICES ASSUME CatalogInv, [Next]_vars PROVE CatalogInv'
    OBVIOUS
  <1>1. CASE UNCHANGED vars
    BY <1>1, StutterKeeps DEF vars, store, CatalogInv, TypeOK
  <1>2. ASSUME NEW c \in Conn, NEW op \in Operation, NEW k \in Key, NEW body \in Body,
               createWithKey(c, op, k, body)
        PROVE  CatalogInv'
    BY <1>2, StartClaimKeeps
  <1>3. ASSUME NEW c \in Conn, NEW p \in DOMAIN products, NEW price \in Body,
               updateProduct(c, p, price)
        PROVE  CatalogInv'
    BY <1>3, StartPriceKeeps
  <1>4. ASSUME NEW c \in Conn, ReplayClaim(c) \/ idempotencyKeyConflict(c) \/ Abort(c)
        PROVE  CatalogInv'
    BY <1>4, FinishKeeps DEF ReplayClaim, idempotencyKeyConflict, Abort
  <1>5. ASSUME NEW c \in Conn, RequestStep(c) PROVE CatalogInv'
    BY <1>4, <1>5, ClaimKeeps, CreateProductKeeps, CreateReviewKeeps, LockProductKeeps,
       AppendPriceKeeps DEF RequestStep
  <1>6. CASE Purchase
    BY <1>6, StutterKeeps DEF Purchase
  <1> QED
    BY <1>1, <1>2, <1>3, <1>4, <1>5, <1>6 DEF Next

THEOREM CatalogSafe == Spec => []CatalogInv
  BY InitInv, NextInv, PTL DEF Spec

\* Claims, products and requests keep their types whatever requests overlap
\* (mutationIdempotencyRepository.ts lines 25-68).
THEOREM CatalogTypes == Spec => []TypeOK
  <1>1. CatalogInv => TypeOK
    BY DEF CatalogInv
  <1> QED
    BY <1>1, CatalogSafe, PTL

\* The price history of every product is without gap and repetition and ends
\* with the product's price (productRepository.ts lines 167-200).
THEOREM CatalogHistoryExact == Spec => []HistoryExact
  <1>1. CatalogInv => HistoryExact
    BY DEF CatalogInv, HistoryExact, HistoryOK
  <1> QED
    BY <1>1, CatalogSafe, PTL

\* Which steps answer a request, and what they leave of the effects.
LEMMA Answer ==
    ASSUME CatalogInv, [Next]_vars, NEW c \in Conn,
           tx[c].pc \in {"claim", "claimed"}, tx'[c].pc = "idle"
    PROVE  \/ ReplayClaim(c) \/ idempotencyKeyConflict(c)
           \/ createProduct(c) \/ createReview(c)
           \/ tx'[c].reply = "none"
  <1>1. tx \in [Conn -> Tx]
    BY DEF CatalogInv, TypeOK
  <1>2. tx'[c] # tx[c]
    OBVIOUS
  <1>3. ASSUME NEW d \in Conn, NEW t, tx' = [tx EXCEPT ![d] = t]
        PROVE  d = c
    BY <1>1, <1>2, <1>3
  <1>4. Next /\ ~Purchase
    BY <1>2 DEF vars, Purchase
  <1>5. PICK d \in Conn :
          \/ \E op \in Operation, k \in Key, body \in Body : createWithKey(d, op, k, body)
          \/ \E p \in DOMAIN products, price \in Body : updateProduct(d, p, price)
          \/ RequestStep(d)
          \/ Abort(d)
    BY <1>4 DEF Next
  <1>6. d = c
    <2>1. \E t : tx' = [tx EXCEPT ![d] = t]
      BY <1>1, <1>5 DEF createWithKey, updateProduct, Start, RequestStep, claim,
         ReplayClaim, idempotencyKeyConflict, createProduct, createReview,
         findByIdForUpdate, appendPriceHistory, Abort, Finish
    <2> QED
      BY <1>3, <2>1
  <1>7. CASE Abort(c)
    BY <1>1, <1>7, IdleType DEF Abort, Finish
  <1>8. ~(findByIdForUpdate(c) \/ appendPriceHistory(c))
    BY DEF findByIdForUpdate, appendPriceHistory
  <1>9. ~claim(c)
    <2> SUFFICES ASSUME claim(c) PROVE FALSE
      OBVIOUS
    <2>1. tx[c] \in Tx
      BY <1>1
    <2>2. tx'[c].pc = "claimed"
      BY <1>1, <2>1 DEF claim, Tx
    <2> QED
      BY <2>2
  <1> QED
    BY <1>5, <1>6, <1>7, <1>8, <1>9 DEF RequestStep, createWithKey, updateProduct, Start

\* A request is told the truth about its key: success only if its own body took
\* effect, a conflict only if it did not (mutationIdempotencyService.ts,
\* mutationIdempotencyRepository.ts lines 25-51).
THEOREM CatalogAnswersTrue == Spec => AnswersTrue
  <1> DEFINE Known(c) ==
        \E i \in DOMAIN effects'[tx[c].operation] :
           effects'[tx[c].operation][i] = [key |-> tx[c].key, body |-> tx[c].body]
  <1>1. ASSUME CatalogInv, [Next]_vars, NEW c \in Conn,
               tx[c].pc \in {"claim", "claimed"}, tx'[c].pc = "idle"
        PROVE  /\ tx'[c].reply = "done" => Known(c)
               /\ tx'[c].reply = "conflict" => ~Known(c)
    <2> DEFINE op == tx[c].operation
               k == tx[c].key
               body == tx[c].body
    <2>1. /\ op \in Operation /\ k \in Key /\ body \in Body
          /\ tx \in [Conn -> Tx]
          /\ effects \in [Operation -> Seq([key: Key, body: Body])]
          /\ claims \in [Operation -> [Key -> Claim]]
      BY <1>1 DEF CatalogInv, RequestOK, TypeOK
    <2>2. effects[op] \in Seq([key: Key, body: Body])
      BY <2>1
    <2>3. CASE ReplayClaim(c)
      <3>1. claims[op][k] # NoClaim /\ claims[op][k].body = body
            /\ tx'[c] = Idle("done") /\ effects' = effects
        BY <2>1, <2>3 DEF ReplayClaim, Claimed, Finish, store
      <3>2. PICK i \in DOMAIN effects[op] : effects[op][i].key = k
        BY <1>1, <2>1, <3>1 DEF CatalogInv, ClaimsAreEffects
      <3>3. effects[op][i].body = body
        BY <1>1, <2>1, <3>1, <3>2 DEF CatalogInv, ClaimsAreEffects
      <3>4. effects[op][i] \in [key: Key, body: Body]
        BY <2>2, <3>2, Element
      <3>5. effects[op][i] = [key |-> k, body |-> body]
        BY <3>2, <3>3, <3>4
      <3> QED
        BY <3>1, <3>2, <3>5, IdleType
    <2>4. CASE idempotencyKeyConflict(c)
      <3>1. claims[op][k].body # body
            /\ tx'[c] = Idle("conflict") /\ effects' = effects
        BY <2>1, <2>4 DEF idempotencyKeyConflict, Claimed, Finish, store
      <3>2. ASSUME NEW i \in DOMAIN effects[op],
                   effects[op][i] = [key |-> k, body |-> body]
            PROVE  FALSE
        BY <1>1, <2>1, <3>1, <3>2 DEF CatalogInv, ClaimsAreEffects
      <3> QED
        BY <3>1, <3>2, IdleType
    <2>5. CASE createProduct(c) \/ createReview(c)
      <3>1. effects'[op] = Append(effects[op], [key |-> k, body |-> body])
            /\ tx'[c] = Idle("done")
        BY <2>1, <2>5 DEF createProduct, createReview, RecordEffect, Finish
      <3>2. [key |-> k, body |-> body] \in [key: Key, body: Body]
        BY <2>1
      <3>3. Len(effects[op]) + 1 \in DOMAIN effects'[op]
            /\ effects'[op][Len(effects[op]) + 1] = [key |-> k, body |-> body]
        BY <2>2, <3>1, <3>2, Appended
      <3> QED
        BY <3>1, <3>3, IdleType
    <2> QED
      BY <1>1, <2>3, <2>4, <2>5, Answer
  <1>2. CatalogInv /\ [Next]_vars =>
          [\A c \in Conn : tx[c].pc \in {"claim", "claimed"} /\ tx'[c].pc = "idle" =>
              LET mutations == effects'[tx[c].operation]
                  known == \E i \in DOMAIN mutations :
                              mutations[i] = [key |-> tx[c].key, body |-> tx[c].body]
              IN  /\ tx'[c].reply = "done" => known
                  /\ tx'[c].reply = "conflict" => ~known]_vars
    BY <1>1
  <1> QED
    BY <1>2, CatalogSafe, PTL DEF Spec, AnswersTrue

\* Claims and effects are the keyed mutations of the abstract module: every step
\* of a request is a mutation with a fresh key, or changes neither.
THEOREM CatalogImplements == Spec => ImplementsKeyedMutations
  <1> DEFINE meaning == [op \in Operation |-> [k \in Key |-> claims[op][k].body]]
  <1>1. Init => KeyedStore!Init
    BY DEF Init, KeyedStore!Init, NoClaim
  <1>2. ASSUME CatalogInv, NEW c \in Conn, createProduct(c) \/ createReview(c)
        PROVE  KeyedStore!Next
    <2> DEFINE scope == tx[c].operation
               held == tx[c].key
               said == tx[c].body
    <2>1. /\ scope \in Operation /\ held \in Key /\ said \in Body
          /\ claims[scope][held] = NoClaim
          /\ claims \in [Operation -> [Key -> Claim]]
      BY <1>2 DEF createProduct, createReview, CatalogInv, RequestOK, TypeOK, Claimed
    <2>2. PICK resource : complete(c, resource)
      BY <1>2 DEF createProduct, createReview
    <2>3. \A o \in Operation, x \in Key :
            claims'[o][x].body = IF o = scope /\ x = held THEN said ELSE claims[o][x].body
      BY <2>1, <2>2 DEF complete
    <2> HIDE DEF scope, held, said
    <2>4. meaning' = [meaning EXCEPT ![scope][held] = said]
      <3>1. \A o \in Operation, x \in Key :
              /\ (meaning')[o][x] = claims'[o][x].body
              /\ [meaning EXCEPT ![scope][held] = said][o][x]
                   = IF o = scope /\ x = held THEN said ELSE claims[o][x].body
        BY <2>1
      <3>2. \A o \in Operation, x \in Key :
              (meaning')[o][x] = [meaning EXCEPT ![scope][held] = said][o][x]
        BY <2>3, <3>1
      <3> DEFINE bodies == {claims[o][x].body : o \in Operation, x \in Key}
                             \cup {claims'[o][x].body : o \in Operation, x \in Key}
                             \cup {said}
      <3>3. meaning' \in [Operation -> [Key -> bodies]]
        OBVIOUS
      <3>4. meaning \in [Operation -> [Key -> bodies]]
        OBVIOUS
      <3>5. [meaning EXCEPT ![scope][held] = said] \in [Operation -> [Key -> bodies]]
        <4>1. said \in bodies
          OBVIOUS
        <4> HIDE DEF meaning, bodies
        <4> QED
          BY <2>1, <3>4, <4>1
      <3> HIDE DEF meaning
      <3> QED
        BY <3>2, <3>3, <3>5, SamePairs
    <2>5. meaning[scope][held] = None
      BY <2>1 DEF NoClaim
    <2>6. effects' = [effects EXCEPT ![scope] = Append(@, [key |-> held, body |-> said])]
      BY <1>2 DEF createProduct, createReview, RecordEffect, scope, held, said
    <2> QED
      BY <2>1, <2>4, <2>5, <2>6 DEF KeyedStore!Next, KeyedStore!Mutate
  <1>3. CatalogInv /\ [Next]_vars => [KeyedStore!Next]_(KeyedStore!vars)
    <2> SUFFICES ASSUME CatalogInv, [Next]_vars
                 PROVE  KeyedStore!Next \/ UNCHANGED <<claims, effects>>
      BY DEF KeyedStore!vars
    <2>1. CASE \E c \in Conn : createProduct(c) \/ createReview(c)
      BY <1>2, <2>1
    <2>2. CASE ~\E c \in Conn : createProduct(c) \/ createReview(c)
      BY <2>2 DEF Next, vars, store, createWithKey, updateProduct, RequestStep, claim,
         ReplayClaim, idempotencyKeyConflict, findByIdForUpdate, appendPriceHistory,
         Abort, Purchase
    <2> QED
      BY <2>1, <2>2
  <1> QED
    BY <1>1, <1>3, CatalogSafe, PTL DEF Spec, ImplementsKeyedMutations, KeyedStore!Spec

-----------------------------------------------------------------------------
(* The tables hold each effect once *)

\* The effect that a mutation records, and the claim it completes.
LEMMA EffectRecorded ==
    ASSUME CatalogInv, NEW c \in Conn, tx[c].pc = "claimed",
           NEW resource \in Nat \ {0}, complete(c, resource), RecordEffect(c)
    PROVE  /\ Len(effects'[tx[c].operation]) = Len(effects[tx[c].operation]) + 1
           /\ DOMAIN effects'[tx[c].operation]
                = DOMAIN effects[tx[c].operation] \cup {Len(effects[tx[c].operation]) + 1}
           /\ effects'[tx[c].operation][Len(effects[tx[c].operation]) + 1]
                 = [key |-> tx[c].key, body |-> tx[c].body]
           /\ \A i \in DOMAIN effects[tx[c].operation] :
                 effects'[tx[c].operation][i] = effects[tx[c].operation][i]
           /\ \A o \in Operation \ {tx[c].operation} : effects'[o] = effects[o]
           /\ claims'[tx[c].operation][tx[c].key]
                = [body |-> tx[c].body, resource |-> resource]
           /\ \A o \in Operation : \A i \in DOMAIN effects[o] :
                 claims'[o][effects[o][i].key] = claims[o][effects[o][i].key]
  <1> DEFINE op == tx[c].operation
             k == tx[c].key
             effect == [key |-> k, body |-> tx[c].body]
  <1>1. /\ op \in Operation /\ k \in Key /\ tx[c].body \in Body
        /\ claims \in [Operation -> [Key -> Claim]]
        /\ effects \in [Operation -> Seq([key: Key, body: Body])]
    BY DEF CatalogInv, RequestOK, TypeOK
  <1>2. effects[op] \in Seq([key: Key, body: Body]) /\ effect \in [key: Key, body: Body]
    BY <1>1
  <1>3. /\ effects'[op] = Append(effects[op], effect)
        /\ \A o \in Operation \ {op} : effects'[o] = effects[o]
        /\ claims'[op][k] = [body |-> tx[c].body, resource |-> resource]
    BY <1>1 DEF RecordEffect, complete
  <1>4. Len(Append(effects[op], effect)) = Len(effects[op]) + 1
    BY <1>2
  <1>5. /\ DOMAIN effects'[op] = DOMAIN effects[op] \cup {Len(effects[op]) + 1}
        /\ effects'[op][Len(effects[op]) + 1] = effect
        /\ \A i \in DOMAIN effects[op] : effects'[op][i] = effects[op][i]
    <2>1. PICK s \in Seq([key: Key, body: Body]), e \in [key: Key, body: Body] :
             s = effects[op] /\ e = effect
      BY <1>2
    <2>2. /\ DOMAIN Append(s, e) = DOMAIN s \cup {Len(s) + 1}
          /\ Append(s, e)[Len(s) + 1] = e
          /\ \A i \in DOMAIN s : Append(s, e)[i] = s[i]
      BY Appended
    <2>3. effects'[op] = Append(s, e)
      BY <1>3, <2>1
    <2> HIDE DEF effect
    <2> QED
      BY <2>1, <2>2, <2>3
  <1>6. ASSUME NEW o \in Operation, NEW i \in DOMAIN effects[o]
        PROVE  claims'[o][effects[o][i].key] = claims[o][effects[o][i].key]
    <2>1. effects[o][i] \in [key: Key, body: Body]
      BY <1>1, Element
    <2>2. claims[o][effects[o][i].key].body = effects[o][i].body
      BY DEF CatalogInv, ClaimsAreEffects
    <2>3. claims[o][effects[o][i].key] # NoClaim
      BY <2>1, <2>2, BodyAssumption DEF NoClaim
    <2> QED
      BY <2>1, <2>3, EffectKeeps
  <1> QED
    BY <1>1, <1>3, <1>4, <1>5, <1>6

LEMMA ProductInTables ==
    ASSUME CatalogInv, TablesMatchEffects, NEW c \in Conn, createProduct(c)
    PROVE  TablesMatchEffects'
  <1> DEFINE entry == [sequence |-> 1, price |-> tx[c].body]
  <1>0. PICK n, product : /\ n = Len(products) + 1
                          /\ product = [price |-> tx[c].body, history |-> <<entry>>]
    OBVIOUS
  <1>1. /\ tx[c].pc = "claimed" /\ tx[c].operation = "product.create"
        /\ products' = Append(products, product) /\ n \in Nat \ {0}
        /\ complete(c, n) /\ RecordEffect(c)
        /\ review' = review /\ inbox' = inbox
        /\ products \in Seq(Product) /\ tx[c].body \in Body
    BY <1>0 DEF createProduct, CatalogInv, TypeOK, RequestOK
  <1>2. product \in Product /\ product.history[1].price = tx[c].body
    BY <1>0, <1>1 DEF Product
  <1>3. /\ DOMAIN products' = DOMAIN products \cup {n} /\ Len(products') = n
        /\ products'[n] = product
        /\ \A p \in DOMAIN products : products'[p] = products[p]
    BY <1>0, <1>1, <1>2, Appended
  <1>4. /\ n = Len(effects["product.create"]) + 1
        /\ Len(effects'["product.create"]) = n
        /\ DOMAIN products = DOMAIN effects["product.create"]
        /\ effects'["product.create"][n] = [key |-> tx[c].key, body |-> tx[c].body]
        /\ \A i \in DOMAIN effects["product.create"] :
              effects'["product.create"][i] = effects["product.create"][i]
        /\ effects'["review.upsert"] = effects["review.upsert"]
        /\ claims'["product.create"][tx[c].key] = [body |-> tx[c].body, resource |-> n]
        /\ \A i \in DOMAIN effects["product.create"] :
              claims'["product.create"][effects["product.create"][i].key]
                = claims["product.create"][effects["product.create"][i].key]
    <2>1. "product.create" \in Operation /\ "review.upsert" \in Operation
      BY DEF Operation
    <2>2. /\ effects["product.create"] \in Seq([key: Key, body: Body])
          /\ Len(products) = Len(effects["product.create"])
      BY <2>1 DEF CatalogInv, TypeOK, TablesMatchEffects
    <2>3. DOMAIN products = DOMAIN effects["product.create"]
      BY <1>1, <2>2
    <2>4. "product.create" # "review.upsert"
      OBVIOUS
    <2>5. /\ Len(effects'["product.create"]) = Len(effects["product.create"]) + 1
          /\ effects'["product.create"][Len(effects["product.create"]) + 1]
                = [key |-> tx[c].key, body |-> tx[c].body]
          /\ \A i \in DOMAIN effects["product.create"] :
                effects'["product.create"][i] = effects["product.create"][i]
          /\ \A o \in Operation \ {"product.create"} : effects'[o] = effects[o]
          /\ claims'["product.create"][tx[c].key] = [body |-> tx[c].body, resource |-> n]
          /\ \A o \in Operation : \A i \in DOMAIN effects[o] :
                claims'[o][effects[o][i].key] = claims[o][effects[o][i].key]
      <3>1. PICK op, resource : op = "product.create" /\ resource = n
        OBVIOUS
      <3>2. /\ op = tx[c].operation /\ resource \in Nat \ {0}
            /\ complete(c, resource) /\ RecordEffect(c) /\ tx[c].pc = "claimed"
        BY <1>1, <3>1
      <3>3. /\ Len(effects'[op]) = Len(effects[op]) + 1
            /\ effects'[op][Len(effects[op]) + 1] = [key |-> tx[c].key, body |-> tx[c].body]
            /\ \A i \in DOMAIN effects[op] : effects'[op][i] = effects[op][i]
            /\ \A o \in Operation \ {op} : effects'[o] = effects[o]
            /\ claims'[op][tx[c].key] = [body |-> tx[c].body, resource |-> resource]
            /\ \A o \in Operation : \A i \in DOMAIN effects[o] :
                  claims'[o][effects[o][i].key] = claims[o][effects[o][i].key]
        BY <3>2, EffectRecorded
      <3> QED
        BY <3>1, <3>3
    <2> QED
      BY <1>0, <2>1, <2>2, <2>3, <2>4, <2>5
  <1>5. ASSUME NEW p \in DOMAIN products'
        PROVE  /\ products'[p].history[1].price = effects'["product.create"][p].body
               /\ claims'["product.create"][effects'["product.create"][p].key].resource = p
    <2>1. CASE p = n
      BY <1>2, <1>3, <1>4, <2>1
    <2>2. CASE p \in DOMAIN products
      BY <1>3, <1>4, <2>2 DEF TablesMatchEffects
    <2> QED
      BY <1>3, <2>1, <2>2
  <1> QED
    BY <1>1, <1>3, <1>4, <1>5 DEF TablesMatchEffects

LEMMA ReviewInTables ==
    ASSUME CatalogInv, TablesMatchEffects, NEW c \in Conn, createReview(c)
    PROVE  TablesMatchEffects'
  <1>1. /\ tx[c].pc = "claimed" /\ tx[c].operation = "review.upsert"
        /\ products' = products /\ complete(c, 1) /\ RecordEffect(c)
        /\ review' = tx[c].body /\ inbox' = inbox + 1
        /\ "product.create" \in Operation /\ "review.upsert" \in Operation
        /\ 1 \in Nat \ {0} /\ products \in Seq(Product)
        /\ effects["review.upsert"] \in Seq([key: Key, body: Body])
        /\ effects["product.create"] \in Seq([key: Key, body: Body])
    BY DEF createReview, Operation, CatalogInv, TypeOK
  <1>2. /\ effects'["product.create"] = effects["product.create"]
        /\ \A i \in DOMAIN effects["product.create"] :
              claims'["product.create"][effects["product.create"][i].key]
                = claims["product.create"][effects["product.create"][i].key]
        /\ Len(effects'["review.upsert"]) = Len(effects["review.upsert"]) + 1
        /\ effects'["review.upsert"][Len(effects["review.upsert"]) + 1].body = tx[c].body
    <2>1. /\ Len(effects'["review.upsert"]) = Len(effects["review.upsert"]) + 1
          /\ effects'["review.upsert"][Len(effects["review.upsert"]) + 1]
                = [key |-> tx[c].key, body |-> tx[c].body]
          /\ \A o \in Operation \ {"review.upsert"} : effects'[o] = effects[o]
          /\ \A o \in Operation : \A i \in DOMAIN effects[o] :
                claims'[o][effects[o][i].key] = claims[o][effects[o][i].key]
      <3>1. PICK op, resource : op = "review.upsert" /\ resource = 1
        OBVIOUS
      <3>2. /\ op = tx[c].operation /\ resource \in Nat \ {0}
            /\ complete(c, resource) /\ RecordEffect(c) /\ tx[c].pc = "claimed"
        BY <1>1, <3>1
      <3>3. /\ Len(effects'[op]) = Len(effects[op]) + 1
            /\ effects'[op][Len(effects[op]) + 1] = [key |-> tx[c].key, body |-> tx[c].body]
            /\ \A i \in DOMAIN effects[op] : effects'[op][i] = effects[op][i]
            /\ \A o \in Operation \ {op} : effects'[o] = effects[o]
            /\ claims'[op][tx[c].key] = [body |-> tx[c].body, resource |-> resource]
            /\ \A o \in Operation : \A i \in DOMAIN effects[o] :
                  claims'[o][effects[o][i].key] = claims[o][effects[o][i].key]
        BY <3>2, EffectRecorded
      <3> QED
        BY <3>1, <3>3
    <2>2. "product.create" # "review.upsert"
      OBVIOUS
    <2> QED
      BY <1>1, <2>1, <2>2
  <1>3. DOMAIN products = DOMAIN effects["product.create"]
    BY <1>1 DEF TablesMatchEffects
  <1>4. \A p \in DOMAIN products' :
           /\ products'[p].history[1].price = effects'["product.create"][p].body
           /\ claims'["product.create"][effects'["product.create"][p].key].resource = p
    BY <1>1, <1>2, <1>3 DEF TablesMatchEffects
  <1>5. /\ effects'["review.upsert"] # <<>>
        /\ effects'["review.upsert"][Len(effects'["review.upsert"])].body = tx[c].body
    <2>1. Len(effects["review.upsert"]) + 1 # 0 /\ Len(<<>>) = 0
      BY <1>1
    <2> QED
      BY <1>2, <2>1
  <1> QED
    BY <1>1, <1>2, <1>4, <1>5 DEF TablesMatchEffects

\* A price change appends to a history, whose first entry it leaves.
LEMMA PriceInTables ==
    ASSUME CatalogInv, TablesMatchEffects, NEW c \in Conn, appendPriceHistory(c)
    PROVE  TablesMatchEffects'
  <1> DEFINE q == tx[c].product
             entry == [sequence |-> tx[c].sequence, price |-> tx[c].body]
  <1>1. /\ products \in Seq(Product) /\ q \in DOMAIN products /\ HistoryOK(products[q])
        /\ products' = [products EXCEPT ![q] =
              [price |-> tx[c].body, history |-> Append(products[q].history, entry)]]
        /\ UNCHANGED <<claims, review, inbox, effects>>
        /\ tx[c].sequence \in Nat /\ tx[c].body \in Body
    BY DEF appendPriceHistory, CatalogInv, TypeOK, RequestOK, Tx
  <1>2. products[q].history \in Seq([sequence: Nat, price: Body])
    <2>1. products[q] \in Product
      BY <1>1, Element
    <2> QED
      BY <2>1 DEF Product
  <1>3. 1 \in DOMAIN products[q].history
    BY <1>1, <1>2 DEF HistoryOK
  <1>4. entry \in [sequence: Nat, price: Body]
    BY <1>1
  <1> HIDE DEF entry
  <1>5. Append(products[q].history, entry)[1] = products[q].history[1]
    BY <1>2, <1>3, <1>4, Appended
  <1>6. /\ DOMAIN products' = DOMAIN products /\ Len(products') = Len(products)
        /\ \A p \in DOMAIN products :
              products'[p].history[1].price = products[p].history[1].price
    BY <1>1, <1>5
  <1> QED
    BY <1>1, <1>6 DEF TablesMatchEffects

\* A product per creation, with the body's price first in its history and its claim
\* pointing to it; the review of the last review request; one notification for each
\* of them: no effect is lost, repeated or recorded without its rows.
THEOREM CatalogTables == Spec => []TablesMatchEffects
  <1>1. Init => TablesMatchEffects
    BY DEF Init, TablesMatchEffects, Operation
  <1>2. ASSUME CatalogInv, TablesMatchEffects, [Next]_vars
        PROVE  TablesMatchEffects'
    <2>1. CASE UNCHANGED store
      BY <1>2, <2>1 DEF store, TablesMatchEffects
    <2>2. ASSUME NEW c \in Conn,
                 createProduct(c) \/ createReview(c) \/ appendPriceHistory(c)
          PROVE  TablesMatchEffects'
      BY <1>2, <2>2, ProductInTables, ReviewInTables, PriceInTables
    <2>3. ASSUME NEW c \in Conn, RequestStep(c)
          PROVE  \/ UNCHANGED store
                 \/ createProduct(c) \/ createReview(c) \/ appendPriceHistory(c)
      BY <2>3 DEF RequestStep, claim, ReplayClaim, idempotencyKeyConflict,
                  findByIdForUpdate
    <2>4. CASE Next
      <3>1. \/ UNCHANGED store \/ \E c \in Conn : RequestStep(c)
        BY <2>4 DEF Next, createWithKey, updateProduct, Abort, Purchase
      <3> QED
        BY <2>1, <2>2, <2>3, <3>1
    <2>5. CASE UNCHANGED vars
      BY <2>1, <2>5 DEF vars, store
    <2> QED
      BY <1>2, <2>4, <2>5
  <1> QED
    BY <1>1, <1>2, CatalogSafe, PTL DEF Spec

=============================================================================
