--------------------------- MODULE KeyedMutations ----------------------------
(***************************************************************************)
(* What an Idempotency-Key promises to a client that repeats a request: the *)
(* first request with a key takes effect in one step and fixes what the key *)
(* stands for; nothing later does that again for the key.                   *)
(***************************************************************************)
EXTENDS Sequences

CONSTANTS Scope,   \* operations, each with keys of its own
          Key, Body, None

VARIABLES meaning, \* meaning[s][k]: the body that key k of s stands for
          effects  \* effects[s]: the mutations of s that took effect, in order

vars == <<meaning, effects>>

Init ==
    /\ meaning = [s \in Scope |-> [k \in Key |-> None]]
    /\ effects = [s \in Scope |-> <<>>]

Mutate(s, k, body) ==
    /\ meaning[s][k] = None
    /\ meaning' = [meaning EXCEPT ![s][k] = body]
    /\ effects' = [effects EXCEPT ![s] = Append(@, [key |-> k, body |-> body])]

Next == \E s \in Scope, k \in Key, body \in Body : Mutate(s, k, body)

Spec == Init /\ [][Next]_vars
=============================================================================
