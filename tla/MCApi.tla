------------------------------- MODULE MCApi -------------------------------
EXTENDS Api, TLC

CONSTANTS t1, t2, u1, s1, s2, q1, q2

(* One page may ask for anything, the other changes who is signed in. *)
AnyAndAccount ==
  q1 :> Routes
  @@ q2 :> {"login", "refresh", "logoutCurrent"}

OneAndTwo == q1 :> 1 @@ q2 :> 2

AnySession == Permutations({s1, s2})

HomeOfAll == [u \in {u1} |-> t1]

=============================================================================
