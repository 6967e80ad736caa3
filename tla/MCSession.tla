------------------------------ MODULE MCSession ------------------------------
(* Instances of Session for TLC. *)
EXTENDS Session, TLC
CONSTANTS id1, id2, p1, p2, c1, c2, c3

Symmetry == Permutations(Conn) \cup Permutations(SessionId)
            \cup Permutations(Password)
=============================================================================
