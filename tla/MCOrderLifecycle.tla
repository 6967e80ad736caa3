-------------------------- MODULE MCOrderLifecycle --------------------------
(* Instances of OrderLifecycle for TLC. *)
EXTENDS OrderLifecycle, TLC
CONSTANTS b1, s1, s2, o1, o2, c1, c2, c3

\* o1 is bought from two sellers; o2 is bought by a seller of o1.
BuyerOfOrder(o) == IF o = o1 THEN b1 ELSE s1
SellersOfOrder(o) == IF o = o1 THEN {s1, s2} ELSE {s2}
MCBuyerOf == [o \in Order |-> BuyerOfOrder(o)]
MCSellersOf == [o \in Order |-> SellersOfOrder(o)]
ConnSymmetry == Permutations(Conn)
=============================================================================
