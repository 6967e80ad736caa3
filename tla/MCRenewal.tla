------------------------------ MODULE MCRenewal ------------------------------
(* Instances of Renewal for TLC. *)
EXTENDS Renewal
CONSTANTS t1, t2, r1
OneAndTwo == [t \in {t1, t2} |-> IF t = t1 THEN {restore, r1} ELSE {restore}]
=============================================================================
