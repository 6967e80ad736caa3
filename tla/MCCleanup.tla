------------------------------ MODULE MCCleanup ------------------------------
(* Instances of Cleanup for TLC. *)
EXTENDS Cleanup, TLC
CONSTANTS s1, n1, n2, k1
Tables == (s1 :> "sessions") @@ (n1 :> "notifications")
          @@ (n2 :> "notifications") @@ (k1 :> "carts")
Windows == [target \in Target |-> IF target = "unreadNotifications" THEN 2 ELSE 1]
=============================================================================
