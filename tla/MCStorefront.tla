---------------------------- MODULE MCStorefront ----------------------------
EXTENDS Storefront, TLC

CONSTANTS p1, p2, o1, o2, m1, m2

AnyOption == Permutations({o1, o2})

AnyOptionAndTask == AnyOption \cup Permutations({m1, m2})

=============================================================================
