------------------------------- MODULE Money -------------------------------
(***************************************************************************)
(* Amounts of money in minor units, as backend/src/money.ts and             *)
(* frontend/src/money.ts compute them. Both count in bigint, so no sum      *)
(* wraps around; what bounds an amount is maximumMoneyMinor, the limit of    *)
(* the columns it is stored in.                                             *)
(***************************************************************************)
EXTENDS Integers, Sequences, SequencesExt

CONSTANT MaxMoney   \* maximumMoneyMinor

ASSUME MaxMoneyAssumption == MaxMoney \in Nat

Amount == 0 .. MaxMoney
NoAmount == -1      \* null

-----------------------------------------------------------------------------
(* The server *)

checkedMoneyMultiply(amount, quantity) ==
    LET result == amount * quantity
    IN  IF result <= MaxMoney THEN result ELSE NoAmount

\* Mutant: the sum is not compared with the limit.
checkedMoneyAdd_Unchecked(left, right) == left + right

checkedMoneyAdd(left, right) ==
    LET result == left + right
    IN  IF result <= MaxMoney THEN result ELSE NoAmount

\* One turn of the pricing loop; a null that an earlier turn met has ended it.
addLine(line, running) ==
    IF line = NoAmount \/ running = NoAmount THEN NoAmount
    ELSE checkedMoneyAdd(running, line)

\* The lines of a cart are priced in the order of their product ids.
pricingLoop(line) ==
    MapThenFoldSet(addLine, 0, LAMBDA id : line[id], Max, DOMAIN line)

-----------------------------------------------------------------------------
(* The browser *)

moneyMinorValue(money) == IF money \in Amount THEN money ELSE NoAmount

multiplyMoney(money, quantity) ==
    LET amount == moneyMinorValue(money)
        result == amount * quantity
    IN  IF amount = NoAmount \/ result > MaxMoney THEN NoAmount ELSE result

addValue(total, value) ==
    LET amount == moneyMinorValue(value)
    IN  IF \/ total = NoAmount
           \/ amount = NoAmount
           \/ total + amount > MaxMoney
        THEN NoAmount
        ELSE total + amount

sumMoney(values) == FoldLeft(addValue, 0, values)
=============================================================================
