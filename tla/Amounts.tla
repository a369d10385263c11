------------------------------- MODULE Amounts -------------------------------
(***************************************************************************)
(* Amounts of money in the clients.  Inside they are whole numbers of the  *)
(* smallest unit; forms hold decimal fractions, which users may type with  *)
(* any precision.  Here a fraction is a number of parts of a unit.         *)
(***************************************************************************)
EXTENDS Naturals

CONSTANTS
    Coin,   \* units in a coin
    Parts,  \* parts in a unit
    Rate    \* the price of a coin, in units of the other currency

ASSUME AmountsAssumption == Coin \in Nat \ {0} /\ Parts \in Nat \ {0} /\ Rate \in Nat \ {0}

\* diemAmountFromFloat and fiatFromDiemFloat round to the nearest unit, half up.
FromFloat(parts) == (2 * parts + Parts) \div (2 * Parts)
ToFloat(units) == units * Parts
Normalize(parts) == ToFloat(FromFloat(parts))

\* calcAmount of a price that was typed: what the form puts in the amount's place.
AmountOfPrice(parts) == Normalize((FromFloat(parts) * Coin * Parts) \div Rate)
=============================================================================
