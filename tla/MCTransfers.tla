---------------------------- MODULE MCTransfers -----------------------------
EXTENDS Transfers
CONSTANTS XUS, XDX
\* Amounts are typed in thirds of a unit; two units make a coin.  XDX has no balance.
MCBalance == [c \in Currencies |-> IF c = XUS THEN 3 ELSE 0]
=============================================================================
