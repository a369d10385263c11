------------------------------ MODULE MCSends -------------------------------
EXTENDS Sends
CONSTANTS XUS, alice
\* A bare address, and one with intents; two units make a coin, in thirds of a unit.
MCTexts == {[address |-> alice, c |-> NoCurrency, am |-> 0], [address |-> alice, c |-> XUS, am |-> 2]}
MCBalance == [c \in Currencies |-> 3]
=============================================================================
