------------------------------- MODULE Consent -------------------------------
(***************************************************************************)
(* What the dialogs of the wallet's clients promise their user, whatever   *)
(* happens to requests and answers: an order is carried out only when the  *)
(* user pressed the button for it while it was on display, and once for    *)
(* every time that the user pressed.                                       *)
(***************************************************************************)
EXTENDS Naturals

CONSTANT Orders  \* what a user can order

VARIABLES
    shown,    \* the orders on display, with the buttons for them
    presses,  \* [Orders -> how often the user ordered it]
    executed  \* the presses that were carried out

Press(o, n) == [order |-> o, no |-> n]

ConsentInit ==
    /\ shown = {}
    /\ presses = [o \in Orders |-> 0]
    /\ executed = {}

Show ==
    /\ shown' \subseteq Orders
    /\ UNCHANGED <<presses, executed>>

\* The dialog may close with it.
Confirm(o) ==
    /\ o \in shown
    /\ presses' = [presses EXCEPT ![o] = @ + 1]
    /\ shown' \subseteq shown
    /\ UNCHANGED executed

Execute(o, n) ==
    /\ n \in 1..presses[o] /\ Press(o, n) \notin executed
    /\ executed' = executed \cup {Press(o, n)}
    /\ UNCHANGED <<shown, presses>>

ConsentNext ==
    \/ Show
    \/ \E o \in Orders : Confirm(o) \/ \E n \in 1..presses[o] : Execute(o, n)

ConsentSpec == ConsentInit /\ [][ConsentNext]_<<shown, presses, executed>>
=============================================================================
