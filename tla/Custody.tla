------------------------------ MODULE Custody ------------------------------
(***************************************************************************)
(* What a custodial wallet promises about its customers' money.  Every     *)
(* change of a balance has one of these causes: a deposit that reached the *)
(* wallet's chain account is credited once, with its amount and to the     *)
(* account it is for; a customer moves money to another one; money is      *)
(* taken from a balance for a withdrawal, which is then paid on the chain  *)
(* or given back, not both.                                                *)
(***************************************************************************)
EXTENDS Integers

CONSTANTS Accounts, Amounts, Nobody

VARIABLES
    balance,        \* [Accounts -> Int]
    deposits,       \* what arrived so far, by whatever names it
    withdrawals     \* what was taken from balances so far, by whatever names it

custodyVars == <<balance, deposits, withdrawals>>

\* f with one more element.
With(f, x, y) == [z \in DOMAIN f \cup {x} |-> IF z = x THEN y ELSE f[z]]

Deposit(state, to, n) == [state |-> state, to |-> to, amount |-> n]
Withdrawal(state, from, n) == [state |-> state, from |-> from, amount |-> n]

CustodyInit ==
    /\ balance = [a \in Accounts |-> 0]
    /\ deposits = << >>
    /\ withdrawals = << >>

\* Money arrives on the chain, for an account or for nobody.
Arrive(d, to, n) ==
    /\ d \notin DOMAIN deposits
    /\ deposits' = With(deposits, d, Deposit("due", to, n))
    /\ UNCHANGED <<balance, withdrawals>>

Credit(d) ==
    /\ deposits[d].state = "due" /\ deposits[d].to # Nobody
    /\ deposits' = [deposits EXCEPT ![d].state = "credited"]
    /\ balance' = [balance EXCEPT ![deposits[d].to] = @ + deposits[d].amount]
    /\ UNCHANGED withdrawals

\* The wallet keeps money that is for nobody, and owes it to no account.
Park(d) ==
    /\ deposits[d].state = "due" /\ deposits[d].to = Nobody
    /\ deposits' = [deposits EXCEPT ![d].state = "parked"]
    /\ UNCHANGED <<balance, withdrawals>>

Move(a, b, n) ==
    /\ a # b
    /\ balance' = [balance EXCEPT ![a] = @ - n, ![b] = @ + n]
    /\ UNCHANGED <<deposits, withdrawals>>

\* A travel rule payment is paid before it is taken from the balance.
Withdraw(w, a, n, state) ==
    /\ w \notin DOMAIN withdrawals /\ state \in {"reserved", "paid"}
    /\ withdrawals' = With(withdrawals, w, Withdrawal(state, a, n))
    /\ balance' = [balance EXCEPT ![a] = @ - n]
    /\ UNCHANGED deposits

Pay(w) ==
    /\ withdrawals[w].state = "reserved"
    /\ withdrawals' = [withdrawals EXCEPT ![w].state = "paid"]
    /\ UNCHANGED <<balance, deposits>>

Release(w) ==
    /\ withdrawals[w].state = "reserved"
    /\ withdrawals' = [withdrawals EXCEPT ![w].state = "released"]
    /\ balance' = [balance EXCEPT ![withdrawals[w].from] = @ + withdrawals[w].amount]
    /\ UNCHANGED deposits

\* Most steps of the wallet concern nobody's money.
Other == UNCHANGED custodyVars

CustodyNext ==
    \/ Other
    \/ \E d \in DOMAIN deposits', to \in Accounts \cup {Nobody}, n \in Amounts : Arrive(d, to, n)
    \/ \E d \in DOMAIN deposits : Credit(d) \/ Park(d)
    \/ \E a, b \in Accounts, n \in Amounts : Move(a, b, n)
    \/ \E w \in DOMAIN withdrawals', a \in Accounts, n \in Amounts, state \in {"reserved", "paid"} :
          Withdraw(w, a, n, state)
    \/ \E w \in DOMAIN withdrawals : Pay(w) \/ Release(w)

CustodySpec == CustodyInit /\ [][CustodyNext]_custodyVars
=============================================================================
