----------------------------- MODULE Settlement -----------------------------
(***************************************************************************)
(* What the travel rule flow promises about the money of a payment: it     *)
(* moves on chain only after the recipient's VASP signed the payment, each *)
(* VASP books it only after it moved, and each books it at most once.      *)
(* Nothing is promised here about how often it moves on chain: see         *)
(* P2PPayment!PaidOnce for when that is once.                              *)
(***************************************************************************)
EXTENDS Naturals

CONSTANT Refs           \* reference ids of payments

VARIABLES
    signed,             \* payments the recipient's VASP signed
    paid,               \* number of on-chain transfers made for a payment
    debits,             \* entries for the payment in the sender VASP's ledger
    credits             \* entries for the payment in the receiver VASP's ledger

settlementVars == <<signed, paid, debits, credits>>

SettlementInit ==
    /\ signed = {}
    /\ paid = [r \in Refs |-> 0]
    /\ debits = [r \in Refs |-> 0]
    /\ credits = [r \in Refs |-> 0]

Sign(r) ==
    /\ signed' = signed \cup {r}
    /\ UNCHANGED <<paid, debits, credits>>

Pay(r) ==
    /\ r \in signed
    /\ paid' = [paid EXCEPT ![r] = @ + 1]
    /\ UNCHANGED <<signed, debits, credits>>

Debit(r) ==
    /\ paid[r] > 0 /\ debits[r] = 0
    /\ debits' = [debits EXCEPT ![r] = 1]
    /\ UNCHANGED <<signed, paid, credits>>

Credit(r) ==
    /\ paid[r] > 0 /\ credits[r] = 0
    /\ credits' = [credits EXCEPT ![r] = 1]
    /\ UNCHANGED <<signed, paid, debits>>

SettlementNext == \E r \in Refs : Sign(r) \/ Pay(r) \/ Debit(r) \/ Credit(r)

SettlementSpec == SettlementInit /\ [][SettlementNext]_settlementVars
=============================================================================
