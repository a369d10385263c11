------------------------------- MODULE Quotes --------------------------------
(***************************************************************************)
(* What the transfer dialogs of both clients share: a form is submitted    *)
(* for a quote, the quote is reviewed and then executed.  A quote is known *)
(* by the number of the submission that it answers.                        *)
(***************************************************************************)
EXTENDS ClientCalls, Amounts, Sequences

CONSTANTS
    Methods,    \* the user's payment methods
    NoMethod,
    Currencies, \* Diem currencies
    Fiats,
    Typed,      \* what the user types into amount and price fields, in parts
    Balance,    \* [Currencies -> units]
    MaxForms,   \* bound: submitted forms
    MaxPresses  \* bound: how often an order's button is pressed

ASSUME QuotesAssumption ==
    /\ NoMethod \notin Methods
    /\ Typed \subseteq Nat /\ Balance \in [Currencies -> Nat]
    /\ MaxForms \in Nat /\ MaxPresses \in Nat

VARIABLES
    screen,     \* what the client shows
    forms,      \* the submitted forms: [kind, method, rfq]
    asking      \* submissions whose answer somebody may hear

quotes == <<forms, asking>>

Kinds == {"deposit", "withdraw", "convert"}
TransferOrders == [quote : 1..MaxForms, method : Methods \cup {NoMethod}]

\* A screen: kind of transfer, phase, the submission whose values the form holds, the
\* quote, and whether an error message is displayed.  0 stands for none.
Screen(page, kind, phase) ==
    [page |-> page, kind |-> kind, phase |-> phase, data |-> 0, quote |-> 0, error |-> FALSE]
Closed == Screen("closed", "none", "none")

RequestQuote(action, base, quote, amount) ==
    [action |-> action, pair |-> <<base, quote>>, amount |-> amount]
RequestDepositQuote(fiat, currency, amount) == RequestQuote("buy", currency, fiat, amount)
RequestWithdrawQuote(currency, fiat, amount) == RequestQuote("sell", currency, fiat, amount)
RequestConvertQuote(from, to, amount) == RequestQuote("sell", from, to, amount)

\* The call behind the button of a review.
ExecuteQuote(quote, method) == Call([quote |-> quote, method |-> method])

\* A form is submitted: its quote is asked for.
Ask(kind, method, rfq) ==
    /\ Len(forms) < MaxForms
    /\ forms' = Append(forms, [kind |-> kind, method |-> method, rfq |-> rfq])
    /\ asking' = asking \cup {Len(forms) + 1}

\* The answer for submission i, or its failure, comes.
Answered(i) == i \in asking /\ asking' = asking \ {i} /\ UNCHANGED forms

\* The screen is left, with all that it waits for.
LeaveQuotes == Leave /\ asking' = {} /\ UNCHANGED forms
=============================================================================
