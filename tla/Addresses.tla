----------------------------- MODULE Addresses ------------------------------
(***************************************************************************)
(* What the send dialogs of both clients share: the form, whose address    *)
(* field takes an address together with what it is to be paid ("intents"), *)
(* and the reviews of submitted forms.  An order to send is known by the   *)
(* number of the submission that is reviewed.                              *)
(***************************************************************************)
EXTENDS ClientCalls, Amounts, Sequences

CONSTANTS
    Receivers,   \* addresses
    Currencies,
    NoCurrency,
    Texts,       \* what is typed, pasted or scanned as an address
    NoText,
    Typed,       \* what the user types into amount and price fields, in parts
    Balance,     \* [Currencies -> units]
    MaxForms,    \* bound: submitted forms
    MaxPresses   \* bound: how often an order's button is pressed

ASSUME AddressesAssumption ==
    /\ NoCurrency \notin Currencies /\ NoText \notin Texts
    /\ Texts \subseteq [address : Receivers, c : Currencies \cup {NoCurrency}, am : Nat]
    /\ Typed \subseteq Nat /\ Balance \in [Currencies -> Nat]
    /\ MaxForms \in Nat /\ MaxPresses \in Nat

VARIABLES
    screen,  \* what the client shows
    forms,   \* the submitted forms: [address, currency, amount]
    told     \* [order -> how often it was displayed that it failed] (history)

SendOrders == 1..MaxForms

\* A screen: its page, the status of its call, the submission on display (0: none), and
\* whether an error message is displayed.
SendScreen(page) == [page |-> page, status |-> "edit", data |-> 0, error |-> FALSE]
NoSend == SendScreen("closed")

Form(address, currency, amount) == [address |-> address, currency |-> currency, amount |-> amount]

\* What an address text says: an address, and maybe a currency and an amount.
ParseIntents(text) == Form(text.address, text.c, ToFloat(text.am))

\* A text that is entered overwrites what it says, and keeps the rest of the form.
ApplyIntents(form, i) ==
    Form(i.address,
         IF i.currency # NoCurrency THEN i.currency ELSE form.currency,
         IF i.amount > 0 THEN i.amount ELSE form.amount)

Covered(d) == FromFloat(d.amount) <= Balance[d.currency]

\* createTransaction: the call behind the button of a review.
CreateTransaction(order) == Call(order)

SubmitReview(d) ==
    /\ Len(forms) < MaxForms
    /\ forms' = Append(forms, Form(d.address, d.currency, FromFloat(d.amount)))
    /\ screen' = [screen EXCEPT !.page = "review", !.data = Len(forms) + 1]
    /\ UNCHANGED <<told, calls>>

\* An order's failure is displayed.
Tell == told' = [o \in SendOrders |-> IF o = screen.data THEN told[o] + 1 ELSE told[o]]
=============================================================================
