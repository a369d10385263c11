----------------------------- MODULE PaymentLink -----------------------------
(***************************************************************************)
(* A merchant's link asks the user of the web application to approve or    *)
(* reject a payment.  The link says everything about the payment, or the   *)
(* backend asks the merchant; either way the backend saves a row, on which *)
(* it acts when the user decides.                                          *)
(***************************************************************************)
EXTENDS ClientCalls

CONSTANTS
    Payment,       \* the payment that the link is about
    MaxDecisions   \* bound: how often each of the two buttons is pressed

VARIABLES
    url,      \* the link: how many parameters, whether they parse, demo, action
    params,   \* what the page knows of the payment, or Invalid
    task,     \* the page's first call, "add" or "get", while it is under way, or "none"
    dialog,   \* the status of the dialog, or "closed"
    row,      \* backend: "none", "ready_for_user" or "rejected"
    locks,    \* backend: transactions that lock funds for the payment
    merchant  \* what the merchant knows: "open" or "aborted"

linkPage == <<url, params, task, dialog>>
linkBackend == <<row, locks, merchant>>

LinkOrders == [about : {Payment}, decision : {"approve", "reject"}]
Decide(d) == [about |-> Payment, decision |-> d]

Params(full, demo, redirect) == [isFull |-> full, demo |-> demo, redirect |-> redirect]
Invalid == Params(FALSE, FALSE, FALSE)

\* Three parameters name a payment, a fourth says where to return to; more say everything.
FromUrlQueryString(u) ==
    CASE ~u.valid -> Invalid
      [] u.valid /\ u.count = 3 -> Params(FALSE, FALSE, FALSE)
      [] u.valid /\ u.count = 4 -> Params(FALSE, FALSE, TRUE)
      [] OTHER -> Params(TRUE, u.demo, TRUE)

\* Whether a payment is a demo is not among what the backend answers.
FromPaymentDetails(p) == Params(TRUE, FALSE, p.redirect)

\* The page is loaded with the link.
OpenLink ==
    /\ dialog = "closed" /\ url.valid
    /\ params' = FromUrlQueryString(url) /\ dialog' = "edit"
    /\ task' = IF params'.isFull THEN "add" ELSE "get"
    /\ UNCHANGED <<url, linkBackend, calls>>

\* addPayment, for demos too; the page ignores that it fails, as it does for a row that
\* exists.  The answer has no effect.
AddPayment ==
    /\ task = "add" /\ task' = "none"
    /\ row' \in IF row = "none" THEN {"none", "ready_for_user"} ELSE {row}
    /\ UNCHANGED <<url, params, dialog, locks, merchant, calls>>

\* getPaymentDetails asks the merchant about a payment without a row.  An error leaves
\* the page with its spinner.
GetPaymentDetails ==
    /\ task = "get" /\ task' = "none"
    /\ \/ /\ row' = IF row = "none" THEN "ready_for_user" ELSE row
          /\ params' = FromPaymentDetails(params) \/ UNCHANGED params
       \/ UNCHANGED <<row, params>>
    /\ UNCHANGED <<url, dialog, locks, merchant, calls>>

Offers(d) ==
    /\ params.isFull
    /\ dialog = "edit" \/ (dialog = "sending" /\ d = "approve")

\* A demo waits for a second.
OnConfirm ==
    /\ Offers("approve")
    /\ presses[Decide("approve")] < MaxDecisions
    /\ IF params.demo
       THEN dialog' = "sending" /\ UNCHANGED calls
       ELSE Call(Decide("approve")) /\ UNCHANGED dialog
    /\ UNCHANGED <<url, params, task, linkBackend>>

DemoTimeout ==
    /\ params.demo /\ dialog = "sending"
    /\ dialog' = "success"
    /\ UNCHANGED <<url, params, task, linkBackend, calls>>

\* In a demo nothing happens.
OnReject ==
    /\ Offers("reject") /\ ~params.demo
    /\ presses[Decide("reject")] < MaxDecisions
    /\ Call(Decide("reject"))
    /\ UNCHANGED <<linkPage, linkBackend>>

\* Approving waits for an error only.
Confirmed(p) ==
    /\ p.order = Decide("approve")
    /\ \/ Hear(p, "ok") /\ UNCHANGED dialog
       \/ Hear(p, "error") /\ dialog' = "fail"
    /\ UNCHANGED <<url, params, task, linkBackend>>

\* Rejecting waits for success only.
Rejected(p) ==
    /\ p.order = Decide("reject")
    /\ \/ Hear(p, "ok") /\ dialog' = "success"
       \/ Hear(p, "error") /\ UNCHANGED dialog
    /\ UNCHANGED <<url, params, task, linkBackend>>

\* The dialog is closed, or the user goes back to the merchant.
CloseLink ==
    /\ dialog # "closed"
    /\ dialog' = "closed" /\ task' = "none"
    /\ Leave
    /\ UNCHANGED <<url, params, linkBackend>>

LinkAnswers == \E p \in posts : Confirmed(p) \/ Rejected(p)
LinkTask == AddPayment \/ GetPaymentDetails
LinkClient ==
    OpenLink \/ OnConfirm \/ OnReject \/ DemoTimeout \/ CloseLink \/ LinkTask \/ LinkAnswers

(* The backend.                                                            *)

\* The route answers, and nothing was done.
NothingDone(p) ==
    /\ p \in posts /\ p.state = "sent"
    /\ \E state \in {"ok", "error"} : Answer(p, state)
    /\ UNCHANGED <<presses, executed>>

\* approve_payment with init_offchain_required = FALSE: the button is there only when
\* isFull.  A charge is left to nobody.  The row's status plays no part, and does not change.
ApprovePayment(p) ==
    /\ p.order = Decide("approve")
    /\ \/ row = "none" /\ Refuse(p) /\ UNCHANGED locks
       \/ row # "none" /\ url.action = "auth" /\ locks' = locks + 1 /\ Serve(p)
       \/ row # "none" /\ url.action = "charge" /\ NothingDone(p) /\ UNCHANGED locks
    /\ UNCHANGED <<linkPage, row, merchant>>

\* reject_payment tells the merchant; the row changes with the answer "success".  Another
\* answer, or none, is no error, and changes nothing.
RejectPayment(p) ==
    /\ p.order = Decide("reject")
    /\ \/ row = "none" /\ Refuse(p) /\ UNCHANGED <<row, merchant>>
       \/ row # "none" /\ merchant' = "aborted" /\ row' = "rejected" /\ Serve(p)
       \/ row # "none" /\ UNCHANGED <<row, merchant>> /\ NothingDone(p)
       \/ row # "none" /\ merchant' \in {merchant, "aborted"} /\ UNCHANGED row /\ Refuse(p)
    /\ UNCHANGED <<linkPage, locks>>

LinkBackend ==
    \E p \in posts :
        \/ p.state = "sent" /\ (ApprovePayment(p) \/ RejectPayment(p))
        \/ Refuse(p) /\ UNCHANGED <<linkPage, linkBackend>>

LinkInit ==
    /\ url \in [count : {3, 4, 11}, valid : BOOLEAN, demo : BOOLEAN, action : {"charge", "auth"}]
    /\ params = Invalid /\ task = "none" /\ dialog = "closed"
    /\ row = "none" /\ locks = 0 /\ merchant = "open"
=============================================================================
