------------------------------- MODULE WebSend -------------------------------
(***************************************************************************)
(* Sending from the web application.  The dialog's state outlives the      *)
(* dialog: closing resets it, but a call that is under way goes on, and    *)
(* its answer, when it comes, changes the status of whatever the dialog    *)
(* shows then.  A payment that was sent is followed by a refresh of the    *)
(* user, whose failure is displayed as one of the payment.                 *)
(***************************************************************************)
EXTENDS Addresses

CONSTANTS MinSend  \* the least amount the form takes, in parts

VARIABLES
    refreshing,  \* refreshes under way
    left         \* the dialog was closed while something was under way (history)

\* The form: an amount is normalized as it is typed, but taken from a text as it is.
SendForm ==
    LET Fields == [address : Receivers, currency : Currencies,
                   amount : {Normalize(n) : n \in Typed} \cup {AmountOfPrice(n) : n \in Typed}]
        Filled == {ApplyIntents(d, ParseIntents(t)) : d \in Fields, t \in Texts}
    IN  {d \in Filled : d.amount >= MinSend /\ Covered(d)}

\* The dialog opens as it was left behind.
OpenSend ==
    /\ screen.page = "closed"
    /\ screen' = [screen EXCEPT !.page = "form"]
    /\ UNCHANGED <<forms, told, calls, refreshing, left>>

SubmitSend ==
    /\ screen.page = "form"
    /\ \E d \in SendForm : SubmitReview(d)
    /\ UNCHANGED <<refreshing, left>>

\* Mutant: what is sent is the order that was confirmed before.
SendTransactionM ==
    /\ screen.page = "review" /\ screen.status \notin {"sending", "success"}
    /\ presses[screen.data] < MaxPresses
    /\ screen' = [screen EXCEPT !.status = "sending", !.error = FALSE]
    /\ CreateTransaction(IF screen.data > 1 THEN screen.data - 1 ELSE 1)
    /\ UNCHANGED <<forms, told, refreshing, left>>

SendTransaction ==
    /\ screen.page = "review" /\ screen.status \notin {"sending", "success"}
    /\ presses[screen.data] < MaxPresses
    /\ screen' = [screen EXCEPT !.status = "sending", !.error = FALSE]
    /\ CreateTransaction(screen.data)
    /\ UNCHANGED <<forms, told, refreshing, left>>

SendBack ==
    /\ screen.page = "review" /\ screen.status \notin {"sending", "success"}
    /\ screen' = [screen EXCEPT !.page = "form", !.error = FALSE]
    /\ UNCHANGED <<forms, told, calls, refreshing, left>>

\* Closing resets the state, and so does the end of the animation that follows.
OnModalClose ==
    /\ screen.page # "closed"
    /\ screen' = IF screen.page = "closing" THEN NoSend ELSE SendScreen("closing")
    /\ left' = (left \/ posts # {} \/ refreshing > 0)
    /\ UNCHANGED <<forms, told, calls, refreshing>>

Sent(p) ==
    /\ Hear(p, "ok")
    /\ screen' = [screen EXCEPT !.status = "success"]
    /\ refreshing' = refreshing + 1
    /\ UNCHANGED <<forms, told, left>>

\* Mutant: the dialog stays in its status.
CaughtM ==
    /\ screen' = [screen EXCEPT !.error = TRUE]
    /\ Tell
    /\ UNCHANGED <<forms, left>>

\* The catch of sendTransaction, for the payment and for the refresh.
Caught ==
    /\ screen' = [screen EXCEPT !.status = "fail", !.error = TRUE]
    /\ Tell
    /\ UNCHANGED <<forms, left>>

NotSent(p) == Hear(p, "error") /\ Caught /\ UNCHANGED refreshing

Refreshed ==
    /\ refreshing > 0 /\ refreshing' = refreshing - 1
    /\ UNCHANGED calls
    /\ \/ UNCHANGED <<screen, forms, told, left>>
       \/ Caught

SendAnswers == Refreshed \/ \E p \in posts : Sent(p) \/ NotSent(p)

WebSendNext ==
    OpenSend \/ SubmitSend \/ SendTransaction \/ SendBack \/ OnModalClose \/ SendAnswers
=============================================================================
