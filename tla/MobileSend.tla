----------------------------- MODULE MobileSend ------------------------------
(***************************************************************************)
(* Sending from the mobile app: a form screen pushes a review screen.  A   *)
(* link that opened the app opens the form, and is put into the form again *)
(* whenever the form is rendered: nothing that it says can be edited.      *)
(***************************************************************************)
EXTENDS Addresses

VARIABLE link  \* the text that opened the app, or NoText

\* What is typed is not normalized; what follows from a price is.
MobileSendForm ==
    LET Amount == Typed \cup {Normalize((FromFloat(n) * Coin * Parts) \div Rate) : n \in Typed}
        Fields == [address : Receivers, currency : Currencies, amount : Amount]
        Entered == IF link = NoText THEN Texts ELSE {link}
        Filled == {ApplyIntents(d, ParseIntents(t)) : d \in Fields, t \in Entered}
    IN  {d \in Filled : d.amount >= Coin * Parts /\ Covered(d)}

MobileOpenSend ==
    /\ screen.page = "closed"
    /\ screen' = SendScreen("form")
    /\ UNCHANGED <<forms, told, calls, link>>

OnFormSubmit ==
    /\ screen.page = "form"
    /\ \E d \in MobileSendForm : SubmitReview(d)
    /\ UNCHANGED link

\* Mutant: the button is not disabled while the call is under way.
SendHandleSubmitM ==
    /\ screen.page = "review" /\ screen.status # "success"
    /\ presses[screen.data] < MaxPresses
    /\ screen' = [screen EXCEPT !.status = "sending"]
    /\ CreateTransaction(screen.data)
    /\ UNCHANGED <<forms, told, link>>

SendHandleSubmit ==
    /\ screen.page = "review" /\ screen.status \notin {"sending", "success"}
    /\ presses[screen.data] < MaxPresses
    /\ screen' = [screen EXCEPT !.status = "sending"]
    /\ CreateTransaction(screen.data)
    /\ UNCHANGED <<forms, told, link>>

MobileSent(p) ==
    /\ Hear(p, "ok")
    /\ screen' = [screen EXCEPT !.status = "success"]
    /\ UNCHANGED <<forms, told, link>>

\* Mutant: the answer is awaited, and then the screen says that it worked.
MobileNotSentM(p) ==
    /\ Hear(p, "error")
    /\ screen' = [screen EXCEPT !.status = "success"]
    /\ UNCHANGED <<forms, told, link>>

MobileNotSent(p) ==
    /\ Hear(p, "error")
    /\ screen' = [screen EXCEPT !.status = "fail", !.error = TRUE]
    /\ Tell
    /\ UNCHANGED <<forms, link>>

MobileSendAnswers == \E p \in posts : MobileSent(p) \/ MobileNotSent(p)

\* Back to the form, by a button or by the navigation bar, at any time.
SendGoBack ==
    /\ screen.page = "review"
    /\ screen' = SendScreen("form")
    /\ Leave /\ UNCHANGED <<forms, told, link>>

\* To the root: after a success, or back from the form.
SendGoToRoot ==
    /\ screen.page = "form" \/ screen.status = "success"
    /\ screen' = NoSend
    /\ Leave /\ UNCHANGED <<forms, told, link>>

MobileSendNext ==
    \/ MobileOpenSend \/ OnFormSubmit \/ SendHandleSubmit \/ MobileSendAnswers
    \/ SendGoBack \/ SendGoToRoot
=============================================================================
