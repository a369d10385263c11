--------------------------- MODULE MobileTransfer ---------------------------
(***************************************************************************)
(* Deposits, withdrawals and conversions in the mobile app: a form screen  *)
(* asks for a quote and, when it has it, pushes a review screen, which     *)
(* executes it.  A review that failed may be confirmed again.  The user    *)
(* can go back from any screen at any time; only the buttons are disabled  *)
(* while a call is under way.  (A button that is "loading" does not react: *)
(* react-native-elements.)                                                 *)
(***************************************************************************)
EXTENDS Quotes

\* diemFromFloat, normalizeDiem
DiemFromFloat(parts) == FromFloat(parts)
NormalizeDiem(parts) == ToFloat(DiemFromFloat(parts))

(* The forms.  What is typed as an amount is not normalized; what follows  *)
(* from a price is.                                                        *)

MobileAmounts == Typed \cup {NormalizeDiem((FromFloat(n) * Coin * Parts) \div Rate) : n \in Typed}
MobileTransfers ==
    {d \in [method : Methods, currency : Currencies, fiat : Fiats, amount : MobileAmounts] :
        d.amount >= Coin * Parts}

MobileDepositForm == MobileTransfers
MobileWithdrawForm == {d \in MobileTransfers : DiemFromFloat(d.amount) <= Balance[d.currency]}

\* Nothing asks for two different currencies.
MobileConvertForm ==
    {d \in [from : Currencies, to : Currencies, amount : MobileAmounts] :
        d.amount >= Coin * Parts /\ DiemFromFloat(d.amount) <= Balance[d.from]}

OnForm(kind) == screen.page = "form" /\ screen.kind = kind

\* handleSubmit(onFormSubmit) up to the call: the button shows that it is loading.
SubmitForm(method, rfq) ==
    /\ screen.phase = "edit"
    /\ Ask(screen.kind, method, rfq)
    /\ screen' = [screen EXCEPT !.phase = "loading", !.data = Len(forms) + 1, !.error = FALSE]
    /\ UNCHANGED calls

PushReview(i) ==
    /\ screen.phase = "loading" /\ screen.data = i /\ Answered(i)
    /\ screen' = [screen EXCEPT !.page = "review", !.phase = "edit", !.quote = i]
    /\ UNCHANGED calls

\* Mutant: the button goes on loading.
FormFailedM(i) ==
    /\ screen.phase = "loading" /\ screen.data = i /\ Answered(i)
    /\ screen' = [screen EXCEPT !.error = TRUE]
    /\ UNCHANGED calls

FormFailed(i) ==
    /\ screen.phase = "loading" /\ screen.data = i /\ Answered(i)
    /\ screen' = [screen EXCEPT !.phase = "edit", !.error = TRUE]
    /\ UNCHANGED calls

FormAnswers == \E i \in asking : PushReview(i) \/ FormFailed(i)

MobileDeposit ==
    /\ OnForm("deposit")
    /\ \/ \E d \in MobileDepositForm :
            SubmitForm(d.method, RequestDepositQuote(d.fiat, d.currency, DiemFromFloat(d.amount)))
       \/ FormAnswers

MobileWithdraw ==
    /\ OnForm("withdraw")
    /\ \/ \E d \in MobileWithdrawForm :
            SubmitForm(d.method, RequestWithdrawQuote(d.currency, d.fiat, DiemFromFloat(d.amount)))
       \/ FormAnswers

MobileConvert ==
    /\ OnForm("convert")
    /\ \/ \E d \in MobileConvertForm :
            SubmitForm(NoMethod, RequestConvertQuote(d.from, d.to, DiemFromFloat(d.amount)))
       \/ FormAnswers

(* The reviews.                                                            *)

OnReview(kind) == screen.page = "review" /\ screen.kind = kind

\* Mutant: the button is not disabled while the call is under way.
HandleSubmitM(method) ==
    /\ screen.phase # "success"
    /\ presses[[quote |-> screen.quote, method |-> method]] < MaxPresses
    /\ screen' = [screen EXCEPT !.phase = "sending"]
    /\ ExecuteQuote(screen.quote, method)
    /\ UNCHANGED quotes

HandleSubmit(method) ==
    /\ screen.phase \in {"edit", "fail"}
    /\ presses[[quote |-> screen.quote, method |-> method]] < MaxPresses
    /\ screen' = [screen EXCEPT !.phase = "sending"]
    /\ ExecuteQuote(screen.quote, method)
    /\ UNCHANGED quotes

\* The message of an earlier failure stays.
SubmitDone(p) ==
    /\ Hear(p, "ok")
    /\ screen' = [screen EXCEPT !.phase = "success"]
    /\ UNCHANGED quotes

\* Mutant: the screen says that it worked whatever the answer.
SubmitFailedM(p) ==
    /\ Hear(p, "error")
    /\ screen' = [screen EXCEPT !.phase = "success"]
    /\ UNCHANGED quotes

SubmitFailed(p) ==
    /\ Hear(p, "error")
    /\ screen' = [screen EXCEPT !.phase = "fail", !.error = TRUE]
    /\ UNCHANGED quotes

\* The form is as it was when its quote came.
GoBack ==
    /\ screen.page = "review"
    /\ screen' = [screen EXCEPT !.page = "form", !.phase = "edit", !.quote = 0, !.error = FALSE]
    /\ Leave /\ UNCHANGED quotes

GoToRoot ==
    /\ screen.phase = "success"
    /\ screen' = Closed
    /\ LeaveQuotes

ReviewAnswers == \E p \in posts : SubmitDone(p) \/ SubmitFailed(p)

MobileDepositReview ==
    /\ OnReview("deposit")
    /\ HandleSubmit(forms[screen.data].method) \/ ReviewAnswers \/ GoBack \/ GoToRoot
MobileWithdrawReview ==
    /\ OnReview("withdraw")
    /\ HandleSubmit(forms[screen.data].method) \/ ReviewAnswers \/ GoBack \/ GoToRoot
MobileConvertReview ==
    /\ OnReview("convert")
    /\ HandleSubmit(NoMethod) \/ ReviewAnswers \/ GoBack \/ GoToRoot

-----------------------------------------------------------------------------
OpenTransferScreen ==
    /\ screen = Closed
    /\ screen' = Screen("menu", "none", "none")
    /\ UNCHANGED <<quotes, calls>>

TransferScreen ==
    /\ screen.page = "menu"
    /\ \E kind \in Kinds : screen' = Screen("form", kind, "edit")
    /\ UNCHANGED <<quotes, calls>>

\* Back from a form to the menu, and from the menu.
LeaveScreen ==
    /\ screen.page \in {"menu", "form"}
    /\ screen' = IF screen.page = "form" THEN Screen("menu", "none", "none") ELSE Closed
    /\ LeaveQuotes

MobileNext ==
    \/ OpenTransferScreen \/ TransferScreen \/ LeaveScreen
    \/ MobileDeposit \/ MobileWithdraw \/ MobileConvert
    \/ MobileDepositReview \/ MobileWithdrawReview \/ MobileConvertReview
=============================================================================
