---------------------------- MODULE WebTransfer -----------------------------
(***************************************************************************)
(* Deposits, withdrawals and conversions in the web application.  Each of  *)
(* the three is a dialog with a reducer over phases and an effect that     *)
(* asks for a quote or executes it; the effect runs again, and what it     *)
(* started is outdated, when the phase, the form's data or the quote       *)
(* changes.  The form can be submitted again while a quote is asked for.   *)
(*                                                                         *)
(* A click on Confirm gives phase "execute", and the effect that follows   *)
(* before any other event gives "executing" and sends the call: one step.  *)
(***************************************************************************)
EXTENDS Quotes

ShowReview == screen.phase \in {"review", "executing", "done"}
Dialog == screen.page = "dialog"

(* The reducers: what becomes of dialog s.                                 *)

\* Back to the form without a quote.  An error of the execution would lead back to the
\* review from "execute", but finds "executing", where the dialog stays.
ErrorPhase(phase) ==
    CASE phase = "quote" -> "collect" [] phase = "execute" -> "review" [] OTHER -> phase

Reducer(s, a) ==
    CASE a.type = "review" -> [s EXCEPT !.phase = "review", !.quote = a.data]
      [] a.type = "error" -> [s EXCEPT !.phase = ErrorPhase(s.phase), !.error = TRUE]
      [] OTHER -> [s EXCEPT !.phase = a.type]

DepositReducer(s, a) ==
    IF a.type = "quote" THEN [s EXCEPT !.phase = "quote", !.data = a.data] ELSE Reducer(s, a)

\* A new submission forgets the quote and the error message.
WithdrawReducer(s, a) ==
    IF a.type = "quote"
    THEN [s EXCEPT !.phase = "quote", !.data = a.data, !.quote = 0, !.error = FALSE]
    ELSE Reducer(s, a)
ConvertReducer(s, a) == WithdrawReducer(s, a)

Dispatch(type, i) ==
    LET a == [type |-> type, data |-> i]
    IN  screen' = CASE screen.kind = "deposit" -> DepositReducer(screen, a)
                    [] screen.kind = "withdraw" -> WithdrawReducer(screen, a)
                    [] screen.kind = "convert" -> ConvertReducer(screen, a)

(* The forms: what each lets its user submit.                              *)

Amount(d) == FromFloat(d.amount)

\* A fraction is normalized as it is typed; a price is turned into an amount.
DepositAmounts == {Normalize(n) : n \in Typed} \cup {AmountOfPrice(n) : n \in Typed}
WithdrawAmounts == {Normalize(n) : n \in Typed} \cup {AmountOfPrice(n) : n \in Typed}
ConvertAmounts == {Normalize(n) : n \in Typed} \cup {AmountOfPrice(n) : n \in Typed}

AtLeastOne(d) == d.amount >= Coin * Parts
Transfers(amounts) ==
    {d \in [method : Methods, currency : Currencies, fiat : Fiats, amount : amounts] : AtLeastOne(d)}

DepositForm == Transfers(DepositAmounts)
WithdrawForm == {d \in Transfers(WithdrawAmounts) : Amount(d) <= Balance[d.currency]}
ConvertForm ==
    {d \in [from : Currencies, to : Currencies, amount : ConvertAmounts] :
        AtLeastOne(d) /\ d.from # d.to /\ Amount(d) <= Balance[d.from]}

(* The effect's calls and their answers.                                   *)

\* Mutant: every answer is taken.
OutdatedM(i) == FALSE

\* What submission i asked for is outdated unless the dialog still waits for it.
Outdated(i) == ~(screen.phase = "quote" /\ screen.data = i)

Submit(method, rfq) ==
    /\ ~ShowReview
    /\ Ask(screen.kind, method, rfq)
    /\ Dispatch("quote", Len(forms) + 1)
    /\ UNCHANGED calls

\* An outdated answer is ignored.
QuoteAnswered(i) ==
    /\ Dialog /\ Answered(i)
    /\ IF Outdated(i) THEN UNCHANGED screen ELSE Dispatch("review", i)
    /\ UNCHANGED calls

\* An error is not, also when it is about an outdated submission.
QuoteFailed(i) ==
    /\ Dialog /\ Answered(i)
    /\ Dispatch("error", 0)
    /\ UNCHANGED calls

Execute(method) ==
    /\ screen.phase = "review"
    /\ presses[[quote |-> screen.quote, method |-> method]] < MaxPresses
    /\ Dispatch("executing", 0)
    /\ ExecuteQuote(screen.quote, method)
    /\ UNCHANGED quotes

Executed(p) ==
    /\ Dialog /\ Hear(p, "ok")
    /\ Dispatch("done", 0)
    /\ UNCHANGED quotes

ExecuteFailed(p) ==
    /\ Dialog /\ Hear(p, "error")
    /\ Dispatch("error", 0)
    /\ UNCHANGED quotes

Answers ==
    \/ \E i \in asking : QuoteAnswered(i) \/ QuoteFailed(i)
    \/ \E p \in posts : Executed(p) \/ ExecuteFailed(p)

(* The reviews.                                                            *)

Back ==
    /\ screen.phase = "review"
    /\ Dispatch("collect", 0)
    /\ UNCHANGED <<quotes, calls>>

\* Closing the dialog, at any time or when it is done, leaves it.
Close ==
    /\ screen.page \in {"menu", "dialog"}
    /\ screen' = Closed
    /\ LeaveQuotes

\* Mutant: the payment method is left out.
DepositReviewM == Execute(NoMethod) \/ Back

DepositReview == Execute(forms[screen.data].method) \/ Back
WithdrawReview == Execute(forms[screen.data].method) \/ Back
ConvertReview == Execute(NoMethod) \/ Back

(* The dialogs.                                                            *)

Deposit ==
    /\ Dialog /\ screen.kind = "deposit"
    /\ \/ \E d \in DepositForm :
            Submit(d.method, RequestDepositQuote(d.fiat, d.currency, Amount(d)))
       \/ ShowReview /\ DepositReview
       \/ Answers

Withdraw ==
    /\ Dialog /\ screen.kind = "withdraw"
    /\ \/ \E d \in WithdrawForm :
            Submit(d.method, RequestWithdrawQuote(d.currency, d.fiat, Amount(d)))
       \/ ShowReview /\ WithdrawReview
       \/ Answers

Convert ==
    /\ Dialog /\ screen.kind = "convert"
    /\ \/ \E d \in ConvertForm :
            Submit(NoMethod, RequestConvertQuote(d.from, d.to, Amount(d)))
       \/ ShowReview /\ ConvertReview
       \/ Answers

OpenTransfer ==
    /\ screen = Closed
    /\ screen' = Screen("menu", "none", "none")
    /\ UNCHANGED <<quotes, calls>>

TransferModal ==
    /\ screen.page = "menu"
    /\ \E kind \in Kinds : screen' = Screen("dialog", kind, "collect")
    /\ UNCHANGED <<quotes, calls>>

WebNext == OpenTransfer \/ TransferModal \/ Deposit \/ Withdraw \/ Convert \/ Close
=============================================================================
