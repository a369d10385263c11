-------------------------- MODULE PaymentExchange ---------------------------
(***************************************************************************)
(* Two VASPs that drive one payment object through the state machine, each *)
(* accepting only what PaymentCommand.validate accepts.  The author of a   *)
(* command may write anything in its own actor object (PaymentCommand.     *)
(* new_command); the receiver may also write the recipient signature.      *)
(***************************************************************************)
EXTENDS PaymentState

VARIABLES
    pay,        \* the payment object both VASPs hold
    author      \* the actor that produced it, "nobody" before the first command

exchange == <<pay, author>>

\* What a command writes: the PaymentActorObject of its actor and, when that is the
\* receiver, the recipient signature.
Parts == [status : Statuses, kyc : Fields, add : Fields, sig : Fields]

\* new_command: the actor's own object changes, a field left out is kept.
NewCommand(actor, p) ==
    IF actor = "sender"
    THEN {[p EXCEPT !.ss = own.status, !.skyc = own.kyc, !.sadd = own.add] : own \in Parts}
    ELSE {[p EXCEPT !.rs = own.status, !.rkyc = own.kyc, !.radd = own.add, !.sig = own.sig] :
             own \in Parts}

\* PaymentObject.new_payment_object: what a sender starts from.
NewPaymentObject(kyc) ==
    [ss |-> "needs_kyc_data", rs |-> "none", skyc |-> kyc, rkyc |-> NoValue,
     sadd |-> NoValue, radd |-> NoValue, sig |-> NoValue]

Exchanged == author # "nobody"

ExchangeInit == author = "nobody" /\ \E kyc \in Values : pay = NewPaymentObject(kyc)

\* The sender's first command, validated without a prior by the receiver.
Propose ==
    /\ ~Exchanged
    /\ \E p \in NewCommand("sender", pay) :
         /\ ValidateFirst("receiver", p)
         /\ pay' = p /\ author' = "sender"

\* A later command of either actor, validated against the prior object.
Update(actor) ==
    /\ Exchanged
    /\ \E p \in NewCommand(actor, pay) :
         /\ ValidateUpdate(Counterparty(actor), p, pay)
         /\ pay' = p /\ author' = actor

ExchangeNext == Propose \/ \E actor \in Actors : Update(actor)

\* What evaluate_kyc_data makes of the object: it accepts, without a look at the data.
EvaluateKycData(actor) ==
    IF actor = "sender"
    THEN {[pay EXCEPT !.ss = "ready_for_settlement"]}
    ELSE {[pay EXCEPT !.rs = "ready_for_settlement", !.rkyc = kyc, !.sig = sig] :
             kyc \in Values, sig \in Values}

\* offchain_action, the update that this wallet makes of its own accord, whichever actor
\* it is.  To a follow-up of a soft match it has no answer: it raises.
Evaluate(actor) ==
    /\ Exchanged /\ FollowUpAction(actor, StateOf(pay)) = "EVALUATE_KYC_DATA"
    /\ Update(actor)
    /\ pay' \in EvaluateKycData(actor)

\* The task loop goes on until a new payment is sent, and until KYC data that waits for
\* it is evaluated.  Nobody has to abort, to report a soft match or to clear one.
ExchangeSpec ==
    /\ ExchangeInit /\ [][ExchangeNext]_exchange
    /\ WF_exchange(Propose) /\ \A actor \in Actors : WF_exchange(Evaluate(actor))

-----------------------------------------------------------------------------

\* However an actor fills in its next command, at most one state matches it:
\* match_state never raises TooManyStatesMatchedError (a ValueError that the
\* inbound handler does not turn into a reply).
NeverAmbiguous ==
    \A actor \in Actors : \A p \in NewCommand(actor, pay) :
        \A s, t \in MatchStates(p) : s = t

\* The state READY does not ask for a recipient signature, yet the sender
\* submits the transaction with it: no exchange reaches READY without the
\* signature and the KYC data of both actors.
ReadyIsSigned ==
    (Exchanged /\ StateOf(pay) = "READY") =>
        IsSet(pay.sig) /\ IsSet(pay.skyc) /\ IsSet(pay.rkyc)

\* Every exchange comes to rest, at its end or in a soft match: soft matches cannot be
\* asked for again and again, and of the states that wait for KYC data to be evaluated
\* each has a transition for the answer of the actor whose turn it is.  In a soft match
\* an exchange may rest for ever, since this wallet does not answer any.
EndsOrSoftMatch ==
    \E s \in {"READY", "S_ABORT", "R_ABORT", "R_SOFT", "S_SOFT", "S_SOFT_SEND", "R_SOFT_SEND"} :
        <>[](Exchanged /\ StateOf(pay) = s)

-----------------------------------------------------------------------------
(* The inductive invariant behind ReadyIsSigned.                           *)

\* The object always has a state, the sender's KYC data comes with the first
\* command, and from the receiver's acceptance on, which is the state R_SEND,
\* its KYC data and signature are there: they are written once and stay.
ExchangeInv ==
    /\ pay \in PaymentObjects /\ author \in Actors \cup {"nobody"}
    /\ ~Exchanged => pay.ss = "needs_kyc_data" /\ pay.rs = "none"
    /\ Exchanged =>
        /\ HasState(pay) /\ IsSet(pay.skyc)
        /\ pay.rs = "ready_for_settlement" => IsSet(pay.rkyc) /\ IsSet(pay.sig)
=============================================================================
