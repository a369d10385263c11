---------------------------- MODULE PaymentState ----------------------------
(***************************************************************************)
(* The payment object of an off-chain payment, the state machine it moves  *)
(* through and the validation of an inbound payment command                *)
(* (offchain/payment_state.py, offchain/state.py,                          *)
(* offchain/payment_command.py).                                           *)
(*                                                                         *)
(* A payment object is reduced to the fields the machine looks at: the two *)
(* actors' statuses and the write-once fields, each of which is NoValue or *)
(* a member of Values (what is written in it never matters, only whether   *)
(* it is set and whether it was overwritten).                              *)
(***************************************************************************)
EXTENDS Naturals

CONSTANTS
    Values,     \* contents of a KYC object, an additional KYC note, a signature
    NoValue     \* the field is None

ASSUME NoValueAssumption == NoValue \notin Values

Actors == {"sender", "receiver"}
Statuses == {"none", "needs_kyc_data", "ready_for_settlement", "abort", "soft_match"}
Fields == Values \cup {NoValue}

PaymentObjects ==
    [ss : Statuses, rs : Statuses,          \* sender / receiver status
     skyc : Fields, rkyc : Fields,          \* kyc_data
     sadd : Fields, radd : Fields,          \* additional_kyc_data
     sig : Fields]                          \* recipient_signature

IsSet(v) == v # NoValue
Counterparty(actor) == IF actor = "sender" THEN "receiver" ELSE "sender"

-----------------------------------------------------------------------------
(* States: a payment object is in the states whose requirement it matches. *)

States == {"S_INIT", "S_ABORT", "S_SOFT", "S_SOFT_SEND", "READY",
           "R_ABORT", "R_SOFT", "R_SOFT_SEND", "R_SEND"}

\* Mutant: R_SOFT also matches once the additional KYC data is there.
RequiresM(p) ==
    [S_INIT      |-> p.ss = "needs_kyc_data" /\ p.rs = "none",
     S_ABORT     |-> p.ss = "abort" /\ p.rs \in {"ready_for_settlement", "none"},
     S_SOFT      |-> p.ss = "soft_match" /\ p.rs = "ready_for_settlement" /\ ~IsSet(p.radd),
     S_SOFT_SEND |-> p.ss = "needs_kyc_data" /\ p.rs = "soft_match" /\ IsSet(p.sadd),
     READY       |-> p.ss = "ready_for_settlement" /\ p.rs = "ready_for_settlement",
     R_ABORT     |-> p.ss = "needs_kyc_data" /\ p.rs = "abort",
     R_SOFT      |-> p.ss = "needs_kyc_data" /\ p.rs = "soft_match",
     R_SOFT_SEND |-> p.ss = "soft_match" /\ p.rs = "ready_for_settlement" /\ IsSet(p.radd),
     R_SEND      |-> p.ss = "needs_kyc_data" /\ p.rs = "ready_for_settlement"]

Requires(p) ==
    [S_INIT      |-> p.ss = "needs_kyc_data" /\ p.rs = "none",
     S_ABORT     |-> p.ss = "abort" /\ p.rs \in {"ready_for_settlement", "none"},
     S_SOFT      |-> p.ss = "soft_match" /\ p.rs = "ready_for_settlement" /\ ~IsSet(p.radd),
     S_SOFT_SEND |-> p.ss = "needs_kyc_data" /\ p.rs = "soft_match" /\ IsSet(p.sadd),
     READY       |-> p.ss = "ready_for_settlement" /\ p.rs = "ready_for_settlement",
     R_ABORT     |-> p.ss = "needs_kyc_data" /\ p.rs = "abort",
     R_SOFT      |-> p.ss = "needs_kyc_data" /\ p.rs = "soft_match" /\ ~IsSet(p.sadd),
     R_SOFT_SEND |-> p.ss = "soft_match" /\ p.rs = "ready_for_settlement" /\ IsSet(p.radd),
     R_SEND      |-> p.ss = "needs_kyc_data" /\ p.rs = "ready_for_settlement"]

\* Mutant: R_SEND does not ask for the recipient signature.
ValidatesM(p) ==
    /\ Requires(p).S_INIT => IsSet(p.skyc)
    /\ Requires(p).R_SEND => IsSet(p.rkyc)

\* The "validation" of a state: an object that matches the state and fails it
\* raises ConditionValidationError, so no state is found.
Validates(p) ==
    /\ Requires(p).S_INIT => IsSet(p.skyc)
    /\ Requires(p).R_SEND => IsSet(p.rkyc) /\ IsSet(p.sig)

MatchStates(p) == {s \in States : Requires(p)[s]}

\* match_state returns: exactly one state matches and none raised.
HasState(p) == Validates(p) /\ \E s \in States : MatchStates(p) = {s}
StateOf(p) == CHOOSE s \in States : MatchStates(p) = {s}

Transitions ==
    {<<"S_INIT", "R_SEND">>, <<"S_INIT", "R_ABORT">>, <<"S_INIT", "R_SOFT">>,
     <<"R_SEND", "READY">>, <<"R_SEND", "S_ABORT">>, <<"R_SEND", "S_SOFT">>,
     <<"R_SOFT", "S_SOFT_SEND">>,
     <<"S_SOFT_SEND", "R_ABORT">>, <<"S_SOFT_SEND", "R_SEND">>,
     <<"S_SOFT", "R_SOFT_SEND">>,
     <<"R_SOFT_SEND", "S_ABORT">>, <<"R_SOFT_SEND", "READY">>}

\* build_machine: the initial states are those no transition leads to.
InitialStates == {s \in States : \A t \in Transitions : t[2] # s}

TriggerActor(s) ==
    IF s \in {"R_SEND", "R_ABORT", "R_SOFT", "R_SOFT_SEND"} THEN "receiver" ELSE "sender"

NoFollowUp == <<"nobody", "none">>

\* Mutant: R_SEND waits for the one who sent it.
FollowUpM ==
    [S_INIT      |-> <<"receiver", "EVALUATE_KYC_DATA">>,
     R_SEND      |-> <<"receiver", "EVALUATE_KYC_DATA">>,
     R_ABORT     |-> NoFollowUp,
     R_SOFT      |-> <<"sender", "CLEAR_SOFT_MATCH">>,
     READY       |-> <<"sender", "SUBMIT_TXN">>,
     S_ABORT     |-> NoFollowUp,
     S_SOFT      |-> <<"receiver", "CLEAR_SOFT_MATCH">>,
     S_SOFT_SEND |-> <<"receiver", "REVIEW_KYC_DATA">>,
     R_SOFT_SEND |-> <<"sender", "REVIEW_KYC_DATA">>]

FollowUp ==
    [S_INIT      |-> <<"receiver", "EVALUATE_KYC_DATA">>,
     R_SEND      |-> <<"sender", "EVALUATE_KYC_DATA">>,
     R_ABORT     |-> NoFollowUp,
     R_SOFT      |-> <<"sender", "CLEAR_SOFT_MATCH">>,
     READY       |-> <<"sender", "SUBMIT_TXN">>,
     S_ABORT     |-> NoFollowUp,
     S_SOFT      |-> <<"receiver", "CLEAR_SOFT_MATCH">>,
     S_SOFT_SEND |-> <<"receiver", "REVIEW_KYC_DATA">>,
     R_SOFT_SEND |-> <<"sender", "REVIEW_KYC_DATA">>]

FollowUpAction(actor, s) == IF FollowUp[s][1] = actor THEN FollowUp[s][2] ELSE "none"

-----------------------------------------------------------------------------
(* PaymentCommand.validate of a command p received by actor me.            *)

SameActorObject(me, p, prior) ==
    IF me = "sender"
    THEN p.ss = prior.ss /\ p.skyc = prior.skyc /\ p.sadd = prior.sadd
    ELSE p.rs = prior.rs /\ p.rkyc = prior.rkyc /\ p.radd = prior.radd

\* validate_write_once_fields, over the fields declared write_once.
WriteOnceKept(p, prior) ==
    \A f \in {"skyc", "rkyc", "sadd", "radd", "sig"} : IsSet(prior[f]) => p[f] = prior[f]

ValidateUpdate(me, p, prior) ==
    /\ HasState(p) /\ HasState(prior)
    /\ TriggerActor(StateOf(p)) = Counterparty(me)
    /\ SameActorObject(me, p, prior)
    /\ WriteOnceKept(p, prior)
    /\ <<StateOf(prior), StateOf(p)>> \in Transitions

\* Without a prior object only an initial state is accepted.
ValidateFirst(me, p) ==
    /\ HasState(p)
    /\ TriggerActor(StateOf(p)) = Counterparty(me)
    /\ StateOf(p) \in InitialStates

IsBothReady(p) == p.ss = "ready_for_settlement" /\ p.rs = "ready_for_settlement"
IsAbort(p) == p.ss = "abort" \/ p.rs = "abort"
=============================================================================
