-------------------------------- MODULE Sends --------------------------------
(***************************************************************************)
(* A user who sends coins with one of the clients, and the backend.        *)
(***************************************************************************)
EXTENDS WebSend, MobileSend

VARIABLE client

vars == <<client, screen, forms, told, posts, presses, executed, refreshing, left, link>>

Init ==
    /\ client \in {"web", "mobile"}
    /\ link \in IF client = "mobile" THEN Texts \cup {NoText} ELSE {NoText}
    /\ screen = NoSend /\ forms = <<>> /\ told = [o \in SendOrders |-> 0]
    /\ refreshing = 0 /\ left = FALSE
    /\ CallsInit(SendOrders)

BackendStep == Backend /\ UNCHANGED <<client, screen, forms, told, refreshing, left, link>>
WebStep == client = "web" /\ WebSendNext /\ UNCHANGED <<client, link>>
MobileStep == client = "mobile" /\ MobileSendNext /\ UNCHANGED <<client, refreshing, left>>

Next == WebStep \/ MobileStep \/ BackendStep

Spec == Init /\ [][Next]_vars

\* Every call is answered in the end, if only by a failure, and heard.
FairSpec ==
    /\ Spec
    /\ WF_vars(BackendStep)
    /\ WF_vars(client = "web" /\ SendAnswers /\ UNCHANGED <<client, link>>)
    /\ WF_vars(client = "mobile" /\ MobileSendAnswers /\ UNCHANGED <<client, refreshing, left>>)

-----------------------------------------------------------------------------
(* Properties.                                                             *)

Shown == IF screen.page = "review" THEN {screen.data} ELSE {}

\* Coins are sent only as the review displayed when the user confirmed, and once for
\* every time that the user confirmed: Consent.
C == INSTANCE Consent WITH Orders <- SendOrders, shown <- Shown
ImplementsConsent == C!ConsentSpec

\* Nobody is asked to confirm an order again without having been told that it failed.
\* (It may have been carried out all the same: the answer, or the refresh of the user
\* that follows in the web application, may have been lost.)
RepeatsFollowFailures == \A o \in SendOrders : presses[o] <= told[o] + 1

\* Success is displayed only for an order that the backend carried out, and one call is
\* under way at a time, unless the dialog of the web application was closed too early:
\* then the answer to what was on display before counts for what is on display now.
SuccessIsReal ==
    ~left => /\ screen.status = "success" => Press(screen.data, presses[screen.data]) \in executed
             /\ \A p, q \in posts : p.heard /\ q.heard => p = q

\* The user does not wait for ever.
Responds == screen.status = "sending" ~> screen.status # "sending"

-----------------------------------------------------------------------------
(* The inductive invariant behind the safety properties.                   *)

Screens == [page : {"closed", "form", "review", "closing"},
            status : {"edit", "sending", "success", "fail"}, data : Nat, error : BOOLEAN]
Forms == [address : Receivers, currency : Currencies \cup {NoCurrency}, amount : Nat]

TypeOK ==
    /\ client \in {"web", "mobile"} /\ link \in Texts \cup {NoText}
    /\ screen \in Screens /\ screen.data <= Len(forms)
    /\ forms \in Seq(Forms) /\ Len(forms) <= MaxForms
    /\ told \in [SendOrders -> Nat]
    /\ refreshing \in Nat /\ left \in BOOLEAN

\* What was not submitted was not pressed, and what is on display with its button enabled
\* has been pressed as often as the user was told that it failed, at most.
PressesInv ==
    /\ screen.page = "review" => screen.data > 0
    /\ \A o \in SendOrders : o > Len(forms) => presses[o] = 0
    /\ (screen.data > 0 /\ screen.status \notin {"sending", "success"}) =>
          presses[screen.data] <= told[screen.data]
    /\ RepeatsFollowFailures

\* What a dialog that was not left early shows is about the order that it shows: an
\* answer to come is one to its last press, and no refresh is under way before success.
DialogInv ==
    /\ screen.status \in {"sending", "success"} => screen.page = "review"
    /\ screen.status = "success" => Press(screen.data, presses[screen.data]) \in executed
    /\ \A p \in posts : p.heard =>
         p.order = screen.data /\ p.no = presses[p.order] /\ screen.status = "sending"
    /\ refreshing = 0 \/ (client = "web" /\ refreshing = 1 /\ screen.status = "success")

IInv == TypeOK /\ CallsInv(SendOrders) /\ PressesInv /\ (left \/ DialogInv)
=============================================================================
