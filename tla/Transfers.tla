------------------------------ MODULE Transfers -------------------------------
(***************************************************************************)
(* A user who deposits, withdraws and converts with one of the clients,    *)
(* and the backend that quotes and executes.                               *)
(***************************************************************************)
EXTENDS WebTransfer, MobileTransfer

VARIABLE client

vars == <<client, screen, forms, asking, posts, presses, executed>>

Init ==
    /\ client \in {"web", "mobile"}
    /\ screen = Closed /\ forms = <<>> /\ asking = {}
    /\ CallsInit(TransferOrders)

BackendStep == Backend /\ UNCHANGED <<client, screen, quotes>>
WebStep == client = "web" /\ WebNext /\ UNCHANGED client
MobileStep == client = "mobile" /\ MobileNext /\ UNCHANGED client

Next == WebStep \/ MobileStep \/ BackendStep

Spec == Init /\ [][Next]_vars

\* Every call is answered in the end, if only by a failure, and heard.
FairSpec ==
    /\ Spec
    /\ WF_vars(BackendStep)
    /\ WF_vars(client = "web" /\ Answers /\ UNCHANGED client)
    /\ WF_vars(client = "mobile" /\ (FormAnswers \/ ReviewAnswers) /\ UNCHANGED client)

-----------------------------------------------------------------------------
(* Properties.                                                             *)

Reviewing ==
    screen.page = "review" \/ (screen.page = "dialog" /\ ShowReview)
Reviewed == [quote |-> screen.quote, method |-> forms[screen.data].method]
Shown == IF Reviewing THEN {Reviewed} ELSE {}

\* Quotes are executed only as they were on display when the user confirmed them, with
\* the payment method on display, and once for every confirmation: Consent.
C == INSTANCE Consent WITH Orders <- TransferOrders, shown <- Shown
ImplementsConsent == C!ConsentSpec

\* What a review displays and executes is the quote for what was submitted last, however
\* answers to earlier submissions come in (isOutdated in Deposit.tsx and its siblings).
ReviewIsLatest == Reviewing => screen.quote = Len(forms) /\ screen.data = Len(forms)

\* An order is not sent again before the answer to its last call, or the user's leaving;
\* and the web application, which cannot know whether a call that failed was carried
\* out, never sends one twice.
OneAtATime ==
    /\ \A p, q \in posts : p.order = q.order => p = q
    /\ client = "web" => \A o \in TransferOrders : presses[o] <= 1

\* Success is displayed only for an order that the backend carried out.
SuccessIsReal ==
    screen.phase \in {"done", "success"} => \E x \in executed : x.order = Reviewed

\* Whatever the user waits for ends, except for an execution that failed in the web
\* application: its dialog stays in phase "executing" until it is closed.
Waiting == screen.phase \in {"quote", "loading", "sending", "executing"}
Stuck == screen.phase = "executing" /\ screen.error /\ posts = {}
Responds == Waiting ~> (~Waiting \/ Stuck)

-----------------------------------------------------------------------------
(* The inductive invariant behind the safety properties.                   *)

WebPhases == {"none", "collect", "quote", "review", "executing", "done"}
MobilePhases == {"none", "edit", "loading", "sending", "success", "fail"}
Screens == [page : {"closed", "menu", "dialog", "form", "review"}, kind : Kinds \cup {"none"},
            phase : WebPhases \cup MobilePhases, data : Nat, quote : Nat, error : BOOLEAN]
Rfqs == [action : {"buy", "sell"}, pair : (Currencies \cup Fiats) \X (Currencies \cup Fiats),
         amount : Nat]
Forms == {f \in [kind : Kinds, method : Methods \cup {NoMethod}, rfq : Rfqs] :
             f.kind = "convert" <=> f.method = NoMethod}

TypeOK ==
    /\ client \in {"web", "mobile"} /\ screen \in Screens
    /\ forms \in Seq(Forms) /\ Len(forms) <= MaxForms
    /\ asking \subseteq 1..Len(forms)

\* The pages and phases of either client.
PagesInv ==
    /\ client = "web" =>
         /\ screen.page \in {"closed", "menu", "dialog"} /\ screen.phase \in WebPhases
         /\ screen.page = "dialog" <=> screen.phase # "none"
    /\ client = "mobile" =>
         /\ screen.page \in {"closed", "menu", "form", "review"} /\ screen.phase \in MobilePhases
         /\ screen.page \in {"form", "review"} <=> screen.phase # "none"
         /\ screen.page = "form" => screen.phase \in {"edit", "loading"}
         /\ screen.page = "review" => screen.phase # "loading"
    /\ screen.phase = "none" => screen.kind = "none"
    /\ screen.phase # "none" => screen.kind \in Kinds

\* What is asked for, or reviewed, is the latest submission, made in the same dialog.
LatestInv ==
    /\ ReviewIsLatest
    /\ screen.phase \in {"quote", "loading"} => screen.data = Len(forms)
    /\ screen.phase \in {"quote", "loading"} \/ Reviewing =>
          Len(forms) > 0 /\ forms[screen.data].kind = screen.kind

\* Nothing was pressed for submissions to come.  Before the button of the latest one is
\* pressed, no call for it is under way, nor in the web application was one ever; when it
\* is, the only call that is heard, and the only one for that submission, is this one.
PressInv ==
    /\ \A o \in TransferOrders : o.quote > Len(forms) => presses[o] = 0
    /\ \A p \in posts : p.heard =>
          screen.phase \in {"executing", "sending"} /\ p.order = Reviewed
    /\ screen.phase \in {"quote", "loading"} \/ Reviewing =>
         IF screen.phase \in {"executing", "sending"}
         THEN \A p \in posts : p.order.quote = Len(forms) => p.order = Reviewed
         ELSE \A p \in posts : p.order.quote # Len(forms)
    /\ client = "web" /\ screen.phase \in {"quote", "review"} =>
          \A o \in TransferOrders : o.quote = Len(forms) => presses[o] = 0

IInv ==
    /\ TypeOK /\ CallsInv(TransferOrders) /\ PagesInv /\ LatestInv /\ PressInv
    /\ OneAtATime /\ SuccessIsReal
=============================================================================
