----------------------------- MODULE SendsProofs -----------------------------
(***************************************************************************)
(* Sending in either client, for all sets of receivers, currencies and     *)
(* texts and all bounds: IInv is inductive, so that nobody is led to send  *)
(* a payment twice without having been told that it failed, and success is *)
(* real; and what is carried out is what the user ordered.                 *)
(***************************************************************************)
EXTENDS Sends, ClientProofs

USE AddressesAssumption

-----------------------------------------------------------------------------
(* Forms.                                                                  *)

\* What the forms submit has an address and an amount.
LEMMA IntentsType ==
  ASSUME NEW form \in Forms, NEW t \in Texts
  PROVE  ApplyIntents(form, ParseIntents(t)) \in Forms
  <1>1. t.address \in Receivers /\ t.c \in Currencies \cup {NoCurrency} /\ ToFloat(t.am) \in Nat
    BY ToFloatType
  <1> QED BY <1>1 DEF ApplyIntents, ParseIntents, Form, Forms

\* What the web form submits is typed.
LEMMA WebFormType == SendForm \subseteq Forms
  <1>1. ASSUME NEW n \in Typed PROVE Normalize(n) \in Nat /\ AmountOfPrice(n) \in Nat
    BY NormalizeType, PriceType DEF AmountOfPrice
  <1>2. [address : Receivers, currency : Currencies,
         amount : {Normalize(n) : n \in Typed} \cup {AmountOfPrice(n) : n \in Typed}] \subseteq Forms
    BY <1>1 DEF Forms
  <1> QED BY <1>2, IntentsType DEF SendForm

\* What the mobile form submits is typed, with or without a link.
LEMMA MobileFormType == link \in Texts \cup {NoText} => MobileSendForm \subseteq Forms
  <1>1. ASSUME NEW n \in Typed
        PROVE  n \in Nat /\ Normalize((FromFloat(n) * Coin * Parts) \div Rate) \in Nat
    BY NormalizeType, PriceType
  <1>2. [address : Receivers, currency : Currencies,
         amount : Typed \cup {Normalize((FromFloat(n) * Coin * Parts) \div Rate) : n \in Typed}]
           \subseteq Forms
    BY <1>1 DEF Forms
  <1>3. ASSUME link \in Texts \cup {NoText}
        PROVE  (IF link = NoText THEN Texts ELSE {link}) \subseteq Texts
    BY <1>3
  <1> QED BY <1>2, <1>3, IntentsType DEF MobileSendForm

\* So is its order.
LEMMA SubmittedType ==
  ASSUME NEW d \in Forms PROVE Form(d.address, d.currency, FromFloat(d.amount)) \in Forms
  BY FromFloatType DEF Forms, Form

-----------------------------------------------------------------------------
(* Steps of either client.                                                 *)

\* The invariant holds initially.
LEMMA Initially == Init => IInv
  <1> SUFFICES ASSUME Init PROVE IInv
    OBVIOUS
  <1>1. TypeOK
    <2>1. screen \in Screens /\ screen.data = 0
      BY DEF Init, NoSend, SendScreen, Screens
    <2>2. forms \in Seq(Forms) /\ Len(forms) = 0
      BY DEF Init
    <2>3. told \in [SendOrders -> Nat] /\ link \in Texts \cup {NoText}
      BY DEF Init
    <2>4. client \in {"web", "mobile"} /\ refreshing \in Nat /\ left \in BOOLEAN
      BY DEF Init
    <2>5. Len(forms) <= MaxForms /\ screen.data <= Len(forms)
      BY <2>1, <2>2
    <2> QED BY <2>1, <2>2, <2>3, <2>4, <2>5 DEF TypeOK
  <1>2. CallsInv(SendOrders)
    BY NoCalls DEF Init
  <1>3. PressesInv /\ DialogInv
    BY DEF Init, PressesInv, DialogInv, RepeatsFollowFailures, CallsInit, NoSend, SendScreen
  <1> QED BY <1>1, <1>2, <1>3 DEF IInv

\* A form is submitted and its review is displayed.
LEMMA SubmitStep ==
  ASSUME IInv, NEW d \in Forms, screen.page = "form", SubmitReview(d),
         UNCHANGED <<client, link, refreshing, left>>
  PROVE  IInv'
  <1>1. /\ forms' = Append(forms, Form(d.address, d.currency, FromFloat(d.amount)))
        /\ screen' = [screen EXCEPT !.page = "review", !.data = Len(forms) + 1]
        /\ UNCHANGED <<told, posts, presses, executed>> /\ Len(forms) < MaxForms
    BY DEF SubmitReview, calls
  <1>2. forms' \in Seq(Forms) /\ Len(forms') = Len(forms) + 1 /\ Len(forms) \in Nat
    BY <1>1, SubmittedType DEF IInv, TypeOK
  <1>3. /\ screen' \in Screens /\ screen'.data = Len(forms) + 1
        /\ screen'.page = "review" /\ screen'.status = screen.status
    <2>1. screen \in Screens
      BY DEF IInv, TypeOK
    <2>2. screen' = [screen EXCEPT !.page = "review", !.data = Len(forms) + 1]
      BY <1>1
    <2>3. Len(forms) + 1 \in Nat
      BY <1>2
    <2> QED BY <2>1, <2>2, <2>3 DEF Screens
  <1>4. TypeOK'
    BY <1>1, <1>2, <1>3 DEF IInv, TypeOK
  <1>5. CallsInv(SendOrders)'
    BY <1>1 DEF IInv, CallsInv, CallsMade
  <1>6. PressesInv'
    <2>1. Len(forms) + 1 \in SendOrders
      BY <1>1, <1>2 DEF SendOrders
    <2>2. presses[Len(forms) + 1] = 0 /\ told[Len(forms) + 1] \in Nat
      BY <1>2, <2>1 DEF IInv, PressesInv, TypeOK
    <2>3. \A o \in SendOrders : o > Len(forms') => presses'[o] = 0
      BY <1>1, <1>2 DEF IInv, PressesInv, SendOrders
    <2>4. RepeatsFollowFailures'
      BY <1>1 DEF IInv, PressesInv, RepeatsFollowFailures
    <2>5. presses'[screen'.data] <= told'[screen'.data] /\ screen'.data > 0
      BY <1>1, <1>2, <1>3, <2>2
    <2> QED BY <2>3, <2>4, <2>5 DEF PressesInv
  <1>7. left' \/ DialogInv'
    BY <1>1, <1>3 DEF IInv, DialogInv
  <1> QED BY <1>4, <1>5, <1>6, <1>7 DEF IInv

\* The button of a review is pressed.
LEMMA PressStep ==
  ASSUME IInv, screen.page = "review", screen.status \notin {"sending", "success"},
         NEW e \in BOOLEAN, screen' = [screen EXCEPT !.status = "sending", !.error = e],
         CreateTransaction(screen.data), UNCHANGED <<client, link, forms, told, refreshing, left>>
  PROVE  IInv'
  <1>1. screen.data \in SendOrders /\ CallsInv(SendOrders)
    BY DEF IInv, TypeOK, PressesInv, SendOrders, Screens
  <1>2. /\ CallsInv(SendOrders)' /\ executed' = executed
        /\ presses' = [presses EXCEPT ![screen.data] = @ + 1]
        /\ \A p \in posts' :
              p \in posts \/ (p.order = screen.data /\ p.no = presses'[screen.data] /\ p.heard)
    <2>1. PICK o \in SendOrders : o = screen.data
      BY <1>1
    <2>2. Call(o)
      BY <2>1 DEF CreateTransaction, Call
    <2>3. /\ CallsInv(SendOrders)' /\ executed' = executed
          /\ presses' = [presses EXCEPT ![o] = @ + 1]
          /\ \A p \in posts' : p \in posts \/ (p.order = o /\ p.no = presses'[o] /\ p.heard)
      BY <1>1, <2>2, CallKeeps
    <2>4. presses' = [presses EXCEPT ![screen.data] = @ + 1]
      BY <2>1, <2>3
    <2>5. \A p \in posts' :
              p \in posts \/ (p.order = screen.data /\ p.no = presses'[screen.data] /\ p.heard)
      BY <2>1, <2>3
    <2> QED BY <2>3, <2>4, <2>5
  <1>3. /\ screen' \in Screens /\ screen'.data = screen.data
        /\ screen'.page = "review" /\ screen'.status = "sending"
    BY DEF IInv, TypeOK, Screens
  <1>4. TypeOK'
    BY <1>3 DEF IInv, TypeOK
  <1>5. PressesInv'
    <2>1. presses \in [SendOrders -> Nat] /\ told \in [SendOrders -> Nat]
      BY DEF IInv, TypeOK, CallsInv, CallsMade
    <2>2. presses[screen.data] <= told[screen.data] /\ screen.data <= Len(forms)
      BY <1>1 DEF IInv, PressesInv, TypeOK, SendOrders
    <2> QED BY <1>1, <1>2, <1>3, <2>1, <2>2 DEF IInv, PressesInv, RepeatsFollowFailures, SendOrders
  <1>6. left' \/ DialogInv'
    <2> SUFFICES ASSUME ~left PROVE DialogInv'
      OBVIOUS
    <2>1. DialogInv /\ refreshing = 0
      BY DEF IInv, DialogInv
    <2>2. \A p \in posts : ~p.heard
      BY <2>1 DEF DialogInv
    <2> QED BY <1>2, <1>3, <2>1, <2>2 DEF DialogInv
  <1> QED BY <1>2, <1>4, <1>5, <1>6 DEF IInv

\* The screen shows no submission any more, and nobody who could be misled hears anything.
LEMMA EmptyStep ==
  ASSUME IInv, CallsInv(SendOrders)', presses' = presses, executed' = executed,
         screen' \in Screens, screen'.data = 0, screen'.page # "review", screen'.status = "edit",
         UNCHANGED <<client, link, forms, told, refreshing>>, left' \in BOOLEAN,
         ~left' => ~left /\ refreshing = 0 /\ \A p \in posts' : ~p.heard
  PROVE  IInv'
  <1>1. TypeOK'
    BY DEF IInv, TypeOK, Screens
  <1>2. PressesInv'
    BY DEF IInv, PressesInv, RepeatsFollowFailures
  <1>3. left' \/ DialogInv'
    BY DEF DialogInv
  <1> QED BY <1>1, <1>2, <1>3 DEF IInv

\* A screen of the mobile app is left.
LEMMA LeftStep ==
  ASSUME IInv, Leave, screen' \in Screens, screen'.data = 0, screen'.page # "review",
         screen'.status = "edit", UNCHANGED <<client, link, forms, told, refreshing, left>>,
         client = "mobile"
  PROVE  IInv'
  <1>1. PICK P : P = posts
    OBVIOUS
  <1>2. Unhear(P) /\ P \subseteq posts /\ CallsInv(SendOrders)
    BY <1>1 DEF Leave, Unhear, IInv
  <1>3. /\ CallsInv(SendOrders)' /\ presses' = presses /\ executed' = executed
        /\ \A q \in posts' : q \in posts \ P \/ ~q.heard
    BY <1>2, UnhearKeeps
  <1>4. \A q \in posts' : ~q.heard
    BY <1>1, <1>3
  <1>5. left' \in BOOLEAN /\ (~left' => ~left /\ refreshing = 0)
    BY DEF IInv, TypeOK, DialogInv
  <1> QED BY <1>3, <1>4, <1>5, EmptyStep

\* A call was answered by success.
LEMMA SuccessStep ==
  ASSUME IInv, NEW p \in posts, Hear(p, "ok"), screen' = [screen EXCEPT !.status = "success"],
         refreshing' \in {refreshing, refreshing + 1}, client = "web" \/ refreshing' = refreshing,
         UNCHANGED <<client, link, forms, told, left>>
  PROVE  IInv'
  <1>1. /\ CallsInv(SendOrders)' /\ presses' = presses /\ executed' = executed
        /\ p.heard /\ p.state = "ok" /\ posts' = posts \ {p}
    BY HearKeeps DEF IInv
  <1>2. /\ screen' \in Screens /\ screen'.data = screen.data
        /\ screen'.page = screen.page /\ screen'.status = "success"
    BY DEF IInv, TypeOK, Screens
  <1>3. TypeOK'
    BY <1>2 DEF IInv, TypeOK
  <1>4. PressesInv'
    BY <1>1, <1>2 DEF IInv, PressesInv, RepeatsFollowFailures
  <1>5. left' \/ DialogInv'
    <2> SUFFICES ASSUME ~left PROVE DialogInv'
      OBVIOUS
    <2>1. DialogInv
      BY DEF IInv
    <2>2. /\ p.order = screen.data /\ p.no = presses[screen.data]
          /\ screen.status = "sending" /\ screen.page = "review" /\ refreshing = 0
      BY <1>1, <2>1 DEF DialogInv
    <2>3. Press(screen.data, presses[screen.data]) \in executed
      BY <1>1, <2>2 DEF IInv, CallsInv, CallsMade
    <2>4. \A q \in posts' : ~q.heard
      BY <1>1, <2>1, <2>2 DEF DialogInv, IInv, CallsInv, CallsMade
    <2> QED BY <1>1, <1>2, <2>2, <2>3, <2>4 DEF DialogInv
  <1> QED BY <1>1, <1>3, <1>4, <1>5 DEF IInv

\* What failed, or seems to have, is displayed as such.
LEMMA FailStep ==
  ASSUME IInv, CallsInv(SendOrders)', presses' = presses, executed' = executed,
         screen' = [screen EXCEPT !.status = "fail", !.error = TRUE], Tell,
         refreshing' \in Nat, UNCHANGED <<client, link, forms, left>>,
         ~left => refreshing' = 0 /\ \A p \in posts' : ~p.heard
  PROVE  IInv'
  <1>1. /\ screen' \in Screens /\ screen'.data = screen.data
        /\ screen'.page = screen.page /\ screen'.status = "fail"
    BY DEF IInv, TypeOK, Screens
  <1>2. /\ told' \in [SendOrders -> Nat] /\ told \in [SendOrders -> Nat]
        /\ \A o \in SendOrders : told'[o] = IF o = screen.data THEN told[o] + 1 ELSE told[o]
    BY DEF Tell, IInv, TypeOK
  <1>3. TypeOK'
    BY <1>1, <1>2 DEF IInv, TypeOK
  <1>4. PressesInv'
    <2>1. presses \in [SendOrders -> Nat]
      BY DEF IInv, CallsInv, CallsMade
    <2>2. screen.data > 0 => screen.data \in SendOrders
      BY DEF IInv, TypeOK, SendOrders, Screens
    <2>3. \A o \in SendOrders : o > Len(forms) => presses[o] = 0
      BY DEF IInv, PressesInv
    <2>4. \A o \in SendOrders : presses[o] <= told'[o] + 1
      <3>1. \A o \in SendOrders :
               presses[o] \in Nat /\ told[o] \in Nat /\ told'[o] \in {told[o], told[o] + 1}
        BY <1>2, <2>1
      <3>2. \A o \in SendOrders : presses[o] <= told[o] + 1
        BY DEF IInv, PressesInv, RepeatsFollowFailures
      <3> QED BY <3>1, <3>2
    <2>5. screen.data > 0 => presses[screen.data] <= told'[screen.data]
      <3> SUFFICES ASSUME screen.data > 0 PROVE presses[screen.data] <= told[screen.data] + 1
        BY <1>2, <2>1, <2>2
      <3> QED BY <2>2 DEF IInv, PressesInv, RepeatsFollowFailures
    <2>6. screen'.page = "review" => screen'.data > 0
      BY <1>1 DEF IInv, PressesInv
    <2> QED BY <1>1, <2>3, <2>4, <2>5, <2>6 DEF PressesInv, RepeatsFollowFailures
  <1>5. left' \/ DialogInv'
    BY <1>1 DEF IInv, DialogInv
  <1> QED BY <1>3, <1>4, <1>5 DEF IInv

\* The backend carries out or refuses what was ordered.
LEMMA BackendKeeps == ASSUME IInv, BackendStep PROVE IInv'
  <1>1. PICK p \in posts : Serve(p) \/ Refuse(p)
    BY DEF BackendStep, Backend
  <1>2. /\ CallsInv(SendOrders)' /\ presses' = presses /\ executed \subseteq executed'
        /\ \A q \in posts' : \E r \in posts :
               q.order = r.order /\ q.no = r.no /\ q.heard = r.heard
    BY <1>1, ServeKeeps, RefuseKeeps DEF IInv
  <1>3. UNCHANGED <<client, link, screen, forms, told, refreshing, left>>
    BY DEF BackendStep
  <1>4. TypeOK' /\ PressesInv'
    BY <1>2, <1>3 DEF IInv, TypeOK, PressesInv, RepeatsFollowFailures
  <1>5. left' \/ DialogInv'
    BY <1>2, <1>3 DEF IInv, DialogInv
  <1> QED BY <1>2, <1>4, <1>5 DEF IInv

-----------------------------------------------------------------------------
(* The web application.                                                    *)

\* Every step of the web application keeps the invariant.
LEMMA WebKeeps == ASSUME IInv, WebStep PROVE IInv'
  <1> USE DEF calls
  <1>1. UNCHANGED <<client, link>> /\ WebSendNext /\ client = "web"
    BY DEF WebStep
  <1>2. screen \in Screens /\ refreshing \in Nat /\ left \in BOOLEAN /\ CallsInv(SendOrders)
    BY DEF IInv, TypeOK
  <1>3. CASE OpenSend
    <2>1. screen' = [screen EXCEPT !.page = "form"] /\ screen.page = "closed"
          /\ UNCHANGED <<forms, told, posts, presses, executed, refreshing, left>>
      BY <1>3 DEF OpenSend
    <2>2. screen' \in Screens /\ screen'.page = "form" /\ screen'.status = screen.status
          /\ screen'.data = screen.data
      BY <1>2, <2>1 DEF Screens
    <2>3. TypeOK' /\ CallsInv(SendOrders)' /\ PressesInv'
      BY <1>1, <2>1, <2>2 DEF IInv, TypeOK, CallsInv, CallsMade, PressesInv, RepeatsFollowFailures
    <2>4. left' \/ DialogInv'
      BY <2>1, <2>2 DEF IInv, DialogInv
    <2> QED BY <2>3, <2>4 DEF IInv
  <1>4. CASE SubmitSend
    <2>1. PICK d \in SendForm : SubmitReview(d)
      BY <1>4 DEF SubmitSend
    <2>2. d \in Forms
      BY WebFormType
    <2>3. screen.page = "form" /\ UNCHANGED <<client, link, refreshing, left>>
      BY <1>1, <1>4 DEF SubmitSend
    <2> QED BY <2>1, <2>2, <2>3, SubmitStep
  <1>5. CASE SendTransaction
    <2>1. /\ screen.page = "review" /\ screen.status \notin {"sending", "success"}
          /\ screen' = [screen EXCEPT !.status = "sending", !.error = FALSE]
          /\ CreateTransaction(screen.data) /\ UNCHANGED <<client, link, forms, told, refreshing, left>>
      BY <1>1, <1>5 DEF SendTransaction
    <2> QED BY <2>1, PressStep
  <1>6. CASE SendBack
    <2>1. screen' = [screen EXCEPT !.page = "form", !.error = FALSE]
          /\ screen.status \notin {"sending", "success"}
          /\ UNCHANGED <<forms, told, posts, presses, executed, refreshing, left>>
      BY <1>6 DEF SendBack
    <2>2. screen' \in Screens /\ screen'.page = "form" /\ screen'.status = screen.status
          /\ screen'.data = screen.data
      BY <1>2, <2>1 DEF Screens
    <2>3. TypeOK' /\ CallsInv(SendOrders)' /\ PressesInv'
      BY <1>1, <2>1, <2>2 DEF IInv, TypeOK, CallsInv, CallsMade, PressesInv, RepeatsFollowFailures
    <2>4. left' \/ DialogInv'
      BY <2>1, <2>2 DEF IInv, DialogInv
    <2> QED BY <2>3, <2>4 DEF IInv
  <1>7. CASE OnModalClose
    <2>1. /\ screen' \in {NoSend, SendScreen("closing")}
          /\ left' = (left \/ posts # {} \/ refreshing > 0)
          /\ UNCHANGED <<client, link, forms, told, posts, presses, executed, refreshing>>
      BY <1>1, <1>7 DEF OnModalClose
    <2>2. screen' \in Screens /\ screen'.data = 0 /\ screen'.page # "review" /\ screen'.status = "edit"
      <3>1. \A page \in {"closed", "closing"} :
               /\ SendScreen(page) \in Screens /\ SendScreen(page).data = 0
               /\ SendScreen(page).page = page /\ SendScreen(page).status = "edit"
        BY DEF SendScreen, Screens
      <3> QED BY <2>1, <3>1 DEF NoSend
    <2>3. CallsInv(SendOrders)'
      BY <1>2, <2>1 DEF CallsInv, CallsMade
    <2>4. ~left' => ~left /\ refreshing = 0 /\ \A p \in posts' : ~p.heard
      <3> SUFFICES ASSUME ~left' PROVE ~left /\ refreshing = 0 /\ \A p \in posts' : ~p.heard
        OBVIOUS
      <3>1. ~left /\ posts = {} /\ ~(refreshing > 0)
        BY <2>1, Zenon
      <3> QED BY <1>2, <2>1, <3>1
    <2>5. left' \in BOOLEAN
      BY <1>2, <2>1, Zenon
    <2> QED BY <2>1, <2>2, <2>3, <2>4, <2>5, EmptyStep
  <1>8. CASE \E p \in posts : Sent(p)
    <2>1. PICK p \in posts : Sent(p)
      BY <1>8
    <2> QED BY <1>1, <2>1, SuccessStep DEF Sent
  <1>9. CASE \E p \in posts : NotSent(p)
    <2>1. PICK p \in posts : NotSent(p)
      BY <1>9
    <2>2. /\ CallsInv(SendOrders)' /\ presses' = presses /\ executed' = executed
          /\ p.heard /\ posts' = posts \ {p}
      BY <1>2, <2>1, HearKeeps DEF NotSent
    <2>3. /\ screen' = [screen EXCEPT !.status = "fail", !.error = TRUE] /\ Tell
          /\ UNCHANGED <<client, link, forms, left>> /\ refreshing' = refreshing
      BY <1>1, <2>1 DEF NotSent, Caught
    <2>4. ~left => refreshing' = 0 /\ \A q \in posts' : ~q.heard
      BY <2>2, <2>3 DEF IInv, DialogInv, CallsInv, CallsMade
    <2> QED BY <1>2, <2>2, <2>3, <2>4, FailStep
  <1>10. CASE Refreshed /\ Caught
    <2>1. /\ refreshing > 0 /\ refreshing' = refreshing - 1
          /\ UNCHANGED <<client, link, forms, left, posts, presses, executed>> /\ Tell
          /\ screen' = [screen EXCEPT !.status = "fail", !.error = TRUE]
      BY <1>1, <1>10 DEF Refreshed, Caught
    <2>2. CallsInv(SendOrders)'
      BY <1>2, <2>1 DEF CallsInv, CallsMade
    <2>3. ~left => refreshing' = 0 /\ \A q \in posts' : ~q.heard
      BY <2>1 DEF IInv, DialogInv
    <2>4. refreshing' \in Nat
      BY <1>2, <2>1
    <2> QED BY <2>1, <2>2, <2>3, <2>4, FailStep
  <1>11. CASE Refreshed /\ ~Caught
    <2>1. /\ refreshing > 0 /\ refreshing' = refreshing - 1
          /\ UNCHANGED <<client, link, screen, forms, told, left, posts, presses, executed>>
      BY <1>1, <1>11 DEF Refreshed
    <2>2. TypeOK' /\ CallsInv(SendOrders)' /\ PressesInv'
      BY <1>2, <2>1 DEF IInv, TypeOK, CallsInv, CallsMade, PressesInv, RepeatsFollowFailures
    <2>3. left' \/ DialogInv'
      BY <2>1 DEF IInv, DialogInv
    <2> QED BY <2>2, <2>3 DEF IInv
  <1> QED BY <1>1, <1>3, <1>4, <1>5, <1>6, <1>7, <1>8, <1>9, <1>10, <1>11
          DEF WebSendNext, SendAnswers

-----------------------------------------------------------------------------
(* The mobile app.                                                         *)

\* Every step of the mobile app keeps the invariant.
LEMMA MobileKeeps == ASSUME IInv, MobileStep PROVE IInv'
  <1> USE DEF calls
  <1>1. UNCHANGED <<client, refreshing, left>> /\ MobileSendNext
    BY DEF MobileStep
  <1>2. /\ screen \in Screens /\ refreshing \in Nat /\ left \in BOOLEAN
        /\ CallsInv(SendOrders) /\ link \in Texts \cup {NoText}
    BY DEF IInv, TypeOK
  <1>10. client = "mobile"
    BY DEF MobileStep
  <1>3. CASE OnFormSubmit
    <2>1. PICK d \in MobileSendForm : SubmitReview(d)
      BY <1>3 DEF OnFormSubmit
    <2>2. d \in Forms
      BY <1>2, MobileFormType
    <2>3. screen.page = "form" /\ UNCHANGED <<client, link, refreshing, left>>
      BY <1>1, <1>3 DEF OnFormSubmit
    <2> QED BY <2>1, <2>2, <2>3, SubmitStep
  <1>4. CASE SendHandleSubmit
    <2>1. /\ screen.page = "review" /\ screen.status \notin {"sending", "success"}
          /\ screen' = [screen EXCEPT !.status = "sending"]
          /\ CreateTransaction(screen.data) /\ UNCHANGED <<client, link, forms, told, refreshing, left>>
      BY <1>1, <1>4 DEF SendHandleSubmit
    <2>2. screen.error \in BOOLEAN /\ screen' = [screen EXCEPT !.status = "sending", !.error = screen.error]
      BY <1>2, <2>1 DEF Screens
    <2> QED BY <2>1, <2>2, PressStep
  <1>5. CASE \E p \in posts : MobileSent(p)
    <2>1. PICK p \in posts : MobileSent(p)
      BY <1>5
    <2> QED BY <1>1, <2>1, SuccessStep DEF MobileSent
  <1>6. CASE \E p \in posts : MobileNotSent(p)
    <2>1. PICK p \in posts : MobileNotSent(p)
      BY <1>6
    <2>2. /\ CallsInv(SendOrders)' /\ presses' = presses /\ executed' = executed
          /\ p.heard /\ posts' = posts \ {p}
      BY <1>2, <2>1, HearKeeps DEF MobileNotSent
    <2>3. /\ screen' = [screen EXCEPT !.status = "fail", !.error = TRUE] /\ Tell
          /\ UNCHANGED <<client, link, forms, left>> /\ refreshing' = refreshing
      BY <1>1, <2>1 DEF MobileNotSent
    <2>4. ~left => refreshing' = 0 /\ \A q \in posts' : ~q.heard
      BY <2>2, <2>3 DEF IInv, DialogInv, CallsInv, CallsMade
    <2> QED BY <1>2, <2>2, <2>3, <2>4, FailStep
  <1>7. CASE MobileOpenSend
    <2>1. /\ screen' = SendScreen("form") /\ screen.page = "closed"
          /\ UNCHANGED <<client, link, forms, told, posts, presses, executed, refreshing, left>>
      BY <1>1, <1>7 DEF MobileOpenSend
    <2>2. screen' \in Screens /\ screen'.data = 0 /\ screen'.page = "form" /\ screen'.status = "edit"
      BY <2>1 DEF SendScreen, Screens
    <2>3. CallsInv(SendOrders)'
      BY <1>2, <2>1 DEF CallsInv, CallsMade
    <2>4. ~left => refreshing = 0 /\ \A p \in posts' : ~p.heard
      BY <2>1 DEF IInv, DialogInv
    <2> QED BY <1>2, <2>1, <2>2, <2>3, <2>4, EmptyStep
  <1>8. CASE SendGoBack
    <2>1. /\ screen' = SendScreen("form") /\ Leave
          /\ UNCHANGED <<client, link, forms, told, refreshing, left>>
      BY <1>1, <1>8 DEF SendGoBack
    <2>2. screen' \in Screens /\ screen'.data = 0 /\ screen'.page = "form" /\ screen'.status = "edit"
      BY <2>1 DEF SendScreen, Screens
    <2> QED BY <1>10, <2>1, <2>2, LeftStep
  <1>9. CASE SendGoToRoot
    <2>1. /\ screen' = NoSend /\ Leave
          /\ UNCHANGED <<client, link, forms, told, refreshing, left>>
      BY <1>1, <1>9 DEF SendGoToRoot
    <2>2. screen' \in Screens /\ screen'.data = 0 /\ screen'.page = "closed" /\ screen'.status = "edit"
      BY <2>1 DEF NoSend, SendScreen, Screens
    <2> QED BY <1>10, <2>1, <2>2, LeftStep
  <1> QED BY <1>1, <1>3, <1>4, <1>5, <1>6, <1>7, <1>8, <1>9 DEF MobileSendNext, MobileSendAnswers

-----------------------------------------------------------------------------
(* The theorems.                                                           *)

\* Every step keeps the invariant.
LEMMA NextKeeps == ASSUME IInv, [Next]_vars PROVE IInv'
  <1>1. CASE UNCHANGED vars
    BY <1>1 DEF vars, IInv, TypeOK, CallsInv, CallsMade, PressesInv, DialogInv, RepeatsFollowFailures
  <1> QED BY <1>1, WebKeeps, MobileKeeps, BackendKeeps DEF Next

\* The inductive invariant holds in every state, for every value of the constants.
THEOREM InvariantHolds == Spec => []IInv
  <1>1. IInv /\ [Next]_vars => IInv'
    BY NextKeeps
  <1> QED BY Initially, <1>1, PTL DEF Spec

\* Nobody is asked to confirm an order again without having been told that it failed.
THEOREM RepeatsFollow == Spec => []RepeatsFollowFailures
  <1>1. IInv => RepeatsFollowFailures
    BY DEF IInv, PressesInv
  <1> QED BY InvariantHolds, <1>1, PTL

\* In a dialog that was not closed early, success is displayed only for an order that the
\* backend carried out, and one call is under way at a time.
THEOREM SuccessReal == Spec => []SuccessIsReal
  <1>1. IInv => SuccessIsReal
    <2> SUFFICES ASSUME IInv, ~left
                 PROVE  /\ screen.status = "success" => Press(screen.data, presses[screen.data]) \in executed
                        /\ \A p, q \in posts : p.heard /\ q.heard => p = q
      BY DEF SuccessIsReal
    <2>1. DialogInv /\ \A p, q \in posts : p.order = q.order /\ p.no = q.no => p = q
      BY DEF IInv, CallsInv, CallsMade
    <2> QED BY <2>1 DEF DialogInv
  <1> QED BY InvariantHolds, <1>1, PTL

-----------------------------------------------------------------------------
(* The refinement of Consent.                                              *)

\* Nothing is on display or confirmed initially.
LEMMA ConsentInitially == Init => C!ConsentInit
  BY DEF Init, C!ConsentInit, Shown, NoSend, SendScreen, CallsInit

\* Every step shows something else, is a confirmation of what is on display or carries
\* out what was confirmed.
LEMMA ConsentStep ==
  ASSUME IInv, IInv', [Next]_vars PROVE [C!ConsentNext]_<<Shown, presses, executed>>
  <1> USE DEF calls
  <1>1. CASE UNCHANGED <<presses, executed>>
    <2>1. Shown' \subseteq SendOrders
      BY DEF IInv, TypeOK, PressesInv, Shown, SendOrders, Screens
    <2> QED BY <1>1, <2>1 DEF C!ConsentNext, C!Show
  <1>2. ASSUME screen.page = "review", screen'.page = screen.page, screen'.data = screen.data,
               CreateTransaction(screen.data)
        PROVE  C!ConsentNext
    <2>1. screen.data \in SendOrders /\ screen.data \in Shown /\ Shown' = Shown
      BY <1>2 DEF IInv, TypeOK, PressesInv, SendOrders, Screens, Shown
    <2>2. presses' = [presses EXCEPT ![screen.data] = @ + 1] /\ executed' = executed
      BY <1>2 DEF CreateTransaction, Call
    <2> QED BY <2>1, <2>2 DEF C!ConsentNext, C!Confirm
  <1>3. CASE WebStep
    <2>1. CASE SendTransaction
      BY <1>2, <2>1 DEF SendTransaction, IInv, TypeOK, Screens
    <2>2. CASE ~SendTransaction
      BY <1>1, <1>3, <2>2
         DEF WebStep, WebSendNext, OpenSend, SubmitSend, SubmitReview, SendBack, OnModalClose,
             SendAnswers, Sent, NotSent, Refreshed, Hear
    <2> QED BY <2>1, <2>2
  <1>4. CASE MobileStep
    <2>1. CASE SendHandleSubmit
      BY <1>2, <2>1 DEF SendHandleSubmit, IInv, TypeOK, Screens
    <2>2. CASE ~SendHandleSubmit
      BY <1>1, <1>4, <2>2
         DEF MobileStep, MobileSendNext, MobileOpenSend, OnFormSubmit, SubmitReview, SendGoBack,
             SendGoToRoot, MobileSendAnswers, MobileSent, MobileNotSent, Hear, Leave, Unhear
    <2> QED BY <2>1, <2>2
  <1>5. CASE BackendStep
    <2>1. PICK p \in posts : Serve(p) \/ Refuse(p)
      BY <1>5 DEF BackendStep, Backend
    <2>2. CASE Serve(p)
      <3>1. /\ presses' = presses /\ p.order \in SendOrders /\ p.no \in 1..presses[p.order]
            /\ Press(p.order, p.no) \notin executed
            /\ executed' = executed \cup {Press(p.order, p.no)}
        BY <2>2, ServeKeeps DEF IInv
      <3>2. Shown' = Shown
        BY <1>5 DEF BackendStep, Shown
      <3>3. C!Press(p.order, p.no) = Press(p.order, p.no)
        BY DEF C!Press, Press
      <3>4. C!Execute(p.order, p.no)
        BY <3>1, <3>2, <3>3 DEF C!Execute
      <3> QED BY <3>1, <3>4 DEF C!ConsentNext
    <2>3. CASE Refuse(p)
      BY <1>1, <2>3 DEF Refuse
    <2> QED BY <2>1, <2>2, <2>3
  <1>6. CASE UNCHANGED vars
    BY <1>1, <1>6 DEF vars
  <1> QED BY <1>3, <1>4, <1>5, <1>6 DEF Next

\* Payments are sent only as displayed when the user confirmed, once for every confirmation.
THEOREM Implements == Spec => ImplementsConsent
  <1>1. IInv /\ IInv' /\ [Next]_vars => [C!ConsentNext]_<<Shown, presses, executed>>
    BY ConsentStep
  <1> QED BY InvariantHolds, ConsentInitially, <1>1, PTL DEF Spec, ImplementsConsent, C!ConsentSpec
=============================================================================
