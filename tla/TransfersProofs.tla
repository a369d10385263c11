--------------------------- MODULE TransfersProofs ---------------------------
(***************************************************************************)
(* Deposits, withdrawals and conversions in either client, for all sets of *)
(* currencies and payment methods and all bounds: IInv is inductive, so    *)
(* that a review is about the latest submission, orders go out one at a    *)
(* time and success is real; and what is executed was ordered.             *)
(***************************************************************************)
EXTENDS Transfers, ClientProofs

USE QuotesAssumption

-----------------------------------------------------------------------------
(* What the forms submit.                                                  *)

\* Amounts that were typed or computed from a price are numbers.
LEMMA AmountTypes ==
  ASSUME NEW n \in Typed
  PROVE  /\ n \in Nat /\ Normalize(n) \in Nat /\ AmountOfPrice(n) \in Nat
         /\ NormalizeDiem((FromFloat(n) * Coin * Parts) \div Rate) \in Nat
  BY NormalizeType, PriceType, FromFloatType, ToFloatType
     DEF AmountOfPrice, NormalizeDiem, DiemFromFloat

\* A submitted form is one of its kind.
Good(kind, method, rfq) == [kind |-> kind, method |-> method, rfq |-> rfq] \in Forms

\* A deposit's and a withdrawal's quote requests are typed.
LEMMA TransferType ==
  ASSUME NEW d, d.method \in Methods, d.currency \in Currencies, d.fiat \in Fiats, d.amount \in Nat
  PROVE  /\ Good("deposit", d.method, RequestDepositQuote(d.fiat, d.currency, FromFloat(d.amount)))
         /\ Good("withdraw", d.method, RequestWithdrawQuote(d.currency, d.fiat, FromFloat(d.amount)))
  BY FromFloatType
     DEF Good, Forms, Rfqs, Kinds, RequestDepositQuote, RequestWithdrawQuote, RequestQuote

\* So is a conversion's.
LEMMA ConvertType ==
  ASSUME NEW d, d.from \in Currencies, d.to \in Currencies, d.amount \in Nat
  PROVE  Good("convert", NoMethod, RequestConvertQuote(d.from, d.to, FromFloat(d.amount)))
  BY FromFloatType DEF Good, Forms, Rfqs, Kinds, RequestConvertQuote, RequestQuote

\* What the web forms submit is typed.
LEMMA WebFormTypes ==
  /\ \A d \in DepositForm :
       Good("deposit", d.method, RequestDepositQuote(d.fiat, d.currency, Amount(d)))
  /\ \A d \in WithdrawForm :
       Good("withdraw", d.method, RequestWithdrawQuote(d.currency, d.fiat, Amount(d)))
  /\ \A d \in ConvertForm :
       Good("convert", NoMethod, RequestConvertQuote(d.from, d.to, Amount(d)))
  <1>1. DepositAmounts \subseteq Nat /\ WithdrawAmounts \subseteq Nat /\ ConvertAmounts \subseteq Nat
    BY AmountTypes DEF DepositAmounts, WithdrawAmounts, ConvertAmounts
  <1>2. \A d \in DepositForm \cup WithdrawForm :
           d.method \in Methods /\ d.currency \in Currencies /\ d.fiat \in Fiats /\ d.amount \in Nat
    BY <1>1 DEF DepositForm, WithdrawForm, Transfers
  <1>3. \A d \in ConvertForm : d.from \in Currencies /\ d.to \in Currencies /\ d.amount \in Nat
    BY <1>1 DEF ConvertForm
  <1> QED BY <1>2, <1>3, TransferType, ConvertType DEF Amount

\* What the mobile forms submit is typed.
LEMMA MobileFormTypes ==
  /\ \A d \in MobileDepositForm :
       Good("deposit", d.method, RequestDepositQuote(d.fiat, d.currency, DiemFromFloat(d.amount)))
  /\ \A d \in MobileWithdrawForm :
       Good("withdraw", d.method, RequestWithdrawQuote(d.currency, d.fiat, DiemFromFloat(d.amount)))
  /\ \A d \in MobileConvertForm :
       Good("convert", NoMethod, RequestConvertQuote(d.from, d.to, DiemFromFloat(d.amount)))
  <1>1. MobileAmounts \subseteq Nat
    BY AmountTypes DEF MobileAmounts
  <1>2. \A d \in MobileDepositForm \cup MobileWithdrawForm :
           d.method \in Methods /\ d.currency \in Currencies /\ d.fiat \in Fiats /\ d.amount \in Nat
    BY <1>1 DEF MobileDepositForm, MobileWithdrawForm, MobileTransfers
  <1>3. \A d \in MobileConvertForm : d.from \in Currencies /\ d.to \in Currencies /\ d.amount \in Nat
    BY <1>1 DEF MobileConvertForm
  <1> QED BY <1>2, <1>3, TransferType, ConvertType DEF DiemFromFloat

-----------------------------------------------------------------------------
(* Steps of either client, by what they do to the screen.                  *)

\* The invariant holds initially.
LEMMA Initially == Init => IInv
  <1> SUFFICES ASSUME Init PROVE IInv
    OBVIOUS
  <1>1. screen \in Screens /\ screen.page = "closed" /\ screen.phase = "none" /\ screen.kind = "none"
    BY DEF Init, Closed, Screen, Screens, WebPhases, MobilePhases
  <1>2. forms \in Seq(Forms) /\ Len(forms) = 0 /\ asking = {} /\ client \in {"web", "mobile"}
    BY DEF Init
  <1>3. TypeOK
    BY <1>1, <1>2 DEF TypeOK
  <1>4. CallsInv(TransferOrders) /\ posts = {} /\ \A o \in TransferOrders : presses[o] = 0
    BY NoCalls DEF Init, CallsInit
  <1>5. PagesInv /\ LatestInv /\ PressInv
    BY <1>1, <1>2, <1>4
       DEF PagesInv, LatestInv, PressInv, ReviewIsLatest, Reviewing, ShowReview, WebPhases, MobilePhases
  <1>6. OneAtATime /\ SuccessIsReal
    BY <1>1, <1>4 DEF OneAtATime, SuccessIsReal
  <1> QED BY <1>3, <1>4, <1>5, <1>6 DEF IInv

\* Every call under way is about a submission that was made.
LEMMA PostsType ==
  ASSUME IInv, NEW p \in posts
  PROVE  p.order \in TransferOrders /\ p.order.quote \in 1..Len(forms)
  <1>1. /\ p.order \in TransferOrders /\ p.no \in 1..presses[p.order]
        /\ presses[p.order] \in Nat /\ p.order.quote \in 1..MaxForms
    BY DEF IInv, CallsInv, CallsMade, Posts, TransferOrders
  <1>2. ~(p.order.quote > Len(forms))
    BY <1>1 DEF IInv, PressInv
  <1>3. Len(forms) \in Nat
    BY DEF IInv, TypeOK
  <1> QED BY <1>1, <1>2, <1>3

\* Calls that stay, or of which only the answer has come, are still one for every order.
LEMMA OneKept ==
  ASSUME IInv, CallsInv(TransferOrders)', presses' = presses, client' = client,
         \A q \in posts' : \E r \in posts : q.order = r.order /\ q.no = r.no
  PROVE  OneAtATime'
  <1>1. ASSUME NEW p \in posts', NEW q \in posts', p.order = q.order PROVE p = q
    <2>1. PICK a \in posts : p.order = a.order /\ p.no = a.no
      OBVIOUS
    <2>2. PICK b \in posts : q.order = b.order /\ q.no = b.no
      OBVIOUS
    <2>3. a = b
      BY <1>1, <2>1, <2>2 DEF IInv, OneAtATime
    <2>4. p.no = q.no
      BY <2>1, <2>2, <2>3
    <2> QED BY <1>1, <2>4 DEF CallsInv, CallsMade
  <1>2. client' = "web" => \A o \in TransferOrders : presses'[o] <= 1
    BY DEF IInv, OneAtATime
  <1> QED BY <1>1, <1>2 DEF OneAtATime

\* No order is displayed, nothing is waited for and nobody hears anything.
LEMMA EmptyStep ==
  ASSUME IInv, CallsInv(TransferOrders)', presses' = presses, executed' = executed,
         \A q \in posts' : ~q.heard /\ \E r \in posts : q.order = r.order /\ q.no = r.no,
         client' = client, forms' = forms, asking' \subseteq asking,
         screen' \in Screens, PagesInv', screen'.page # "review",
         screen'.phase \in {"none", "collect", "edit"}
  PROVE  IInv'
  <1>1. TypeOK'
    BY DEF IInv, TypeOK
  <1>2. ~Reviewing'
    BY DEF Reviewing, ShowReview
  <1>3. LatestInv' /\ SuccessIsReal'
    BY <1>2 DEF LatestInv, ReviewIsLatest, SuccessIsReal
  <1>4. PressInv'
    BY <1>2 DEF IInv, PressInv
  <1> QED BY <1>1, <1>3, <1>4, OneKept DEF IInv

\* The dialog stays as it is, but for an error message.
LEMMA SameStep ==
  ASSUME IInv, UNCHANGED <<client, forms, posts, presses, executed>>, asking' \subseteq asking,
         screen' \in Screens, screen'.page = screen.page, screen'.kind = screen.kind,
         screen'.phase = screen.phase, screen'.data = screen.data, screen'.quote = screen.quote
  PROVE  IInv'
  <1>1. TypeOK' /\ PagesInv' /\ CallsInv(TransferOrders)'
    BY DEF IInv, TypeOK, PagesInv, CallsInv, CallsMade
  <1>2. Reviewing' = Reviewing /\ Reviewed' = Reviewed
    BY DEF Reviewing, ShowReview, Reviewed
  <1>3. LatestInv' /\ SuccessIsReal' /\ OneAtATime'
    BY <1>2 DEF IInv, LatestInv, ReviewIsLatest, SuccessIsReal, OneAtATime
  <1>4. PressInv'
    BY <1>2 DEF IInv, PressInv
  <1> QED BY <1>1, <1>3, <1>4 DEF IInv

\* A form is submitted: it is the latest submission, and nothing was pressed for it.
LEMMA SubmitStep ==
  ASSUME IInv, NEW method, NEW rfq, Good(screen.kind, method, rfq), Ask(screen.kind, method, rfq),
         screen.phase \notin {"executing", "sending"}, screen'.phase \in {"quote", "loading"},
         screen' \in Screens, screen'.kind = screen.kind, screen'.data = Len(forms) + 1,
         screen'.page # "review", PagesInv', UNCHANGED <<client, posts, presses, executed>>
  PROVE  IInv'
  <1> DEFINE new == [kind |-> screen.kind, method |-> method, rfq |-> rfq]
  <1>1. /\ forms' = Append(forms, new) /\ asking' = asking \cup {Len(forms) + 1}
        /\ Len(forms) < MaxForms /\ new \in Forms /\ new.kind = screen.kind
    BY DEF Ask, Good
  <1>2. /\ forms \in Seq(Forms) /\ Len(forms) \in Nat
        /\ asking \subseteq 1..Len(forms) /\ client \in {"web", "mobile"}
    BY DEF IInv, TypeOK
  <1> HIDE DEF new
  <1>3. /\ forms' \in Seq(Forms) /\ Len(forms') = Len(forms) + 1
        /\ forms'[Len(forms) + 1] = new
    BY <1>1, <1>2
  <1>4. TypeOK'
    <2>1. asking' \subseteq 1..(Len(forms) + 1)
      <3>1. PICK n \in Nat : n = Len(forms)
        BY <1>2
      <3>2. asking' = asking \cup {n + 1} /\ asking \subseteq 1..n
        BY <1>1, <1>2, <3>1
      <3>3. \A i \in 1..n : i \in 1..(n + 1)
        OBVIOUS
      <3>4. n + 1 \in 1..(n + 1)
        OBVIOUS
      <3>5. asking' \subseteq 1..(n + 1)
        BY <3>2, <3>3, <3>4
      <3> QED BY <3>1, <3>5
    <2> QED BY <1>1, <1>2, <1>3, <2>1 DEF TypeOK
  <1>5. CallsInv(TransferOrders)'
    BY DEF IInv, CallsInv, CallsMade
  <1>6. ~Reviewing'
    BY DEF Reviewing, ShowReview
  <1>7. LatestInv' /\ SuccessIsReal'
    BY <1>1, <1>2, <1>3, <1>6 DEF LatestInv, ReviewIsLatest, SuccessIsReal
  <1>8. OneAtATime'
    BY DEF IInv, OneAtATime
  <1>9. PressInv'
    <2>1. \A o \in TransferOrders : o.quote \in Nat
      BY DEF TransferOrders
    <2>2. \A o \in TransferOrders : o.quote > Len(forms) => presses[o] = 0
      BY DEF IInv, PressInv
    <2>3. \A o \in TransferOrders : o.quote >= Len(forms') => presses'[o] = 0
      BY <1>2, <1>3, <2>1, <2>2
    <2>4. \A p \in posts' : ~p.heard
      BY DEF IInv, PressInv
    <2>5. \A p \in posts' : p.order.quote # Len(forms')
      BY <1>2, <1>3, PostsType
    <2> QED BY <1>2, <1>3, <2>1, <2>3, <2>4, <2>5 DEF PressInv
  <1> QED BY <1>4, <1>5, <1>7, <1>8, <1>9 DEF IInv

\* The answer to the latest submission comes, and is reviewed.
LEMMA ReviewStep ==
  ASSUME IInv, screen.phase \in {"quote", "loading"}, asking' \subseteq asking,
         UNCHANGED <<client, forms, posts, presses, executed>>,
         screen' \in Screens, screen'.kind = screen.kind, screen'.data = screen.data,
         screen'.quote = screen.data, PagesInv', Reviewing', screen'.phase \in {"review", "edit"}
  PROVE  IInv'
  <1>1. TypeOK' /\ CallsInv(TransferOrders)' /\ OneAtATime'
    BY DEF IInv, TypeOK, CallsInv, CallsMade, OneAtATime
  <1>2. screen.data = Len(forms) /\ Len(forms) > 0 /\ forms[screen.data].kind = screen.kind
    BY DEF IInv, LatestInv
  <1>3. LatestInv' /\ SuccessIsReal'
    BY <1>2 DEF LatestInv, ReviewIsLatest, SuccessIsReal
  <1>4. PressInv'
    <2>1. screen.phase = "loading" => client = "mobile"
      BY DEF IInv, PagesInv, WebPhases, TypeOK
    <2> QED BY <2>1 DEF IInv, PressInv
  <1> QED BY <1>1, <1>3, <1>4 DEF IInv

\* The order on display is a possible one.
LEMMA ReviewedType ==
  ASSUME IInv, Reviewing
  PROVE  /\ Reviewed \in TransferOrders /\ Reviewed.quote = Len(forms) /\ Reviewed.quote = screen.quote
         /\ Reviewed.method = forms[screen.data].method
         /\ screen.kind = "convert" => forms[screen.data].method = NoMethod
  <1>1. /\ screen.quote = Len(forms) /\ screen.data = Len(forms) /\ Len(forms) > 0
        /\ forms[screen.data].kind = screen.kind
    BY DEF IInv, LatestInv, ReviewIsLatest
  <1>2. /\ Len(forms) \in Nat /\ Len(forms) <= MaxForms /\ MaxForms \in Nat
        /\ forms[Len(forms)] \in Forms
    BY <1>1 DEF IInv, TypeOK
  <1>3. /\ forms[screen.data].method \in Methods \cup {NoMethod} /\ Len(forms) \in 1..MaxForms
        /\ forms[screen.data].kind = "convert" <=> forms[screen.data].method = NoMethod
    BY <1>1, <1>2 DEF Forms
  <1> QED BY <1>1, <1>3 DEF Reviewed, TransferOrders

\* The button of a review is pressed.
LEMMA PressedStep ==
  ASSUME IInv, Reviewing, screen.phase \in {"review", "edit", "fail"}, Call(Reviewed),
         client = "web" => screen.phase = "review", UNCHANGED <<client, forms, asking>>,
         screen' \in Screens, PagesInv', Reviewing', screen'.phase \in {"executing", "sending"},
         screen'.kind = screen.kind, screen'.data = screen.data, screen'.quote = screen.quote
  PROVE  IInv'
  <1>1. Reviewed \in TransferOrders /\ Reviewed.quote = Len(forms) /\ Reviewed' = Reviewed
    BY ReviewedType DEF Reviewed
  <1>2. PICK o \in TransferOrders : o = Reviewed
    BY <1>1
  <1>3. Call(o) /\ CallsInv(TransferOrders)
    BY <1>2 DEF Call, IInv
  <1>4. /\ CallsInv(TransferOrders)' /\ executed' = executed
        /\ presses' = [presses EXCEPT ![o] = @ + 1]
        /\ \A p \in posts' : p \in posts \/ (p.order = o /\ p.no = presses'[o] /\ p.heard)
    BY <1>3, CallKeeps
  <1>5. presses \in [TransferOrders -> Nat] /\ o.quote = Len(forms)
    BY <1>1, <1>2, <1>3 DEF CallsInv, CallsMade
  <1>6. screen.phase \notin {"executing", "sending", "done", "success"}
    OBVIOUS
  <1>7. \A p \in posts : p.order.quote # Len(forms) /\ ~p.heard
    BY <1>6 DEF IInv, PressInv
  <1>8. \A p \in posts' : p \in posts \/ p.order = o
    BY <1>4
  <1>9. \A p \in posts' : p.order = o => p.no = presses'[o]
    BY <1>4, <1>5, <1>7
  <1>10. TypeOK'
    BY DEF IInv, TypeOK
  <1>11. LatestInv'
    BY DEF IInv, LatestInv, ReviewIsLatest
  <1>12. OneAtATime'
    <2>1. ASSUME NEW p \in posts', NEW q \in posts', p.order = q.order PROVE p = q
      <3>1. CASE p.order = o
        BY <1>4, <1>9, <2>1, <3>1 DEF CallsInv, CallsMade
      <3>2. CASE p.order # o
        BY <1>8, <2>1, <3>2 DEF IInv, OneAtATime
      <3> QED BY <3>1, <3>2
    <2>2. ASSUME client' = "web", NEW a \in TransferOrders PROVE presses'[a] <= 1
      <3>1. client = "web" /\ screen.phase = "review"
        BY <2>2
      <3>2. presses[o] = 0 /\ presses[a] <= 1
        BY <1>5, <3>1 DEF IInv, PressInv, OneAtATime
      <3> QED BY <1>4, <1>5, <3>2
    <2> QED BY <2>1, <2>2 DEF OneAtATime
  <1>13. SuccessIsReal'
    BY DEF SuccessIsReal
  <1>14. PressInv'
    <2>1. \A a \in TransferOrders : a.quote > Len(forms') => presses'[a] = 0
      <3>1. \A a \in TransferOrders : a.quote > Len(forms) => presses[a] = 0
        BY DEF IInv, PressInv
      <3>2. \A a \in TransferOrders : a # o => presses'[a] = presses[a]
        BY <1>4, <1>5
      <3>3. Len(forms) \in Nat
        BY DEF IInv, TypeOK
      <3> QED BY <1>5, <3>1, <3>2, <3>3
    <2>2. \A p \in posts' : p.heard => p.order = Reviewed'
      BY <1>1, <1>2, <1>7, <1>8
    <2>3. \A p \in posts' : p.order.quote = Len(forms') => p.order = Reviewed'
      BY <1>1, <1>2, <1>7, <1>8
    <2> QED BY <2>1, <2>2, <2>3 DEF PressInv
  <1> QED BY <1>4, <1>10, <1>11, <1>12, <1>13, <1>14 DEF IInv

\* The call that is heard is the only one for the latest submission.
LEMMA HeardIsLatest ==
  ASSUME IInv, NEW p \in posts, p.heard
  PROVE  /\ screen.phase \in {"executing", "sending"} /\ p.order = Reviewed /\ Reviewing
         /\ Reviewed.quote = Len(forms)
         /\ \A q \in posts : q # p => q.order.quote # Len(forms) /\ ~q.heard
  <1>1. screen.phase \in {"executing", "sending"} /\ p.order = Reviewed
    BY DEF IInv, PressInv
  <1>2. Reviewing
    BY <1>1 DEF IInv, PagesInv, TypeOK, Reviewing, ShowReview, WebPhases, MobilePhases
  <1>3. Reviewed.quote = Len(forms)
    BY <1>2, ReviewedType
  <1>4. ASSUME NEW q \in posts, q # p PROVE q.order.quote # Len(forms) /\ ~q.heard
    <2>1. q.order # p.order
      BY <1>4 DEF IInv, OneAtATime
    <2> QED BY <1>1, <1>2, <2>1 DEF IInv, PressInv
  <1> QED BY <1>1, <1>2, <1>3, <1>4

\* The answer to the last press comes.
LEMMA HeardStep ==
  ASSUME IInv, NEW p \in posts, p.heard, posts' = posts \ {p}, CallsInv(TransferOrders)',
         UNCHANGED <<client, forms, asking, presses, executed>>,
         screen' \in Screens, PagesInv', Reviewing', screen'.kind = screen.kind,
         screen'.data = screen.data, screen'.quote = screen.quote,
         screen'.phase \notin {"quote", "loading", "review"},
         screen'.phase \in {"done", "success"} => p.state = "ok"
  PROVE  IInv'
  <1>1. /\ p.order = Reviewed /\ Reviewing /\ Reviewed' = Reviewed
        /\ \A q \in posts' : q.order.quote # Len(forms) /\ ~q.heard
    BY HeardIsLatest DEF Reviewed
  <1>2. TypeOK' /\ LatestInv' /\ OneAtATime'
    BY <1>1 DEF IInv, TypeOK, LatestInv, ReviewIsLatest, OneAtATime
  <1>3. SuccessIsReal'
    <2> SUFFICES ASSUME p.state = "ok" PROVE \E x \in executed' : x.order = Reviewed'
      BY DEF SuccessIsReal
    <2>1. Press(p.order, p.no) \in executed
      BY DEF IInv, CallsInv, CallsMade
    <2> QED BY <1>1, <2>1 DEF Press
  <1>4. PressInv'
    BY <1>1 DEF IInv, PressInv
  <1> QED BY <1>2, <1>3, <1>4 DEF IInv

\* The screen is left while calls or quotes are under way.
LEMMA LeaveStep ==
  ASSUME IInv, Leave, UNCHANGED <<client, forms>>, asking' \subseteq asking,
         screen' \in Screens, PagesInv', screen'.page # "review",
         screen'.phase \in {"none", "edit"}
  PROVE  IInv'
  <1>1. PICK P : P = posts
    OBVIOUS
  <1>2. Unhear(P) /\ P \subseteq posts /\ CallsInv(TransferOrders)
    BY <1>1 DEF Leave, Unhear, IInv
  <1>3. /\ CallsInv(TransferOrders)' /\ presses' = presses /\ executed' = executed
        /\ \A q \in posts' :
              \/ q \in posts \ P
              \/ ~q.heard /\ \E r \in P : q.order = r.order /\ q.no = r.no
    BY <1>2, UnhearKeeps
  <1>4. \A q \in posts' : ~q.heard /\ \E r \in posts : q.order = r.order /\ q.no = r.no
    BY <1>1, <1>3
  <1> QED BY <1>3, <1>4, EmptyStep

\* The backend carries out or refuses what was ordered.
LEMMA BackendKeeps == ASSUME IInv, BackendStep PROVE IInv'
  <1>1. PICK p \in posts : Serve(p) \/ Refuse(p)
    BY DEF BackendStep, Backend
  <1>2. /\ CallsInv(TransferOrders)' /\ presses' = presses /\ executed \subseteq executed'
        /\ \A q \in posts' : \E r \in posts :
               q.order = r.order /\ q.no = r.no /\ q.heard = r.heard
    BY <1>1, ServeKeeps, RefuseKeeps DEF IInv
  <1>3. UNCHANGED <<client, screen, forms, asking>>
    BY DEF BackendStep, quotes
  <1>4. TypeOK' /\ PagesInv' /\ LatestInv'
    BY <1>3 DEF IInv, TypeOK, PagesInv, LatestInv, ReviewIsLatest, Reviewing, ShowReview
  <1>5. Reviewed' = Reviewed /\ Reviewing' = Reviewing
    BY <1>3 DEF Reviewed, Reviewing, ShowReview
  <1>6. SuccessIsReal' /\ OneAtATime'
    BY <1>2, <1>3, <1>5, OneKept DEF IInv, SuccessIsReal
  <1>7. PressInv'
    BY <1>2, <1>3, <1>5 DEF IInv, PressInv
  <1> QED BY <1>2, <1>4, <1>6, <1>7 DEF IInv

-----------------------------------------------------------------------------
(* The web application.                                                    *)

\* What the reducers make of the dialog, whichever it is.
LEMMA DispatchEffect ==
  ASSUME screen \in Screens, screen.kind \in Kinds, NEW i \in Nat,
         NEW type \in {"collect", "quote", "review", "executing", "done", "error"}, Dispatch(type, i)
  PROVE  /\ screen' \in Screens /\ screen'.page = screen.page /\ screen'.kind = screen.kind
         /\ screen'.phase = IF type = "error" THEN ErrorPhase(screen.phase) ELSE type
         /\ screen'.data = IF type = "quote" THEN i ELSE screen.data
         /\ type # "quote" => screen'.quote = IF type = "review" THEN i ELSE screen.quote
  <1> DEFINE a == [type |-> type, data |-> i]
  <1>1. ErrorPhase(screen.phase) \in WebPhases \cup MobilePhases
    BY DEF ErrorPhase, WebPhases, MobilePhases, Screens
  <1>2. /\ screen'.page = screen.page /\ screen'.kind = screen.kind
        /\ screen'.phase = IF type = "error" THEN ErrorPhase(screen.phase) ELSE type
        /\ screen'.data = IF type = "quote" THEN i ELSE screen.data
        /\ type # "quote" => screen'.quote = IF type = "review" THEN i ELSE screen.quote
        /\ screen' \in Screens
    <2> USE <1>1 DEF Screens, Reducer, WebPhases, MobilePhases
    <2>1. CASE screen.kind = "deposit"
      <3>1. screen' = DepositReducer(screen, a)
        BY <2>1 DEF Dispatch
      <3> QED BY <3>1 DEF DepositReducer
    <2>2. CASE screen.kind \in {"withdraw", "convert"}
      <3>1. screen' = WithdrawReducer(screen, a)
        BY <2>2 DEF Dispatch, ConvertReducer
      <3> QED BY <3>1 DEF WithdrawReducer
    <2> QED BY <2>1, <2>2 DEF Kinds
  <1> QED BY <1>2

\* A dialog of the web application keeps the invariant's view of its pages.
LEMMA WebDialog ==
  ASSUME IInv, client = "web", client' = client, screen.page = "dialog", screen'.page = "dialog",
         screen'.kind = screen.kind, screen'.phase \in WebPhases \ {"none"}
  PROVE  PagesInv'
  BY DEF IInv, PagesInv, TypeOK

\* An answer to a submission or a failure, an answer to an execution or its failure.
LEMMA WebAnswers ==
  ASSUME IInv, client = "web", client' = client, screen.page = "dialog", Answers
  PROVE  IInv'
  <1> USE DEF calls, quotes
  <1>1. screen \in Screens /\ screen.phase \in WebPhases \ {"none"} /\ screen.kind \in Kinds
    BY DEF IInv, TypeOK, PagesInv
  <1>2. ASSUME NEW i \in asking, QuoteAnswered(i) PROVE IInv'
    <2>1. asking' \subseteq asking /\ UNCHANGED <<client, forms, posts, presses, executed>>
      BY <1>2 DEF QuoteAnswered, Answered
    <2>2. CASE Outdated(i)
      BY <1>1, <1>2, <2>1, <2>2, SameStep DEF QuoteAnswered
    <2>3. CASE ~Outdated(i)
      <3>1. screen.phase = "quote" /\ screen.data = i /\ i \in Nat /\ Dispatch("review", i)
        BY <1>1, <1>2, <2>3 DEF Outdated, QuoteAnswered, Screens
      <3>2. /\ screen' \in Screens /\ screen'.page = screen.page /\ screen'.kind = screen.kind
            /\ screen'.phase = "review" /\ screen'.data = screen.data /\ screen'.quote = screen.data
        BY <1>1, <3>1, DispatchEffect
      <3>3. PagesInv' /\ Reviewing'
        BY <3>2, WebDialog DEF WebPhases, Reviewing, ShowReview
      <3> QED BY <2>1, <3>1, <3>2, <3>3, ReviewStep
    <2> QED BY <2>2, <2>3
  <1>3. ASSUME Dispatch("error", 0)
        PROVE  /\ screen' \in Screens /\ screen'.page = screen.page /\ screen'.kind = screen.kind
               /\ screen'.phase = IF screen.phase = "quote" THEN "collect" ELSE screen.phase
               /\ screen'.data = screen.data /\ screen'.quote = screen.quote
               /\ PagesInv'
    <2>1. /\ screen' \in Screens /\ screen'.page = screen.page /\ screen'.kind = screen.kind
          /\ screen'.phase = ErrorPhase(screen.phase)
          /\ screen'.data = screen.data /\ screen'.quote = screen.quote
      BY <1>1, <1>3, DispatchEffect
    <2>2. screen'.phase = IF screen.phase = "quote" THEN "collect" ELSE screen.phase
      BY <1>1, <2>1 DEF ErrorPhase, WebPhases
    <2> QED BY <1>1, <2>1, <2>2, WebDialog DEF WebPhases
  <1>4. ASSUME NEW i \in asking, QuoteFailed(i) PROVE IInv'
    <2>1. asking' \subseteq asking /\ UNCHANGED <<client, forms, posts, presses, executed>>
      BY <1>4 DEF QuoteFailed, Answered
    <2>2. CASE screen.phase = "quote"
      <3>1. \A p \in posts : ~p.heard
        BY <2>2 DEF IInv, PressInv
      <3>2. CallsInv(TransferOrders)'
        BY <2>1 DEF IInv, CallsInv, CallsMade
      <3> QED BY <1>3, <1>4, <2>1, <2>2, <3>1, <3>2, EmptyStep DEF QuoteFailed
    <2>3. CASE screen.phase # "quote"
      BY <1>3, <1>4, <2>1, <2>3, SameStep DEF QuoteFailed
    <2> QED BY <2>2, <2>3
  <1>5. ASSUME NEW p \in posts, Executed(p) \/ ExecuteFailed(p) PROVE IInv'
    <2>1. PICK state \in {"ok", "error"} :
             Hear(p, state) /\ Dispatch(IF state = "ok" THEN "done" ELSE "error", 0)
      BY <1>5 DEF Executed, ExecuteFailed
    <2>2. /\ CallsInv(TransferOrders)' /\ presses' = presses /\ executed' = executed
          /\ p.heard /\ p.state = state /\ posts' = posts \ {p}
      BY <2>1, HearKeeps DEF IInv
    <2>3. UNCHANGED <<client, forms, asking>>
      BY <1>5 DEF Executed, ExecuteFailed
    <2>4. screen.phase = "executing"
      BY <1>1, <2>2, HeardIsLatest DEF WebPhases
    <2>5. /\ screen' \in Screens /\ screen'.page = screen.page /\ screen'.kind = screen.kind
          /\ screen'.phase = IF state = "ok" THEN "done" ELSE "executing"
          /\ screen'.data = screen.data /\ screen'.quote = screen.quote
      <3>1. CASE state = "ok"
        BY <1>1, <2>1, <3>1, DispatchEffect
      <3>2. CASE state = "error"
        BY <1>3, <2>1, <2>4, <3>2
      <3> QED BY <3>1, <3>2
    <2>6. PagesInv' /\ Reviewing'
      BY <2>5, WebDialog DEF WebPhases, Reviewing, ShowReview
    <2> QED BY <2>2, <2>3, <2>5, <2>6, HeardStep
  <1> QED BY <1>2, <1>4, <1>5 DEF Answers

\* The form of a dialog is submitted.
LEMMA WebSubmit ==
  ASSUME IInv, client = "web", client' = client, screen.page = "dialog",
         NEW method, NEW rfq, Good(screen.kind, method, rfq), Submit(method, rfq)
  PROVE  IInv'
  <1>1. screen \in Screens /\ screen.phase \in WebPhases \ {"none"} /\ screen.kind \in Kinds
    BY DEF IInv, TypeOK, PagesInv
  <1>2. /\ ~ShowReview /\ Ask(screen.kind, method, rfq) /\ Dispatch("quote", Len(forms) + 1)
        /\ UNCHANGED <<posts, presses, executed>>
    BY DEF Submit, calls
  <1>3. Len(forms) + 1 \in Nat
    BY DEF IInv, TypeOK
  <1>4. /\ screen' \in Screens /\ screen'.page = screen.page /\ screen'.kind = screen.kind
        /\ screen'.phase = "quote" /\ screen'.data = Len(forms) + 1
    BY <1>1, <1>2, <1>3, DispatchEffect
  <1>5. PagesInv' /\ screen.phase \notin {"executing", "sending"}
    BY <1>1, <1>2, <1>4, WebDialog DEF WebPhases, ShowReview
  <1> QED BY <1>2, <1>4, <1>5, SubmitStep

\* The button of a dialog's review is pressed.
LEMMA WebExecute ==
  ASSUME IInv, client = "web", client' = client, screen.page = "dialog",
         Execute(forms[screen.data].method)
  PROVE  IInv'
  <1>1. screen \in Screens /\ screen.kind \in Kinds /\ screen.phase = "review" /\ Reviewing
    BY DEF IInv, TypeOK, PagesInv, Execute, Reviewing, ShowReview
  <1>2. Call(Reviewed) /\ Dispatch("executing", 0) /\ UNCHANGED <<client, forms, asking>>
    BY DEF Execute, ExecuteQuote, Reviewed, quotes
  <1>3. /\ screen' \in Screens /\ screen'.page = screen.page /\ screen'.kind = screen.kind
        /\ screen'.phase = "executing" /\ screen'.data = screen.data /\ screen'.quote = screen.quote
    BY <1>1, <1>2, DispatchEffect
  <1>4. PagesInv' /\ Reviewing'
    BY <1>3, WebDialog DEF WebPhases, Reviewing, ShowReview
  <1> QED BY <1>1, <1>2, <1>3, <1>4, PressedStep

\* The user goes back to the form.
LEMMA WebBack ==
  ASSUME IInv, client = "web", client' = client, screen.page = "dialog", Back
  PROVE  IInv'
  <1>1. screen \in Screens /\ screen.kind \in Kinds /\ screen.phase = "review"
    BY DEF IInv, TypeOK, PagesInv, Back
  <1>2. Dispatch("collect", 0) /\ UNCHANGED <<client, forms, asking, posts, presses, executed>>
    BY DEF Back, quotes, calls
  <1>3. /\ screen' \in Screens /\ screen'.page = screen.page /\ screen'.kind = screen.kind
        /\ screen'.phase = "collect"
    BY <1>1, <1>2, DispatchEffect
  <1>4. PagesInv' /\ \A p \in posts : ~p.heard
    BY <1>1, <1>3, WebDialog DEF WebPhases, IInv, PressInv
  <1>5. CallsInv(TransferOrders)'
    BY <1>2 DEF IInv, CallsInv, CallsMade
  <1> QED BY <1>2, <1>3, <1>4, <1>5, EmptyStep

\* A review of the web application does the one or the other.
LEMMA WebReview ==
  ASSUME IInv, client = "web", client' = client, screen.page = "dialog", ShowReview,
         DepositReview \/ WithdrawReview \/ (ConvertReview /\ screen.kind = "convert")
  PROVE  IInv'
  <1>1. screen.kind = "convert" => forms[screen.data].method = NoMethod
    BY ReviewedType DEF Reviewing
  <1> QED BY <1>1, WebExecute, WebBack DEF DepositReview, WithdrawReview, ConvertReview

\* The web application keeps the invariant.
LEMMA WebKeeps == ASSUME IInv, WebStep PROVE IInv'
  <1>1. client = "web" /\ client' = client /\ WebNext
    BY DEF WebStep
  <1>2. CASE Deposit
    <2>1. screen.page = "dialog" /\ screen.kind = "deposit"
      BY <1>2 DEF Deposit, Dialog
    <2>2. ASSUME NEW d \in DepositForm,
                 Submit(d.method, RequestDepositQuote(d.fiat, d.currency, Amount(d)))
          PROVE  IInv'
      BY <1>1, <2>1, <2>2, WebFormTypes, WebSubmit
    <2> QED BY <1>1, <1>2, <2>1, <2>2, WebReview, WebAnswers DEF Deposit
  <1>3. CASE Withdraw
    <2>1. screen.page = "dialog" /\ screen.kind = "withdraw"
      BY <1>3 DEF Withdraw, Dialog
    <2>2. ASSUME NEW d \in WithdrawForm,
                 Submit(d.method, RequestWithdrawQuote(d.currency, d.fiat, Amount(d)))
          PROVE  IInv'
      BY <1>1, <2>1, <2>2, WebFormTypes, WebSubmit
    <2> QED BY <1>1, <1>3, <2>1, <2>2, WebReview, WebAnswers DEF Withdraw
  <1>4. CASE Convert
    <2>1. screen.page = "dialog" /\ screen.kind = "convert"
      BY <1>4 DEF Convert, Dialog
    <2>2. ASSUME NEW d \in ConvertForm,
                 Submit(NoMethod, RequestConvertQuote(d.from, d.to, Amount(d)))
          PROVE  IInv'
      BY <1>1, <2>1, <2>2, WebFormTypes, WebSubmit
    <2> QED BY <1>1, <1>4, <2>1, <2>2, WebReview, WebAnswers DEF Convert
  <1>5. CASE Close
    <2>1. screen' = Closed /\ Leave /\ asking' = {} /\ UNCHANGED <<client, forms>>
      BY <1>1, <1>5 DEF Close, LeaveQuotes
    <2>2. /\ screen' \in Screens /\ screen'.page = "closed" /\ screen'.phase = "none"
          /\ screen'.kind = "none"
      BY <2>1 DEF Closed, Screen, Screens, WebPhases
    <2>3. PagesInv'
      BY <1>1, <2>2 DEF PagesInv, WebPhases
    <2> QED BY <2>1, <2>2, <2>3, LeaveStep
  <1>6. CASE OpenTransfer \/ TransferModal
    <2>1. /\ UNCHANGED <<client, forms, asking, posts, presses, executed>>
          /\ screen.page \in {"closed", "menu"}
          /\ \/ screen' = Screen("menu", "none", "none")
             \/ \E kind \in Kinds : screen' = Screen("dialog", kind, "collect")
      BY <1>1, <1>6 DEF OpenTransfer, TransferModal, quotes, calls, Closed, Screen
    <2>2. /\ screen' \in Screens /\ screen'.page # "review" /\ screen'.phase \in {"none", "collect"}
          /\ PagesInv'
      <3>1. CASE screen' = Screen("menu", "none", "none")
        <4>1. /\ screen' \in Screens /\ screen'.page = "menu" /\ screen'.phase = "none"
              /\ screen'.kind = "none"
          BY <3>1 DEF Screen, Screens, WebPhases
        <4> QED BY <1>1, <4>1 DEF PagesInv, WebPhases
      <3>2. ASSUME NEW kind \in Kinds, screen' = Screen("dialog", kind, "collect")
            PROVE  screen' \in Screens /\ screen'.page = "dialog" /\ screen'.phase = "collect" /\ PagesInv'
        <4>1. /\ screen' \in Screens /\ screen'.page = "dialog" /\ screen'.phase = "collect"
              /\ screen'.kind = kind
          BY <3>2 DEF Screen, Screens, WebPhases
        <4> QED BY <1>1, <4>1 DEF PagesInv, WebPhases
      <3> QED BY <2>1, <3>1, <3>2 DEF Screen
    <2>3. \A p \in posts : ~p.heard
      BY <1>1, <2>1, HeardIsLatest DEF Reviewing
    <2>4. CallsInv(TransferOrders)'
      BY <2>1 DEF IInv, CallsInv, CallsMade
    <2> QED BY <2>1, <2>2, <2>3, <2>4, EmptyStep
  <1> QED BY <1>1, <1>2, <1>3, <1>4, <1>5, <1>6 DEF WebNext

-----------------------------------------------------------------------------
(* The mobile app.                                                         *)

\* A form is submitted, and its quote or a failure comes.
LEMMA MobileForm ==
  ASSUME IInv, client = "mobile", client' = client, screen.page = "form"
  PROVE  /\ \A method, rfq :
               Good(screen.kind, method, rfq) /\ SubmitForm(method, rfq) => IInv'
         /\ FormAnswers => IInv'
  <1> USE DEF calls
  <1>1. screen \in Screens /\ screen.phase \in {"edit", "loading"} /\ screen.kind \in Kinds
    BY DEF IInv, TypeOK, PagesInv
  <1>2. Len(forms) \in Nat
    BY DEF IInv, TypeOK
  <1>3. ASSUME NEW method, NEW rfq, Good(screen.kind, method, rfq), SubmitForm(method, rfq)
        PROVE  IInv'
    <2>1. /\ screen.phase = "edit" /\ Ask(screen.kind, method, rfq)
          /\ screen' = [screen EXCEPT !.phase = "loading", !.data = Len(forms) + 1, !.error = FALSE]
          /\ UNCHANGED <<client, posts, presses, executed>>
      BY <1>3 DEF SubmitForm
    <2>2. /\ screen' \in Screens /\ screen'.page = "form" /\ screen'.kind = screen.kind
          /\ screen'.phase = "loading" /\ screen'.data = Len(forms) + 1
      <3>1. Len(forms) + 1 \in Nat
        BY <1>2
      <3> QED BY <1>1, <2>1, <3>1 DEF Screens, MobilePhases
    <2>3. PagesInv'
      BY <1>1, <2>2 DEF PagesInv, MobilePhases
    <2> QED BY <1>3, <2>1, <2>2, <2>3, SubmitStep
  <1>4. ASSUME NEW i \in asking, PushReview(i) PROVE IInv'
    <2>1. /\ screen.phase = "loading" /\ screen.data = i /\ i \in Nat
          /\ screen' = [screen EXCEPT !.page = "review", !.phase = "edit", !.quote = i]
          /\ asking' \subseteq asking /\ UNCHANGED <<client, forms, posts, presses, executed>>
      BY <1>1, <1>4 DEF PushReview, Answered, Screens
    <2>2. /\ screen' \in Screens /\ screen'.page = "review" /\ screen'.kind = screen.kind
          /\ screen'.phase = "edit" /\ screen'.data = screen.data /\ screen'.quote = screen.data
      BY <1>1, <2>1 DEF Screens, MobilePhases
    <2>3. PagesInv' /\ Reviewing'
      BY <1>1, <2>2 DEF PagesInv, MobilePhases, Reviewing
    <2> QED BY <2>1, <2>2, <2>3, ReviewStep
  <1>5. ASSUME NEW i \in asking, FormFailed(i) PROVE IInv'
    <2>1. /\ screen.phase = "loading"
          /\ screen' = [screen EXCEPT !.phase = "edit", !.error = TRUE]
          /\ asking' \subseteq asking /\ UNCHANGED <<client, forms, posts, presses, executed>>
      BY <1>5 DEF FormFailed, Answered
    <2>2. /\ screen' \in Screens /\ screen'.page = "form" /\ screen'.kind = screen.kind
          /\ screen'.phase = "edit"
      BY <1>1, <2>1 DEF Screens, MobilePhases
    <2>3. PagesInv'
      BY <1>1, <2>2 DEF PagesInv, MobilePhases
    <2>4. CallsInv(TransferOrders)' /\ \A p \in posts : ~p.heard
      BY <2>1 DEF IInv, CallsInv, CallsMade, PressInv
    <2> QED BY <2>1, <2>2, <2>3, <2>4, EmptyStep
  <1> QED BY <1>3, <1>4, <1>5 DEF FormAnswers

\* The button of a review is pressed.
LEMMA MobileSubmit ==
  ASSUME IInv, client = "mobile", client' = client, screen.page = "review",
         HandleSubmit(forms[screen.data].method)
  PROVE  IInv'
  <1>1. screen \in Screens /\ screen.kind \in Kinds /\ screen.phase \in {"edit", "fail"} /\ Reviewing
    BY DEF IInv, TypeOK, PagesInv, HandleSubmit, Reviewing
  <1>2. /\ Call(Reviewed) /\ screen' = [screen EXCEPT !.phase = "sending"]
        /\ UNCHANGED <<client, forms, asking>>
    BY DEF HandleSubmit, ExecuteQuote, Reviewed, quotes
  <1>3. /\ screen' \in Screens /\ screen'.page = "review" /\ screen'.kind = screen.kind
        /\ screen'.phase = "sending" /\ screen'.data = screen.data /\ screen'.quote = screen.quote
    BY <1>1, <1>2 DEF Screens, MobilePhases
  <1>4. PagesInv' /\ Reviewing'
    BY <1>1, <1>3 DEF PagesInv, MobilePhases, Reviewing
  <1> QED BY <1>1, <1>2, <1>3, <1>4, PressedStep

\* The answer comes, or the user leaves.
LEMMA MobileReview ==
  ASSUME IInv, client = "mobile", client' = client, screen.page = "review",
         ReviewAnswers \/ GoBack \/ GoToRoot
  PROVE  IInv'
  <1> USE DEF quotes
  <1>1. screen \in Screens /\ screen.kind \in Kinds
    BY DEF IInv, TypeOK, PagesInv
  <1>2. ASSUME NEW p \in posts, SubmitDone(p) \/ SubmitFailed(p) PROVE IInv'
    <2>1. PICK state \in {"ok", "error"} :
             /\ Hear(p, state)
             /\ screen' = IF state = "ok" THEN [screen EXCEPT !.phase = "success"]
                          ELSE [screen EXCEPT !.phase = "fail", !.error = TRUE]
      BY <1>2 DEF SubmitDone, SubmitFailed
    <2>2. /\ CallsInv(TransferOrders)' /\ presses' = presses /\ executed' = executed
          /\ p.heard /\ p.state = state /\ posts' = posts \ {p}
      BY <2>1, HearKeeps DEF IInv
    <2>3. UNCHANGED <<client, forms, asking>>
      BY <1>2 DEF SubmitDone, SubmitFailed
    <2>4. /\ screen' \in Screens /\ screen'.page = "review" /\ screen'.kind = screen.kind
          /\ screen'.phase = IF state = "ok" THEN "success" ELSE "fail"
          /\ screen'.data = screen.data /\ screen'.quote = screen.quote
      BY <1>1, <2>1 DEF Screens, MobilePhases
    <2>5. PagesInv' /\ Reviewing'
      BY <1>1, <2>4 DEF PagesInv, MobilePhases, Reviewing
    <2> QED BY <2>2, <2>3, <2>4, <2>5, HeardStep
  <1>3. CASE GoBack
    <2>1. /\ screen' = [screen EXCEPT !.page = "form", !.phase = "edit", !.quote = 0, !.error = FALSE]
          /\ Leave /\ UNCHANGED <<client, forms, asking>>
      BY <1>3 DEF GoBack
    <2>2. /\ screen' \in Screens /\ screen'.page = "form" /\ screen'.kind = screen.kind
          /\ screen'.phase = "edit"
      BY <1>1, <2>1 DEF Screens, MobilePhases
    <2>3. PagesInv'
      BY <1>1, <2>2 DEF PagesInv, MobilePhases
    <2> QED BY <2>1, <2>2, <2>3, LeaveStep
  <1>4. CASE GoToRoot
    <2>1. screen' = Closed /\ Leave /\ asking' = {} /\ UNCHANGED <<client, forms>>
      BY <1>4 DEF GoToRoot, LeaveQuotes
    <2>2. /\ screen' \in Screens /\ screen'.page = "closed" /\ screen'.phase = "none"
          /\ screen'.kind = "none"
      BY <2>1 DEF Closed, Screen, Screens, WebPhases
    <2>3. PagesInv'
      BY <2>2 DEF PagesInv, MobilePhases
    <2> QED BY <2>1, <2>2, <2>3, LeaveStep
  <1> QED BY <1>2, <1>3, <1>4 DEF ReviewAnswers

\* The mobile app keeps the invariant.
LEMMA MobileKeeps == ASSUME IInv, MobileStep PROVE IInv'
  <1>1. client = "mobile" /\ client' = client /\ MobileNext
    BY DEF MobileStep
  <1>2. CASE MobileDeposit
    <2>1. screen.page = "form" /\ screen.kind = "deposit"
      BY <1>2 DEF MobileDeposit, OnForm
    <2> QED BY <1>1, <1>2, <2>1, MobileFormTypes, MobileForm DEF MobileDeposit
  <1>3. CASE MobileWithdraw
    <2>1. screen.page = "form" /\ screen.kind = "withdraw"
      BY <1>3 DEF MobileWithdraw, OnForm
    <2> QED BY <1>1, <1>3, <2>1, MobileFormTypes, MobileForm DEF MobileWithdraw
  <1>4. CASE MobileConvert
    <2>1. screen.page = "form" /\ screen.kind = "convert"
      BY <1>4 DEF MobileConvert, OnForm
    <2> QED BY <1>1, <1>4, <2>1, MobileFormTypes, MobileForm DEF MobileConvert
  <1>5. CASE MobileDepositReview \/ MobileWithdrawReview \/ MobileConvertReview
    <2>1. screen.page = "review"
      BY <1>5 DEF MobileDepositReview, MobileWithdrawReview, MobileConvertReview, OnReview
    <2>2. screen.kind = "convert" => forms[screen.data].method = NoMethod
      BY <2>1, ReviewedType DEF Reviewing
    <2>3. \/ HandleSubmit(forms[screen.data].method)
          \/ ReviewAnswers \/ GoBack \/ GoToRoot
      BY <1>5, <2>2 DEF MobileDepositReview, MobileWithdrawReview, MobileConvertReview, OnReview
    <2> QED BY <1>1, <2>1, <2>3, MobileSubmit, MobileReview
  <1>6. CASE LeaveScreen
    <2>1. /\ screen' \in {Screen("menu", "none", "none"), Closed}
          /\ Leave /\ asking' = {} /\ UNCHANGED <<client, forms>>
      BY <1>1, <1>6 DEF LeaveScreen, LeaveQuotes
    <2>2. /\ screen' \in Screens /\ screen'.page \in {"menu", "closed"} /\ screen'.phase = "none"
          /\ screen'.kind = "none"
      <3>1. CASE screen' = Screen("menu", "none", "none")
        BY <3>1 DEF Screen, Screens, WebPhases
      <3>2. CASE screen' = Closed
        BY <3>2 DEF Closed, Screen, Screens, WebPhases
      <3> QED BY <2>1, <3>1, <3>2
    <2>3. PagesInv'
      BY <1>1, <2>2 DEF PagesInv, MobilePhases
    <2> QED BY <2>1, <2>2, <2>3, LeaveStep
  <1>7. CASE OpenTransferScreen \/ TransferScreen
    <2>1. /\ UNCHANGED <<client, forms, asking, posts, presses, executed>>
          /\ screen.page \in {"closed", "menu"}
          /\ \/ screen' = Screen("menu", "none", "none")
             \/ \E kind \in Kinds : screen' = Screen("form", kind, "edit")
      BY <1>1, <1>7 DEF OpenTransferScreen, TransferScreen, quotes, calls, Closed, Screen
    <2>2. /\ screen' \in Screens /\ screen'.page # "review" /\ screen'.phase \in {"none", "edit"}
          /\ PagesInv'
      <3>1. CASE screen' = Screen("menu", "none", "none")
        <4>1. /\ screen' \in Screens /\ screen'.page = "menu" /\ screen'.phase = "none"
              /\ screen'.kind = "none"
          BY <3>1 DEF Screen, Screens, WebPhases
        <4> QED BY <1>1, <4>1 DEF PagesInv, MobilePhases
      <3>2. ASSUME NEW kind \in Kinds, screen' = Screen("form", kind, "edit")
            PROVE  screen' \in Screens /\ screen'.page = "form" /\ screen'.phase = "edit" /\ PagesInv'
        <4>1. /\ screen' \in Screens /\ screen'.page = "form" /\ screen'.phase = "edit"
              /\ screen'.kind = kind
          BY <3>2 DEF Screen, Screens, MobilePhases
        <4> QED BY <1>1, <4>1 DEF PagesInv, MobilePhases
      <3> QED BY <2>1, <3>1, <3>2 DEF Screen
    <2>3. \A p \in posts : ~p.heard
      BY <1>1, <2>1, HeardIsLatest DEF Reviewing
    <2>4. CallsInv(TransferOrders)'
      BY <2>1 DEF IInv, CallsInv, CallsMade
    <2> QED BY <2>1, <2>2, <2>3, <2>4, EmptyStep
  <1> QED BY <1>1, <1>2, <1>3, <1>4, <1>5, <1>6, <1>7 DEF MobileNext

-----------------------------------------------------------------------------
(* The theorems.                                                           *)

\* So does every step.
LEMMA NextKeeps == ASSUME IInv, [Next]_vars PROVE IInv'
  <1>1. CASE UNCHANGED vars
    <2>1. /\ UNCHANGED <<client, screen, forms, asking, posts, presses, executed>>
      BY <1>1 DEF vars
    <2> QED BY <2>1, SameStep DEF IInv, TypeOK
  <1> QED BY <1>1, WebKeeps, MobileKeeps, BackendKeeps DEF Next

\* The inductive invariant holds in every state, for every value of the constants.
THEOREM InvariantHolds == Spec => []IInv
  <1>1. IInv /\ [Next]_vars => IInv'
    BY NextKeeps
  <1> QED BY Initially, <1>1, PTL DEF Spec

\* What a review displays and executes is the quote for the latest submission.
THEOREM Latest == Spec => []ReviewIsLatest
  <1>1. IInv => ReviewIsLatest
    BY DEF IInv, LatestInv
  <1> QED BY InvariantHolds, <1>1, PTL

\* An order is not sent again before its last call was answered, and never by the web.
THEOREM OneCall == Spec => []OneAtATime
  <1>1. IInv => OneAtATime
    BY DEF IInv
  <1> QED BY InvariantHolds, <1>1, PTL

\* Success is displayed only for an order that the backend carried out.
THEOREM SuccessReal == Spec => []SuccessIsReal
  <1>1. IInv => SuccessIsReal
    BY DEF IInv
  <1> QED BY InvariantHolds, <1>1, PTL

-----------------------------------------------------------------------------
(* The refinement of Consent.                                              *)

\* At first nothing is on display, pressed or carried out.
LEMMA ConsentInitially == Init => C!ConsentInit
  BY DEF Init, C!ConsentInit, Shown, Reviewing, ShowReview, Closed, Screen, CallsInit

\* What is on display can be ordered.
LEMMA ShownType == IInv => Shown \subseteq TransferOrders
  BY ReviewedType DEF Shown

\* Pressing the button of a review confirms what is on display.
LEMMA ConfirmStep ==
  ASSUME IInv, Reviewing, Call(Reviewed), Reviewing', Reviewed' = Reviewed
  PROVE  C!ConsentNext
  <1>1. PICK o \in TransferOrders : o = Reviewed
    BY ReviewedType
  <1>2. presses' = [presses EXCEPT ![o] = @ + 1] /\ executed' = executed
    BY <1>1 DEF Call
  <1>3. o \in Shown /\ Shown' = Shown
    BY <1>1 DEF Shown
  <1> QED BY <1>2, <1>3 DEF C!ConsentNext, C!Confirm

\* Every step shows something else, is a confirmation of what is on display or carries
\* out what was confirmed.
LEMMA ConsentStep ==
  ASSUME IInv, (Shown \subseteq TransferOrders)', [Next]_vars
  PROVE  [C!ConsentNext]_<<Shown, presses, executed>>
  <1> USE DEF calls, quotes
  <1>1. CASE UNCHANGED <<presses, executed>>
    BY <1>1 DEF C!ConsentNext, C!Show
  <1>2. ASSUME client = "web", screen.page = "dialog", Execute(forms[screen.data].method)
        PROVE  C!ConsentNext
    <2>1. screen \in Screens /\ screen.kind \in Kinds /\ screen.phase = "review" /\ Reviewing
      BY <1>2 DEF IInv, TypeOK, PagesInv, Execute, Reviewing, ShowReview
    <2>2. Call(Reviewed) /\ Dispatch("executing", 0) /\ UNCHANGED forms
      BY <1>2 DEF Execute, ExecuteQuote, Reviewed
    <2>3. /\ screen'.page = screen.page /\ screen'.phase = "executing"
          /\ screen'.data = screen.data /\ screen'.quote = screen.quote
      BY <2>1, <2>2, DispatchEffect
    <2>4. Reviewing' /\ Reviewed' = Reviewed
      BY <1>2, <2>2, <2>3 DEF Reviewing, ShowReview, Reviewed
    <2> QED BY <2>1, <2>2, <2>4, ConfirmStep
  <1>3. ASSUME client = "mobile", screen.page = "review", HandleSubmit(forms[screen.data].method)
        PROVE  C!ConsentNext
    <2>1. screen \in Screens /\ Reviewing
      BY <1>3 DEF IInv, TypeOK, Reviewing
    <2>2. Call(Reviewed) /\ screen' = [screen EXCEPT !.phase = "sending"] /\ UNCHANGED forms
      BY <1>3 DEF HandleSubmit, ExecuteQuote, Reviewed
    <2>3. Reviewing' /\ Reviewed' = Reviewed
      BY <1>3, <2>1, <2>2 DEF Screens, Reviewing, Reviewed
    <2> QED BY <2>1, <2>2, <2>3, ConfirmStep
  <1>4. CASE WebStep
    <2>1. CASE /\ Dialog /\ ShowReview
               /\ \/ screen.kind = "deposit" /\ DepositReview
                  \/ screen.kind = "withdraw" /\ WithdrawReview
                  \/ screen.kind = "convert" /\ ConvertReview
      <3>1. client = "web" /\ screen.page = "dialog"
        BY <1>4, <2>1 DEF WebStep, Dialog
      <3>2. screen.kind = "convert" => forms[screen.data].method = NoMethod
        BY <2>1, <3>1, ReviewedType DEF Reviewing
      <3>3. Execute(forms[screen.data].method) \/ Back
        BY <2>1, <3>2 DEF DepositReview, WithdrawReview, ConvertReview
      <3>4. CASE Back
        BY <1>1, <3>4 DEF Back
      <3> QED BY <1>2, <3>1, <3>3, <3>4
    <2>2. CASE Dialog /\ \E method, rfq : Submit(method, rfq)
      BY <1>1, <2>2 DEF Submit
    <2>3. CASE Answers
      BY <1>1, <2>3 DEF Answers, QuoteAnswered, QuoteFailed, Executed, ExecuteFailed, Hear
    <2>4. CASE OpenTransfer \/ TransferModal \/ Close
      BY <1>1, <2>4 DEF OpenTransfer, TransferModal, Close, LeaveQuotes, Leave, Unhear
    <2> QED BY <1>4, <2>1, <2>2, <2>3, <2>4 DEF WebStep, WebNext, Deposit, Withdraw, Convert
  <1>5. CASE MobileStep
    <2>1. CASE MobileDepositReview \/ MobileWithdrawReview \/ MobileConvertReview
      <3>1. screen.page = "review" /\ client = "mobile"
        BY <1>5, <2>1
           DEF MobileStep, MobileDepositReview, MobileWithdrawReview, MobileConvertReview, OnReview
      <3>2. screen.kind = "convert" => forms[screen.data].method = NoMethod
        BY <3>1, ReviewedType DEF Reviewing
      <3>3. HandleSubmit(forms[screen.data].method) \/ ReviewAnswers \/ GoBack \/ GoToRoot
        BY <2>1, <3>2 DEF MobileDepositReview, MobileWithdrawReview, MobileConvertReview, OnReview
      <3>4. CASE ReviewAnswers \/ GoBack \/ GoToRoot
        BY <1>1, <3>4
           DEF ReviewAnswers, SubmitDone, SubmitFailed, Hear, GoBack, GoToRoot, LeaveQuotes, Leave, Unhear
      <3> QED BY <1>3, <3>1, <3>3, <3>4
    <2>2. CASE \E method, rfq : SubmitForm(method, rfq)
      BY <1>1, <2>2 DEF SubmitForm
    <2>3. CASE FormAnswers
      BY <1>1, <2>3 DEF FormAnswers, PushReview, FormFailed
    <2>4. CASE OpenTransferScreen \/ TransferScreen \/ LeaveScreen
      BY <1>1, <2>4 DEF OpenTransferScreen, TransferScreen, LeaveScreen, LeaveQuotes, Leave, Unhear
    <2> QED BY <1>5, <2>1, <2>2, <2>3, <2>4
            DEF MobileStep, MobileNext, MobileDeposit, MobileWithdraw, MobileConvert
  <1>6. CASE BackendStep
    <2>1. PICK p \in posts : Serve(p) \/ Refuse(p)
      BY <1>6 DEF BackendStep, Backend
    <2>2. CASE Serve(p)
      <3>1. /\ presses' = presses /\ p.order \in TransferOrders /\ p.no \in 1..presses[p.order]
            /\ Press(p.order, p.no) \notin executed
            /\ executed' = executed \cup {Press(p.order, p.no)}
        BY <2>2, ServeKeeps DEF IInv
      <3>2. Shown' = Shown
        BY <1>6 DEF BackendStep, Shown, Reviewing, ShowReview, Reviewed
      <3>3. C!Press(p.order, p.no) = Press(p.order, p.no)
        BY DEF C!Press, Press
      <3>4. C!Execute(p.order, p.no)
        BY <3>1, <3>2, <3>3 DEF C!Execute
      <3> QED BY <3>1, <3>4 DEF C!ConsentNext
    <2>3. CASE Refuse(p)
      BY <1>1, <2>3 DEF Refuse
    <2> QED BY <2>1, <2>2, <2>3
  <1>7. CASE UNCHANGED vars
    BY <1>1, <1>7 DEF vars
  <1> QED BY <1>4, <1>5, <1>6, <1>7 DEF Next

\* Quotes are executed only as displayed when the user confirmed, once for every confirmation.
THEOREM Implements == Spec => ImplementsConsent
  <1>1. IInv /\ (Shown \subseteq TransferOrders)' /\ [Next]_vars
          => [C!ConsentNext]_<<Shown, presses, executed>>
    BY ConsentStep
  <1> QED BY InvariantHolds, ShownType, ConsentInitially, <1>1, PTL
          DEF Spec, ImplementsConsent, C!ConsentSpec
=============================================================================
