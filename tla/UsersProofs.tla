------------------------------ MODULE UsersProofs ------------------------------
(***************************************************************************)
(* What is proved of the users' side of the clients, for all people,       *)
(* bounds and filters.                                                     *)
(*                                                                         *)
(* Sessions of either client: IInv is inductive, so that what is displayed *)
(* belongs to the token or came late; a token that is good is dropped by   *)
(* none but those who may; and what is submitted as an identity is         *)
(* complete.                                                               *)
(*                                                                         *)
(* Decisions: DecisionsInv is inductive, so that success is displayed only *)
(* for what was carried out, what is decided once stays decided, and       *)
(* Decisions implements Consent.                                           *)
(***************************************************************************)
EXTENDS Sessions, Decisions, ClientProofs

USE UsersAssumption

-----------------------------------------------------------------------------
(* The identity form.                                                      *)

\* A form that got past a step has what the step puts into it.
Complete(w) ==
    /\ w \in [step : 1..5, info : SUBSET Info]
    /\ w.step > 1 => "identity" \in w.info
    /\ w.step > 2 => "country" \in w.info
    /\ w.step > 3 => "address" \in w.info

Steps == <<{"identity"}, {"country"}, {"address"}, {}>>

\* However the user moves.
LEMMA MovesComplete ==
  ASSUME NEW offered, NEW w, Complete(w), NEW m \in Moves(w, Steps, offered)
  PROVE  Complete(m)
  <1>1. /\ w.step \in 1..5 /\ w.info \subseteq Info /\ w = [step |-> w.step, info |-> w.info]
    BY DEF Complete
  <1>2. /\ Steps[1] = {"identity"} /\ Steps[2] = {"country"} /\ Steps[3] = {"address"}
        /\ Steps[4] = {} /\ DOMAIN Steps = 1..4
    BY DEF Steps
  <1>3. CASE w.step \in DOMAIN Steps /\ m = NextStep(w, Steps)
    <2>1. m = [step |-> w.step + 1, info |-> w.info \cup Steps[w.step]]
      BY <1>3 DEF NextStep
    <2>2. w.step \in {1, 2, 3, 4}
      BY <1>2, <1>3
    <2>3. m \in [step : 1..5, info : SUBSET Info]
      BY <1>1, <1>2, <2>1, <2>2 DEF Info
    <2> QED BY <1>1, <1>2, <2>1, <2>2, <2>3 DEF Complete
  <1>4. CASE w.step > 1 /\ m = PrevStep(w)
    BY <1>1, <1>4 DEF PrevStep, Complete
  <1>5. CASE m = DummyIdentity(w)
    BY <1>1, <1>5 DEF DummyIdentity, Complete, Info
  <1> QED BY <1>3, <1>4, <1>5 DEF Moves

\* The forms after n moves are defined: the recursion ends.
LEMMA SubmissionsDefined ==
  ASSUME NEW offered
  PROVE  \E F : /\ F[0] = {FirstStep}
                /\ \A n \in 1..MaxMoves :
                      F[n] = F[n - 1] \cup UNION {Moves(w, Steps, offered) : w \in F[n - 1]}
                /\ Submissions(Steps, offered)
                      = {w.info : w \in {v \in F[MaxMoves] : v.step = Len(Steps) + 1}}
  <1> DEFINE After(S) == S \cup UNION {Moves(w, Steps, offered) : w \in S}
             Def(F) == F = [n \in 0..MaxMoves |-> IF n = 0 THEN {FirstStep} ELSE After(F[n - 1])]
             G == CHOOSE F : Def(F)
  <1>1. \E F : Def(F)
    <2> HIDE DEF After
    <2>1. PICK g0, g1, g2, g3, g4 :
             g0 = {FirstStep} /\ g1 = After(g0) /\ g2 = After(g1) /\ g3 = After(g2) /\ g4 = After(g3)
      OBVIOUS
    <2>2. PICK g5, g6, g7, g8, g9 :
             g5 = After(g4) /\ g6 = After(g5) /\ g7 = After(g6) /\ g8 = After(g7) /\ g9 = After(g8)
      OBVIOUS
    <2>3. PICK F : F = [n \in 0..9 |->
             IF n = 0 THEN g0 ELSE IF n = 1 THEN g1 ELSE IF n = 2 THEN g2 ELSE IF n = 3 THEN g3
             ELSE IF n = 4 THEN g4 ELSE IF n = 5 THEN g5 ELSE IF n = 6 THEN g6
             ELSE IF n = 7 THEN g7 ELSE IF n = 8 THEN g8 ELSE g9]
      OBVIOUS
    <2>4. \A n \in 0..9 : F[n] = IF n = 0 THEN {FirstStep} ELSE After(F[n - 1])
      <3>1. /\ F[0] = g0 /\ F[1] = g1 /\ F[2] = g2 /\ F[3] = g3 /\ F[4] = g4
            /\ F[5] = g5 /\ F[6] = g6 /\ F[7] = g7 /\ F[8] = g8 /\ F[9] = g9
        BY <2>3
      <3> QED BY <2>1, <2>2, <3>1
    <2>5. F = [n \in 0..9 |-> IF n = 0 THEN {FirstStep} ELSE After(F[n - 1])]
      BY <2>3, <2>4
    <2> QED BY <2>5 DEF MaxMoves
  <1>2. Def(G)
    BY <1>1
  <1>3. Submissions(Steps, offered) = {w.info : w \in {v \in G[MaxMoves] : v.step = Len(Steps) + 1}}
    BY DEF Submissions
  <1>4. G[0] = {FirstStep} /\ \A n \in 1..MaxMoves : G[n] = After(G[n - 1])
    <2> HIDE DEF After, G
    <2> QED BY <1>2 DEF MaxMoves
  <1> QED BY <1>3, <1>4

\* What either client submits is complete.
LEMMA FormsComplete ==
  ASSUME NEW offered, NEW info \in Submissions(Steps, offered)
  PROVE  info = Info
  <1>1. PICK F : /\ F[0] = {FirstStep}
                 /\ \A n \in 1..MaxMoves :
                      F[n] = F[n - 1] \cup UNION {Moves(w, Steps, offered) : w \in F[n - 1]}
                 /\ Submissions(Steps, offered)
                      = {w.info : w \in {v \in F[MaxMoves] : v.step = Len(Steps) + 1}}
    BY SubmissionsDefined
  <1> DEFINE All(S) == \A w \in S : Complete(w)
  <1>2. All(F[0])
    BY <1>1 DEF FirstStep, Complete, Info
  <1>3. ASSUME NEW n \in 1..9, All(F[n - 1]) PROVE All(F[n])
    <2>1. F[n] = F[n - 1] \cup UNION {Moves(w, Steps, offered) : w \in F[n - 1]}
      BY <1>1 DEF MaxMoves
    <2> QED BY <1>3, <2>1, MovesComplete
  <1>4. All(F[9])
    <2> HIDE DEF All
    <2>1. All(F[1]) /\ All(F[2]) /\ All(F[3])
      BY <1>2, <1>3
    <2>2. All(F[4]) /\ All(F[5]) /\ All(F[6])
      BY <2>1, <1>3
    <2> QED BY <2>2, <1>3
  <1>5. PICK w \in F[9] : w.step = 5 /\ w.info = info
    BY <1>1 DEF MaxMoves, Steps
  <1> QED BY <1>4, <1>5 DEF Complete, Info

\* The five steps of the web application.
LEMMA WebFormsComplete == ASSUME NEW info \in WebForms PROVE info = Info
  BY FormsComplete
     DEF WebForms, Step5DefaultCurrency, Steps, Step1Identity, Step2Country, Step3Address, Step4Document

\* The five screens of the mobile app.
LEMMA MobileFormsComplete == ASSUME NEW info \in MobileForms PROVE info = Info
  BY FormsComplete
     DEF MobileForms, MobileStep5DefaultCurrency, Steps, MobileStep1Identity, MobileStep2Country,
         MobileStep3Address, MobileStep4Document

-----------------------------------------------------------------------------
(* Calls.                                                                  *)

\* Fewer calls.
LEMMA OpsFewer ==
  ASSUME NEW P, NEW Q \in SUBSET P, NEW s, NEW n, GoodOps(P, s, n)
  PROVE  GoodOps(Q, s, n)
  BY DEF GoodOps

\* A screen is left.
LEMMA OpsLeft ==
  ASSUME NEW P, NEW names, NEW s, NEW n, GoodOps(P, s, n)
  PROVE  GoodOps(LeftOps(P, names), s, n)
  <1> DEFINE Left(p) == IF p.at \in names THEN [p EXCEPT !.at = "left"] ELSE p
  <1>1. ASSUME NEW p \in P PROVE GoodOp(Left(p), s, n) /\ Left(p).no = p.no
    <2>1. GoodOp(p, s, n)
      BY DEF GoodOps
    <2>2. /\ Left(p) \in Ops /\ Left(p).no = p.no /\ Left(p).as = p.as /\ Left(p).base = p.base
          /\ Left(p).kind = p.kind /\ Left(p).state = p.state /\ Left(p).arg = p.arg
          /\ Left(p).info = p.info /\ Left(p).user = p.user
      BY <2>1 DEF GoodOp, Ops, Places
    <2> HIDE DEF Left
    <2> QED BY <2>1, <2>2 DEF GoodOp
  <1>2. LeftOps(P, names) = {Left(p) : p \in P}
    BY DEF LeftOps
  <1> HIDE DEF Left
  <1> QED BY <1>1, <1>2 DEF GoodOps

\* A session is opened.
LEMMA OpsOpened ==
  ASSUME NEW P, NEW s \in Seq(People), NEW u \in People, NEW n, GoodOps(P, s, n)
  PROVE  GoodOps(P, Append(s, u), n)
  <1>1. /\ Len(Append(s, u)) = Len(s) + 1 /\ Len(s) \in Nat /\ DOMAIN s = 1..Len(s)
        /\ DOMAIN Append(s, u) = 1..(Len(s) + 1) /\ \A i \in DOMAIN s : Append(s, u)[i] = s[i]
    OBVIOUS
  <1>2. ASSUME NEW p \in P PROVE GoodOp(p, Append(s, u), n)
    BY <1>1 DEF GoodOps, GoodOp, Own
  <1> QED BY <1>2 DEF GoodOps

\* A call changes, or one without a number is added.
LEMMA OpsChanged ==
  ASSUME NEW P, NEW p \in P, NEW q, NEW s, NEW n,
         GoodOps(P, s, n), GoodOp(q, s, n), q.no = p.no
  PROVE  GoodOps((P \ {p}) \cup {q}, s, n)
  BY DEF GoodOps, GoodOp

\* A call without a number is added.
LEMMA OpsAdded ==
  ASSUME NEW P, NEW q, NEW s, NEW n, GoodOps(P, s, n), GoodOp(q, s, n), q.no = 0
  PROVE  GoodOps(P \cup {q}, s, n)
  BY DEF GoodOps, GoodOp

\* A call is made.
LEMMA OpsMade ==
  ASSUME NEW P, NEW q, NEW s, NEW n \in Nat,
         GoodOps(P, s, n), GoodOp(q, s, n + 1), q.no = n + 1
  PROVE  GoodOps(P \cup {q}, s, n + 1)
  <1>1. \A p \in P : GoodOp(p, s, n + 1) /\ p.no \in 0..n
    BY DEF GoodOps, GoodOp
  <1> QED BY <1>1 DEF GoodOps

-----------------------------------------------------------------------------
(* Reads.                                                                  *)

\* Reads that are not answered yet.
LEMMA ReadsBegin ==
  ASSUME IInv
  PROVE  /\ GoodRead(NoRead, sessions, valid) /\ GoodRead(DueRead, sessions, valid)
         /\ GoodRead(EndedRead, sessions, valid) /\ GoodRead(AskedRead, sessions, valid)
         /\ Unknown \in Copies
  <1>1. token \in 0..Len(sessions) /\ Len(sessions) \in Nat /\ Unknown \in Copies
    BY DEF IInv, TypeOK, Unknown, Copies, Prefs
  <1>2. ASSUME NEW state \in {"none", "due", "sent", "ended"}, NEW t \in 0..Len(sessions)
        PROVE  GoodRead([state |-> state, as |-> t, copy |-> Unknown], sessions, valid)
    BY <1>1, <1>2 DEF GoodRead, ReadsOf
  <1>3. /\ NoRead = [state |-> "none", as |-> 0, copy |-> Unknown]
        /\ DueRead = [state |-> "due", as |-> 0, copy |-> Unknown]
        /\ EndedRead = [state |-> "ended", as |-> 0, copy |-> Unknown]
        /\ AskedRead = [state |-> "sent", as |-> token, copy |-> Unknown]
    <2>1. NoRead = [state |-> "none", as |-> 0, copy |-> Unknown]
      BY DEF NoRead, NoToken
    <2> QED BY <2>1 DEF DueRead, EndedRead, AskedRead
  <1> QED BY <1>1, <1>2, <1>3

\* A copy of a user.
LEMMA CopyType ==
  ASSUME IInv, NEW t \in valid, NEW late \in BOOLEAN
  PROVE  Copy(sessions[t], late) \in Copies /\ Copy(sessions[t], late).of = sessions[t]
  <1>1. sessions[t] \in People
    BY DEF IInv, TypeOK
  <1>2. server[sessions[t]] \in [verified : BOOLEAN, prefs : Prefs]
    BY <1>1 DEF IInv, TypeOK
  <1> QED BY <1>1, <1>2 DEF Copy, Copies

\* The answers to a read that was asked.
LEMMA ReadsAnswered ==
  ASSUME IInv, NEW r, GoodRead(r, sessions, valid), NEW q \in Answers(r) \cup {LostRead(r)}
  PROVE  GoodRead(q, sessions, valid)
  <1>1. r \in ReadsOf /\ r.as \in 0..Len(sessions)
    BY DEF GoodRead
  <1>2. CASE q = LostRead(r)
    BY <1>1, <1>2 DEF LostRead, GoodRead, ReadsOf
  <1>3. CASE r.as \in valid /\ q = [r EXCEPT !.state = "ok", !.copy = Copy(sessions[r.as], FALSE)]
    <2>1. Copy(sessions[r.as], FALSE) \in Copies /\ Copy(sessions[r.as], FALSE).of = sessions[r.as]
      BY <1>3, CopyType
    <2>2. r.as \in DOMAIN sessions
      BY <1>3 DEF IInv, TypeOK
    <2> QED BY <1>1, <1>3, <2>1, <2>2 DEF GoodRead, ReadsOf
  <1>4. CASE r.as \notin valid /\ q = [r EXCEPT !.state = "refused"]
    BY <1>1, <1>4 DEF GoodRead, ReadsOf
  <1> QED BY <1>2, <1>3, <1>4 DEF Answers

\* What a read displays belongs to the token, or is late.
LEMMA FreshOwn ==
  ASSUME IInv, NEW r, GoodRead(r, sessions, valid), r.state = "ok"
  PROVE  Fresh(r) \in Copies /\ Own(Fresh(r), token, sessions)
  <1>1. r.copy \in Copies /\ r.as \in DOMAIN sessions /\ r.copy.of = sessions[r.as]
    BY DEF GoodRead, ReadsOf
  <1>2. /\ Fresh(r) \in Copies /\ Fresh(r).of = r.copy.of
        /\ Fresh(r).late <=> r.as # token
    BY <1>1 DEF Fresh, Copies
  <1> QED BY <1>1, <1>2 DEF Own

\* Tokens come and go: no token is given out twice.
LEMMA ReadsOpened ==
  ASSUME NEW s \in Seq(People), NEW u \in People, NEW v, NEW r, GoodRead(r, s, v)
  PROVE  GoodRead(r, Append(s, u), v \cup {Len(s) + 1})
  <1>1. /\ Len(Append(s, u)) = Len(s) + 1 /\ Len(s) \in Nat /\ DOMAIN s = 1..Len(s)
        /\ DOMAIN Append(s, u) = 1..(Len(s) + 1) /\ \A i \in DOMAIN s : Append(s, u)[i] = s[i]
    OBVIOUS
  <1> QED BY <1>1 DEF GoodRead

\* A token that is refused from now on.
LEMMA ReadsClosed ==
  ASSUME NEW s, NEW v, NEW t, NEW r, GoodRead(r, s, v)
  PROVE  GoodRead(r, s, v \ {t})
  BY DEF GoodRead

-----------------------------------------------------------------------------
(* The web application.                                                    *)

\* What a page displays next.
LEMMA DisplayKeeps ==
  ASSUME IInv, Idle, UNCHANGED <<kind, mobile>>,
         NEW c \in Copies, NEW t \in 0..Len(sessions), NEW p \in Places, NEW rest,
         Display(c, t, p, rest), client = "web" => Own(c, t, sessions), GoodOps(rest, sessions, made),
         GoodRead(refresh', sessions, valid), client = "web"
  PROVE  IInv'
  <1>1. /\ settings' = c /\ token' = t /\ page' = Landed(p, c, t)
        /\ ops' = LeftOps(rest, {page} \ {page'}) \cup DemoOps(page', c, t, settings)
        /\ UNCHANGED <<server, sessions, valid, made, failures, client, part, stack, leaked>>
    BY DEF Display, Idle, kind, mobile
  <1>2. page' \in Places
    BY <1>1 DEF Landed, Routed, Places, LoggedOutPages
  <1>3. GoodOps(ops', sessions, made)
    <2> DEFINE q == [Op("verify", Nobody, "left", 0, Info, Unknown) EXCEPT !.no = 0, !.as = t]
    <2>1. GoodOps(LeftOps(rest, {page} \ {page'}), sessions, made)
      BY OpsLeft
    <2>2. q = [no |-> 0, kind |-> "verify", user |-> Nobody, at |-> "left", as |-> t, arg |-> 0,
               info |-> Info, base |-> Unknown, state |-> "sent"]
      <3>1. PICK o : o = Op("verify", Nobody, "left", 0, Info, Unknown)
        OBVIOUS
      <3>2. o = [no |-> made + 1, kind |-> "verify", user |-> Nobody, at |-> "left", as |-> token,
                 arg |-> 0, info |-> Info, base |-> Unknown, state |-> "sent"]
        BY <3>1 DEF Op
      <3>3. [o EXCEPT !.no = 0]
              = [no |-> 0, kind |-> "verify", user |-> Nobody, at |-> "left", as |-> token, arg |-> 0,
                 info |-> Info, base |-> Unknown, state |-> "sent"]
        BY <3>2
      <3>4. PICK z : z = [o EXCEPT !.no = 0]
        OBVIOUS
      <3>5. q = [z EXCEPT !.as = t]
        BY <3>1, <3>4, Zenon
      <3> HIDE DEF q
      <3> QED BY <3>3, <3>4, <3>5
    <2>3. GoodOp(q, sessions, made) /\ q.no = 0
      <3>1. Unknown \in Copies /\ Unknown.of = Nobody /\ made \in Nat /\ Len(sessions) \in Nat
        BY ReadsBegin DEF Unknown, IInv, TypeOK
      <3>2. q \in Ops
        <4> HIDE DEF q
        <4> QED BY <2>2, <3>1 DEF Ops, Places, Info
      <3> HIDE DEF q
      <3> QED BY <2>2, <3>1, <3>2 DEF GoodOp, Own
    <2>4. DemoOps(page', c, t, settings) \subseteq {q}
      BY DEF DemoOps
    <2>5. ops' = LeftOps(rest, {page} \ {page'}) \/ ops' = LeftOps(rest, {page} \ {page'}) \cup {q}
      BY <1>1, <2>4
    <2>6. ASSUME NEW P, GoodOps(P, sessions, made) PROVE GoodOps(P \cup {q}, sessions, made)
      <3> HIDE DEF q
      <3> QED BY <2>3, <2>6, OpsAdded
    <2> QED BY <2>1, <2>5, <2>6
  <1>4. TypeOK'
    BY <1>1, <1>2 DEF IInv, TypeOK
  <1>5. ShownInv' /\ ReadsInv'
    BY <1>1 DEF IInv, ShownInv, ReadsInv
  <1> QED BY <1>1, <1>3, <1>4, <1>5 DEF IInv

\* A call that somebody makes.
LEMMA OpGood ==
  ASSUME IInv, NEW what \in {"signin", "signout", "save", "verify"}, NEW u \in People \cup {Nobody}, what = "signin" => u \in People,
         NEW at \in Places, NEW arg \in Nat, what = "save" => arg \in Prefs,
         NEW info \in SUBSET Info, what = "verify" => info = Info,
         NEW base \in Copies, Own(base, token, sessions)
  PROVE  /\ GoodOp(Op(what, u, at, arg, info, base), sessions, made + 1)
         /\ Op(what, u, at, arg, info, base).no = made + 1
  <1>1. made \in Nat /\ token \in 0..Len(sessions) /\ Len(sessions) \in Nat
    BY DEF IInv, TypeOK
  <1>2. PICK q : q = Op(what, u, at, arg, info, base)
    OBVIOUS
  <1>3. q = [no |-> made + 1, kind |-> what, user |-> u, at |-> at, as |-> token, arg |-> arg,
             info |-> info, base |-> base, state |-> "sent"]
    BY <1>2 DEF Op
  <1>4. q \in Ops
    BY <1>1, <1>3 DEF Ops
  <1> QED BY <1>1, <1>2, <1>3, <1>4 DEF GoodOp

\* A call with the next number is made, and nothing else changes.
LEMMA MakeKeeps ==
  ASSUME IInv, NEW op, GoodOp(op, sessions, made + 1), op.no = made + 1, Make(op),
         UNCHANGED <<kind, web, mobile>>
  PROVE  IInv'
  <1>1. /\ made' = made + 1 /\ ops' = ops \cup {op} /\ made \in Nat
        /\ UNCHANGED <<server, sessions, valid, token, failures, client, part, settings, page, refresh,
                       naming, stack, leaked>>
    BY DEF Make, kind, web, mobile, IInv, TypeOK
  <1>2. GoodOps(ops', sessions, made')
    BY <1>1, OpsMade DEF IInv
  <1>3. TypeOK'
    BY <1>1 DEF IInv, TypeOK
  <1> QED BY <1>1, <1>2, <1>3 DEF IInv, ShownInv, ReadsInv

\* The loop that reads the user, while nothing is displayed.
LEMMA RefreshKeeps ==
  ASSUME IInv, UNCHANGED <<kind, mobile, settings, page, naming, server, sessions, valid, token, ops, made>>,
         failures' \in {failures, failures + 1}, GoodRead(refresh', sessions, valid)
  PROVE  IInv'
  <1>1. UNCHANGED <<client, part, stack, leaked, settings, page, server, sessions, valid, token, ops, made>>
    BY DEF kind, mobile
  <1>2. TypeOK'
    BY <1>1 DEF IInv, TypeOK
  <1> QED BY <1>1, <1>2 DEF IInv, ShownInv, ReadsInv

\* Whoever makes a call in the web application.
LEMMA WebCallKeeps ==
  ASSUME IInv, client = "web", UNCHANGED <<kind, mobile>>,
         \/ \E u \in People : Signin(u) \/ Signup(u)
         \/ \E prefs \in Prefs \ {settings.prefs} : SavePreferences(prefs)
         \/ Submit \/ Logout
  PROVE  IInv'
  <1>1. settings \in Copies /\ Own(settings, token, sessions) /\ page \in Places
    BY DEF IInv, TypeOK, ShownInv
  <1>2. Unknown \in Copies /\ Own(Unknown, token, sessions)
    BY ReadsBegin DEF Unknown, Own
  <1>3. ASSUME NEW u \in People, Signin(u) \/ Signup(u) PROVE IInv'
    <2>1. Make(Op("signin", u, page, 0, {}, Unknown)) /\ UNCHANGED web
      BY <1>3 DEF Signin, Signup, Enter
    <2> QED BY <1>1, <1>2, <2>1, OpGood, MakeKeeps
  <1>4. ASSUME NEW prefs \in Prefs, SavePreferences(prefs) PROVE IInv'
    <2>1. Make(Op("save", Nobody, "settings", prefs, {}, settings)) /\ UNCHANGED web
      BY <1>4 DEF SavePreferences
    <2>2. prefs \in Nat /\ "settings" \in Places
      BY DEF Prefs, Places
    <2> QED BY <1>1, <2>1, <2>2, OpGood, MakeKeeps
  <1>5. CASE Submit
    <2>1. PICK info \in WebForms :
            Make(Op("verify", Nobody, "verify", 0, info, settings)) /\ UNCHANGED web
      BY <1>5 DEF Submit
    <2>2. info = Info /\ "verify" \in Places
      BY WebFormsComplete DEF Places
    <2> QED BY <1>1, <2>1, <2>2, OpGood, MakeKeeps
  <1>6. CASE Logout
    <2>1. Make(Op("signout", Nobody, "settings", 0, {}, settings)) /\ UNCHANGED web
      BY <1>6 DEF Logout
    <2>2. "settings" \in Places
      BY DEF Places
    <2> QED BY <1>1, <2>1, <2>2, OpGood, MakeKeeps
  <1> QED BY <1>3, <1>4, <1>5, <1>6

\* Whatever answer a page hears.
LEMMA WebHearKeeps ==
  ASSUME IInv, client = "web", UNCHANGED <<kind, mobile>>, WebHear
  PROVE  IInv'
  <1>1. PICK p \in ops : SignedIn(p) \/ SignedInUnseen(p) \/ Saved(p) \/ Verified(p) \/ SignedOut(p)
    BY DEF WebHear
  <1>2. /\ Idle /\ refresh' = refresh /\ naming' = naming /\ GoodRead(refresh', sessions, valid)
        /\ settings \in Copies /\ Own(settings, token, sessions) /\ page \in Places
        /\ token \in 0..Len(sessions) /\ DOMAIN sessions = 1..Len(sessions) /\ Len(sessions) \in Nat
    BY DEF WebHear, IInv, TypeOK, ShownInv, ReadsInv
  <1>3. /\ GoodOp(p, sessions, made) /\ GoodOps(ops \ {p}, sessions, made)
        /\ {"home", "verify", "settings"} \subseteq Places
    BY OpsFewer DEF IInv, GoodOps, Places
  <1>4. /\ p \in Ops /\ p.base \in Copies /\ p.as \in 0..Len(sessions) /\ Own(p.base, p.as, sessions)
    BY <1>3 DEF GoodOp, Ops
  <1>5. Based(p) \in Copies /\ Own(Based(p), token, sessions)
    <2>1. /\ Based(p) \in Copies /\ Based(p).of = p.base.of
          /\ Based(p).late <=> p.base.late \/ p.as # token
      BY <1>4 DEF Based, Copies
    <2> QED BY <1>4, <2>1 DEF Own
  <1>6. CASE SignedIn(p)
    <2> DEFINE c == [settings EXCEPT !.late = @ \/ token # NoToken]
    <2>1. Display(c, p.arg, "home", ops \ {p}) /\ p.kind = "signin" /\ p.state = "done"
      BY <1>6 DEF SignedIn
    <2>2. p.arg \in DOMAIN sessions
      BY <1>3, <2>1 DEF GoodOp
    <2>3. c \in Copies /\ c.of = settings.of /\ (c.late <=> settings.late \/ token # 0)
      BY <1>2 DEF Copies, NoToken
    <2>4. Own(c, p.arg, sessions)
      BY <1>2, <2>3 DEF Own
    <2> HIDE DEF c
    <2> QED BY <1>2, <1>3, <2>1, <2>2, <2>3, <2>4, DisplayKeeps
  <1>7. CASE SignedInUnseen(p)
    <2>1. /\ p.kind = "signin" /\ p.state = "done" /\ token' = p.arg /\ ops' = ops \ {p}
          /\ settings' = [settings EXCEPT !.late = TRUE]
          /\ UNCHANGED <<server, sessions, valid, made, failures, client, part, stack, leaked, page, refresh>>
      BY <1>2, <1>7 DEF SignedInUnseen, Idle, kind, mobile
    <2>2. p.arg \in DOMAIN sessions
      BY <1>3, <2>1 DEF GoodOp
    <2>3. settings' \in Copies /\ settings'.late
      BY <1>2, <2>1 DEF Copies
    <2>4. TypeOK'
      BY <1>2, <2>1, <2>2, <2>3 DEF IInv, TypeOK
    <2>5. ShownInv' /\ ReadsInv'
      BY <2>1, <2>3 DEF IInv, ShownInv, ReadsInv, Own
    <2> QED BY <1>3, <2>1, <2>4, <2>5 DEF IInv
  <1>8. CASE Saved(p)
    <2> DEFINE c == [Based(p) EXCEPT !.prefs = p.arg]
               at == IF p.at = "settings" THEN "home" ELSE page
    <2>1. Display(c, token, at, ops \ {p})
      BY <1>8 DEF Saved
    <2>2. p.arg \in Prefs
      BY <1>3, <1>8 DEF GoodOp, Saved
    <2>3. c \in Copies /\ Own(c, token, sessions)
      BY <1>5, <2>2 DEF Copies, Own
    <2>4. at \in Places
      BY <1>2, <1>3
    <2> HIDE DEF c, at
    <2> QED BY <1>2, <1>3, <2>1, <2>3, <2>4, DisplayKeeps
  <1>9. CASE Verified(p)
    <2> DEFINE c == [Based(p) EXCEPT !.verified = TRUE]
               at == IF p.at = "verify" THEN "home" ELSE page
    <2>1. Display(c, token, at, ops \ {p})
      BY <1>9 DEF Verified
    <2>2. c \in Copies /\ Own(c, token, sessions)
      BY <1>5 DEF Copies, Own
    <2>3. at \in Places
      BY <1>2, <1>3
    <2> HIDE DEF c, at
    <2> QED BY <1>2, <1>3, <2>1, <2>2, <2>3, DisplayKeeps
  <1>10. CASE SignedOut(p)
    <2> DEFINE c == [Unknown EXCEPT !.prefs = p.base.prefs]
    <2>1. Display(c, 0, page, ops \ {p})
      BY <1>10 DEF SignedOut, NoToken
    <2>2. c \in Copies /\ c.of = Nobody
      BY <1>4, ReadsBegin DEF Copies, Unknown
    <2>3. Own(c, 0, sessions)
      BY <2>2 DEF Own
    <2> HIDE DEF c
    <2> QED BY <1>2, <1>3, <2>1, <2>2, <2>3, DisplayKeeps
  <1> QED BY <1>1, <1>6, <1>7, <1>8, <1>9, <1>10

\* The program that made the calls is gone.
LEMMA OpsDead ==
  ASSUME NEW s, NEW n, GoodOps(ops, s, n)
  PROVE  GoodOps(DeadOps, s, n)
  <1> DEFINE Dead(p) == [p EXCEPT !.at = "dead"]
  <1>1. ASSUME NEW p \in ops PROVE GoodOp(Dead(p), s, n) /\ Dead(p).no = p.no
    <2>1. GoodOp(p, s, n)
      BY DEF GoodOps
    <2>2. /\ Dead(p) \in Ops /\ Dead(p).no = p.no /\ Dead(p).as = p.as /\ Dead(p).base = p.base
          /\ Dead(p).kind = p.kind /\ Dead(p).state = p.state /\ Dead(p).arg = p.arg
          /\ Dead(p).info = p.info /\ Dead(p).user = p.user
      BY <2>1 DEF GoodOp, Ops, Places
    <2> HIDE DEF Dead
    <2> QED BY <2>1, <2>2 DEF GoodOp
  <1>2. DeadOps = {Dead(p) : p \in {q \in ops : q.state = "sent"}}
    BY DEF DeadOps
  <1> HIDE DEF Dead
  <1> QED BY <1>1, <1>2 DEF GoodOps

\* The refresh loop.
LEMMA WebReadKeeps ==
  ASSUME IInv, client = "web", UNCHANGED <<kind, mobile>>, RefreshServe \/ RefreshLoop
  PROVE  IInv'
  <1>1. /\ GoodRead(refresh, sessions, valid) /\ GoodRead(DueRead, sessions, valid)
        /\ GoodRead(AskedRead, sessions, valid) /\ token \in 0..Len(sessions)
        /\ Len(sessions) \in Nat /\ page \in Places
    BY ReadsBegin DEF IInv, ReadsInv, TypeOK
  <1>2. CASE RefreshAsk
    <2>1. /\ UNCHANGED <<kind, mobile, settings, page, naming, server, sessions, valid, token, ops, made>>
          /\ failures' = failures /\ refresh' = AskedRead
      BY <1>2 DEF RefreshAsk, users
    <2> QED BY <1>1, <2>1, RefreshKeeps
  <1>3. CASE RefreshServe
    <2>1. /\ UNCHANGED <<kind, mobile, settings, page, naming, server, sessions, valid, token, ops, made>>
          /\ failures' \in {failures, failures + 1}
          /\ refresh' \in Answers(refresh) \cup {LostRead(refresh)}
      BY <1>3 DEF RefreshServe, users
    <2> QED BY <1>1, <2>1, ReadsAnswered, RefreshKeeps
  <1>4. CASE Refreshed
    <2>1. /\ refresh.state = "ok" /\ refresh' = DueRead /\ Idle
          /\ Display(Fresh(refresh), token, page, ops)
      BY <1>4 DEF Refreshed
    <2>2. GoodOps(ops, sessions, made)
      BY DEF IInv
    <2> QED BY <1>1, <2>1, <2>2, FreshOwn, DisplayKeeps
  <1>5. CASE RefreshFailed
    <2>1. /\ UNCHANGED <<kind, mobile, settings, page, naming, server, sessions, valid, token, ops, made>>
          /\ failures' = failures /\ refresh' = DueRead
      BY <1>5 DEF RefreshFailed, users
    <2> QED BY <1>1, <2>1, RefreshKeeps
  <1>6. CASE RefreshRefused
    <2>1. /\ token' = 0 /\ ops' = DeadOps /\ settings' = Unknown /\ refresh' = DueRead /\ page' = "login"
          /\ UNCHANGED <<server, sessions, valid, made, failures, client, part, stack, leaked>>
      BY <1>6 DEF RefreshRefused, Idle, NoToken, kind, mobile
    <2>2. GoodOps(ops', sessions, made)
      BY <2>1, OpsDead DEF IInv
    <2>3. TypeOK'
      BY <1>1, <2>1, ReadsBegin DEF IInv, TypeOK, Places
    <2>4. ShownInv' /\ ReadsInv'
      BY <1>1, <2>1 DEF IInv, ShownInv, ReadsInv, Own, Unknown
    <2> QED BY <2>1, <2>2, <2>3, <2>4 DEF IInv
  <1> QED BY <1>2, <1>3, <1>4, <1>5, <1>6 DEF RefreshLoop

\* A page that is opened, and the answer about the chain.
LEMMA WebPageKeeps ==
  ASSUME IInv, client = "web", UNCHANGED <<kind, mobile>>,
         \/ \E name \in {"login", "signup", "home", "settings"} : Visit(name)
         \/ ChainDisplayName
  PROVE  IInv'
  <1>1. /\ GoodRead(refresh, sessions, valid) /\ token \in 0..Len(sessions)
        /\ page \in Places /\ {"login", "signup", "home", "settings"} \subseteq Places
        /\ settings \in Copies /\ Own(settings, token, sessions)
        /\ Unknown \in Copies /\ Own(Unknown, token, sessions)
    BY ReadsBegin DEF IInv, ReadsInv, TypeOK, ShownInv, Places, Own, Unknown
  <1>2. ASSUME NEW name \in {"login", "signup", "home", "settings"}, Visit(name) PROVE IInv'
    <2>1. Display(settings, token, name, LeftOps(ops, {page})) /\ Idle /\ refresh' = refresh
      BY <1>2 DEF Visit
    <2>2. GoodOps(LeftOps(ops, {page}), sessions, made)
      BY OpsLeft DEF IInv
    <2> QED BY <1>1, <2>1, <2>2, DisplayKeeps
  <1>3. CASE ChainDisplayName
    <2>1. Idle /\ refresh' = refresh
      BY <1>3 DEF ChainDisplayName
    <2>2. CASE Display(Unknown, token, page, ops)
      BY <1>1, <2>1, <2>2, DisplayKeeps DEF IInv
    <2>3. CASE UNCHANGED <<token, ops, settings, page>>
      <3>1. UNCHANGED <<client, part, server, sessions, valid, made, failures, token, ops, settings,
                        page, refresh, stack, leaked>>
        BY <2>1, <2>3 DEF Idle, kind, mobile
      <3>2. TypeOK'
        BY <3>1 DEF IInv, TypeOK
      <3> QED BY <3>1, <3>2 DEF IInv, ShownInv, ReadsInv
    <2> QED BY <1>3, <2>2, <2>3 DEF ChainDisplayName
  <1> QED BY <1>2, <1>3

\* Every step of the web application.
LEMMA WebKeeps == IInv /\ InSession(WebStep) => IInv'
  <1> SUFFICES ASSUME IInv, client = "web", WebNext, UNCHANGED <<kind, mobile>> PROVE IInv'
    BY DEF InSession, WebStep
  <1> QED BY WebCallKeeps, WebHearKeeps, WebReadKeeps, WebPageKeeps DEF WebNext

-----------------------------------------------------------------------------
(* The backend.                                                            *)

\* A call is answered, or ends without an answer.
LEMMA OpsAnswered ==
  ASSUME NEW p \in ops, NEW s, NEW n, GoodOps(ops, s, n), p.kind # "signin", Answered(p, p.arg) \/ Failed(p)
  PROVE  GoodOps(ops', s, n)
  <1>1. GoodOp(p, s, n) /\ p \in Ops
    BY DEF GoodOps, GoodOp
  <1>2. GoodOps(ops \ {p}, s, n)
    BY OpsFewer
  <1>3. ASSUME NEW arg \in Nat, arg = p.arg \/ p.kind = "signout", Answered(p, arg)
        PROVE  GoodOps(ops', s, n)
    <2> DEFINE q == [p EXCEPT !.state = "done", !.arg = arg]
    <2>1. GoodOp(q, s, n) /\ q.no = p.no
      <3>1. /\ q \in Ops /\ q.no = p.no /\ q.as = p.as /\ q.base = p.base /\ q.kind = p.kind
            /\ q.arg = arg /\ q.info = p.info /\ q.user = p.user
        BY <1>1, <1>3 DEF Ops
      <3> HIDE DEF q
      <3> QED BY <1>1, <1>3, <3>1 DEF GoodOp
    <2>2. ops' = ops \ {p} \/ ops' = (ops \ {p}) \cup {q}
      BY <1>3 DEF Answered
    <2> HIDE DEF q
    <2>3. GoodOps((ops \ {p}) \cup {q}, s, n)
      BY <2>1, OpsChanged
    <2> QED BY <1>2, <2>2, <2>3
  <1>4. p.arg \in Nat /\ 0 \in Nat
    BY <1>1 DEF Ops
  <1> QED BY <1>2, <1>3, <1>4 DEF Failed

\* A log-in is answered with a token that was given out, or fails.
LEMMA OpsSignedIn ==
  ASSUME NEW p \in ops, NEW s, NEW n, GoodOps(ops, s, n), p.kind = "signin",
         NEW t \in DOMAIN s, t \in Nat, Answered(p, t) \/ Failed(p)
  PROVE  GoodOps(ops', s, n)
  <1>1. GoodOp(p, s, n) /\ p \in Ops
    BY DEF GoodOps, GoodOp
  <1>2. GoodOps(ops \ {p}, s, n)
    BY OpsFewer
  <1> DEFINE q == [p EXCEPT !.state = "done", !.arg = t]
  <1>3. GoodOp(q, s, n) /\ q.no = p.no
    <2>1. /\ q \in Ops /\ q.no = p.no /\ q.as = p.as /\ q.base = p.base /\ q.kind = p.kind
          /\ q.arg = t /\ q.info = p.info /\ q.user = p.user
      BY <1>1 DEF Ops
    <2> HIDE DEF q
    <2> QED BY <1>1, <2>1 DEF GoodOp
  <1>4. ops' = ops \ {p} \/ ops' = (ops \ {p}) \cup {q}
    BY DEF Answered, Failed
  <1> HIDE DEF q
  <1>5. GoodOps((ops \ {p}) \cup {q}, s, n)
    BY <1>3, OpsChanged
  <1> QED BY <1>2, <1>4, <1>5

\* What a session that is opened or closed, or a user that changes, is to what the
\* clients know.
LEMMA BackendChanges ==
  ASSUME IInv, UNCHANGED <<kind, web, mobile, token, made>>, failures' \in {failures, failures + 1},
         server' \in [People -> [verified : BOOLEAN, prefs : Prefs]],
         GoodOps(ops', sessions', made),
         \/ UNCHANGED sessions /\ \E t \in valid : valid' = valid \ {t}
         \/ UNCHANGED <<sessions, valid>>
         \/ \E u \in People : sessions' = Append(sessions, u) /\ valid' = valid \cup {Len(sessions) + 1}
  PROVE  IInv'
  <1>1. UNCHANGED <<client, part, token, made, settings, page, refresh, stack, leaked>>
    BY DEF kind, web, mobile
  <1>2. /\ sessions \in Seq(People) /\ Len(sessions) \in Nat /\ DOMAIN sessions = 1..Len(sessions)
        /\ valid \subseteq DOMAIN sessions /\ token \in 0..Len(sessions)
    BY DEF IInv, TypeOK
  <1>3. /\ sessions' \in Seq(People) /\ valid' \subseteq DOMAIN sessions' /\ token \in 0..Len(sessions')
        /\ \A i \in DOMAIN sessions : i \in DOMAIN sessions' /\ sessions'[i] = sessions[i]
    <2>1. ASSUME NEW u \in People, sessions' = Append(sessions, u), valid' = valid \cup {Len(sessions) + 1}
          PROVE  /\ sessions' \in Seq(People) /\ valid' \subseteq DOMAIN sessions' /\ token \in 0..Len(sessions')
                 /\ \A i \in DOMAIN sessions : i \in DOMAIN sessions' /\ sessions'[i] = sessions[i]
      <3> DEFINE s == Append(sessions, u)
      <3>1. /\ s \in Seq(People) /\ Len(s) = Len(sessions) + 1 /\ DOMAIN s = 1..(Len(sessions) + 1)
            /\ \A i \in 1..Len(sessions) : s[i] = sessions[i]
        BY <1>2
      <3>2. sessions' = s
        BY <2>1
      <3> HIDE DEF s
      <3>3. token \in 0..Len(s) /\ valid \cup {Len(sessions) + 1} \subseteq DOMAIN s
        BY <1>2, <3>1
      <3>4. \A i \in DOMAIN sessions : i \in DOMAIN s /\ s[i] = sessions[i]
        BY <1>2, <3>1
      <3> QED BY <2>1, <3>1, <3>2, <3>3, <3>4, Zenon
    <2> QED BY <1>2, <2>1
  <1>4. ASSUME NEW r, GoodRead(r, sessions, valid) PROVE GoodRead(r, sessions', valid')
    <2>1. ASSUME NEW u \in People, sessions' = Append(sessions, u), valid' = valid \cup {Len(sessions) + 1}
          PROVE  GoodRead(r, sessions', valid')
      <3>1. GoodRead(r, Append(sessions, u), valid \cup {Len(sessions) + 1})
        BY <1>2, <1>4, ReadsOpened
      <3> QED BY <2>1, <3>1
    <2>2. ASSUME NEW t \in valid, UNCHANGED sessions, valid' = valid \ {t} PROVE GoodRead(r, sessions', valid')
      BY <1>4, <2>2, ReadsClosed
    <2>3. CASE UNCHANGED <<sessions, valid>>
      BY <1>4, <2>3
    <2> QED BY <2>1, <2>2, <2>3
  <1>5. ASSUME NEW c, Own(c, token, sessions) PROVE Own(c, token, sessions')
    BY <1>3, <1>5 DEF Own
  <1>6. TypeOK'
    BY <1>1, <1>3 DEF IInv, TypeOK
  <1>7. ShownInv'
    BY <1>1, <1>5 DEF IInv, ShownInv
  <1>8. ReadsInv'
    BY <1>1, <1>4 DEF IInv, ReadsInv
  <1>9. GoodOps(ops', sessions', made')
    BY <1>1
  <1> QED BY <1>6, <1>7, <1>8, <1>9 DEF IInv

\* Every step of the backend.
LEMMA BackendKeeps == IInv /\ InSession(BackendStep) => IInv'
  <1> SUFFICES ASSUME IInv, ServeOp \/ Expire, UNCHANGED <<kind, web, mobile>> PROVE IInv'
    BY DEF InSession, BackendStep
  <1>1. /\ server \in [People -> [verified : BOOLEAN, prefs : Prefs]] /\ sessions \in Seq(People)
        /\ Len(sessions) \in Nat /\ valid \subseteq DOMAIN sessions /\ GoodOps(ops, sessions, made)
    BY DEF IInv, TypeOK
  <1>2. CASE Expire
    BY <1>1, <1>2, BackendChanges DEF Expire
  <1>3. CASE ServeOp
    <2>1. PICK p \in ops : p.state = "sent" /\ (Served(p) \/ (Failed(p) /\ UNCHANGED <<server, sessions, valid>>))
      BY <1>3 DEF ServeOp
    <2>2. UNCHANGED <<token, made, failures>>
      BY <1>3 DEF ServeOp
    <2>3. GoodOp(p, sessions, made) /\ p \in Ops /\ GoodOps(ops \ {p}, sessions, made)
      BY <1>1, OpsFewer DEF GoodOps, GoodOp
    <2>4. CASE Failed(p) /\ UNCHANGED <<server, sessions, valid>>
      <3>1. GoodOps(ops', sessions, made)
        BY <1>1, <2>3, <2>4, OpsAnswered DEF Failed
      <3> QED BY <1>1, <2>2, <2>4, <3>1, BackendChanges
    <2>5. CASE /\ p.kind = "signin" /\ sessions' = Append(sessions, p.user)
               /\ valid' = valid \cup {Len(sessions) + 1} /\ UNCHANGED server
               /\ Answered(p, Len(sessions) + 1) \/ Failed(p)
      <3>1. p.user \in People
        BY <2>3, <2>5 DEF GoodOp
      <3>2. GoodOps(ops, sessions', made)
        BY <1>1, <2>5, <3>1, OpsOpened
      <3>3. Len(sessions) + 1 \in DOMAIN sessions' /\ Len(sessions) + 1 \in Nat
        BY <1>1, <2>5, <3>1
      <3>4. GoodOps(ops', sessions', made)
        BY <2>5, <3>2, <3>3, OpsSignedIn
      <3> QED BY <1>1, <2>2, <2>5, <3>1, <3>4, BackendChanges
    <2>6. CASE /\ p.kind \in {"save", "verify"} /\ p.as \in valid /\ Put(sessions[p.as], p)
               /\ Answered(p, p.arg) \/ Failed(p)
               /\ UNCHANGED <<sessions, valid>>
      <3>1. GoodOps(ops', sessions, made)
        BY <1>1, <2>6, OpsAnswered
      <3>2. server' \in [People -> [verified : BOOLEAN, prefs : Prefs]]
        <4>1. PICK u \in People : Put(u, p)
          BY <1>1, <2>6
        <4>2. CASE server' = [server EXCEPT ![u] = [verified |-> TRUE, prefs |-> 0]]
          BY <1>1, <4>2 DEF Prefs
        <4>3. CASE p.kind = "save" /\ server' = [server EXCEPT ![u].prefs = p.arg]
          BY <1>1, <2>3, <4>3 DEF GoodOp
        <4> QED BY <2>6, <4>1, <4>2, <4>3 DEF Put
      <3> QED BY <2>2, <2>6, <3>1, <3>2, BackendChanges
    <2>7. CASE p.kind = "signout" /\ p.as \in valid /\ valid' = valid \ {p.as} /\ Failed(p) /\ UNCHANGED <<server, sessions>>
      <3>1. GoodOps(ops', sessions, made)
        BY <1>1, <2>7, OpsAnswered
      <3> QED BY <1>1, <2>2, <2>7, <3>1, BackendChanges
    <2> QED BY <2>1, <2>4, <2>5, <2>6, <2>7 DEF Served
  <1> QED BY <1>2, <1>3

-----------------------------------------------------------------------------
(* The mobile app.                                                         *)

Screens == [name : Places, shown : Copies, loop : ReadsOf]

\* A screen that reads what its token allows, and displays what belongs to token t.
GoodScreen(s, t) ==
    /\ s \in Screens /\ GoodRead(s.loop, sessions, valid)
    /\ t # 0 => Own(s.shown, t, sessions)

\* The screens change.
LEMMA StackKeeps ==
  ASSUME IInv, client = "mobile", UNCHANGED <<kind, web, server, sessions, valid, made>>,
         failures' \in {failures, failures + 1}, token' \in 0..Len(sessions),
         stack' \in Seq(Screens), stack' # <<>>,
         \A i \in DOMAIN stack' : GoodScreen(stack'[i], token'),
         GoodOps(ops', sessions, made), GoodRead(leaked', sessions, valid)
  PROVE  IInv'
  <1>1. UNCHANGED <<client, part, server, sessions, valid, made, settings, page, refresh>>
    BY DEF kind, web
  <1>2. TypeOK'
    BY <1>1 DEF IInv, TypeOK, Stacks, Screens
  <1>3. ShownInv' /\ ReadsInv'
    BY <1>1 DEF IInv, ShownInv, ReadsInv, GoodScreen, NoToken
  <1>4. GoodOps(ops', sessions', made')
    BY <1>1
  <1> QED BY <1>2, <1>3, <1>4 DEF IInv

\* What the invariant says of the screens of the mobile app.
LEMMA StackGood ==
  ASSUME IInv, client = "mobile", part = "session"
  PROVE  /\ stack \in Seq(Screens) /\ stack # <<>> /\ Len(stack) \in Nat \ {0}
         /\ DOMAIN stack = 1..Len(stack) /\ 1 \in DOMAIN stack
         /\ \A i \in DOMAIN stack : GoodScreen(stack[i], token)
         /\ GoodRead(leaked, sessions, valid) /\ GoodOps(ops, sessions, made)
         /\ token \in 0..Len(sessions) /\ Len(sessions) \in Nat
  <1>1. stack \in Seq(Screens) /\ stack # <<>>
    BY DEF IInv, TypeOK, Stacks, Screens
  <1>2. Len(stack) \in Nat \ {0} /\ DOMAIN stack = 1..Len(stack)
    BY <1>1
  <1>3. \A i \in DOMAIN stack : stack[i] \in Screens
    BY <1>1
  <1>4. \A i \in DOMAIN stack : GoodScreen(stack[i], token)
    BY <1>3 DEF GoodScreen, IInv, ShownInv, ReadsInv, NoToken
  <1> QED BY <1>1, <1>2, <1>4 DEF IInv, ReadsInv, TypeOK

\* A screen that is opened displays nobody yet.
LEMMA ScreenGood ==
  ASSUME IInv, NEW name \in Places, NEW t
  PROVE  GoodScreen(Screen(name), t)
  <1>1. PICK loop \in {DueRead, NoRead} : Screen(name) = [name |-> name, shown |-> Unknown, loop |-> loop]
    BY DEF Screen
  <1>2. GoodRead(loop, sessions, valid) /\ loop \in ReadsOf /\ Unknown \in Copies
    BY ReadsBegin DEF GoodRead
  <1> QED BY <1>1, <1>2 DEF GoodScreen, Screens, Own, Unknown

\* A loop goes on without its screen.
LEMMA LeakGood ==
  ASSUME IInv, NEW keeps \in SUBSET DOMAIN stack, Leak({stack[i] : i \in keeps})
  PROVE  GoodRead(leaked', sessions, valid)
  <1>1. \A i \in keeps : GoodRead(stack[i].loop, sessions, valid)
    BY DEF IInv, ReadsInv
  <1>2. leaked' = leaked \/ \E i \in keeps : leaked' = stack[i].loop
    BY DEF Leak
  <1> QED BY <1>1, <1>2 DEF IInv, ReadsInv

\* One screen takes the place of all.
LEMMA RootKeeps ==
  ASSUME IInv, client = "mobile", UNCHANGED <<kind, web>>, Rest, token' \in 0..Len(sessions),
         NEW name \in Places, NEW keeps \in SUBSET DOMAIN stack, NEW rest,
         GoodOps(rest, sessions, made), SetStackRoot(name, keeps, rest)
  PROVE  IInv'
  <1>1. /\ stack' = <<Screen(name)>> /\ Leak({stack[i] : i \in keeps})
        /\ ops' = LeftOps(rest, {NameOf(i) : i \in DOMAIN stack})
        /\ UNCHANGED <<server, sessions, valid, made, failures>>
    BY DEF SetStackRoot, Rest
  <1>2. GoodScreen(Screen(name), token') /\ Screen(name) \in Screens
    BY ScreenGood DEF GoodScreen
  <1>3. stack' \in Seq(Screens) /\ stack' # <<>> /\ \A i \in DOMAIN stack' : stack'[i] = Screen(name)
    BY <1>1, <1>2
  <1>4. GoodOps(ops', sessions, made)
    BY <1>1, OpsLeft
  <1> QED BY <1>1, <1>2, <1>3, <1>4, LeakGood, StackKeeps

\* All but the first screen are left.
LEMMA PopKeeps ==
  ASSUME IInv, client = "mobile", part = "session", UNCHANGED <<kind, web, token>>, Rest, NEW rest,
         GoodOps(rest, sessions, made), PopToRoot(rest)
  PROVE  IInv'
  <1>1. /\ stack' = <<stack[1]>> /\ Leak({stack[i] : i \in 2..Len(stack)})
        /\ ops' = LeftOps(rest, {NameOf(i) : i \in 2..Len(stack)})
        /\ UNCHANGED <<server, sessions, valid, made, failures, token>>
    BY DEF PopToRoot, Rest
  <1>2. /\ GoodScreen(stack[1], token) /\ stack[1] \in Screens /\ 2..Len(stack) \subseteq DOMAIN stack
        /\ token \in 0..Len(sessions)
    BY StackGood DEF GoodScreen
  <1>3. stack' \in Seq(Screens) /\ stack' # <<>> /\ \A i \in DOMAIN stack' : stack'[i] = stack[1]
    BY <1>1, <1>2
  <1>4. GoodOps(ops', sessions, made)
    BY <1>1, OpsLeft
  <1>5. GoodRead(leaked', sessions, valid)
    BY <1>1, <1>2, LeakGood
  <1> QED BY <1>1, <1>2, <1>3, <1>4, <1>5, StackKeeps

\* One screen changes.
LEMMA ScreenKeeps ==
  ASSUME IInv, client = "mobile", part = "session",
         UNCHANGED <<kind, web, server, sessions, valid, token, ops, made, leaked>>,
         failures' \in {failures, failures + 1},
         NEW i \in DOMAIN stack, NEW s, GoodScreen(s, token), stack' = [stack EXCEPT ![i] = s]
  PROVE  IInv'
  <1>1. s \in Screens
    BY DEF GoodScreen
  <1>2. stack' \in Seq(Screens) /\ stack' # <<>>
    BY <1>1, StackGood
  <1>3. \A j \in DOMAIN stack' : GoodScreen(stack'[j], token)
    BY <1>1, StackGood
  <1> QED BY <1>2, <1>3, StackGood, StackKeeps

\* The user goes from screen to screen.
LEMMA ScreensKeep ==
  ASSUME IInv, client = "mobile", part = "session", UNCHANGED <<kind, web>>,
         OpenScreen \/ GoBack \/ TryAgain \/ RedirectLoggedIn \/ MobileLogout
  PROVE  IInv'
  <1>1. /\ {"Home", "SignUp", "Settings", "SignIn"} \subseteq Places /\ {1} \subseteq DOMAIN stack
        /\ GoodOps(ops, sessions, made) /\ token \in 0..Len(sessions) /\ Len(sessions) \in Nat
    BY StackGood DEF Places
  <1>2. ASSUME NEW name \in {"SignUp", "Settings"}, Push(name) PROVE IInv'
    <2>1. /\ stack' = Append(stack, Screen(name))
          /\ UNCHANGED <<server, sessions, valid, token, ops, made, failures, leaked>>
      BY <1>2 DEF Push, users
    <2>2. GoodScreen(Screen(name), token) /\ Screen(name) \in Screens
      BY <1>1, ScreenGood DEF GoodScreen
    <2>3. /\ Append(stack, Screen(name)) \in Seq(Screens) /\ Append(stack, Screen(name)) # <<>>
          /\ \A i \in DOMAIN Append(stack, Screen(name)) :
               Append(stack, Screen(name))[i] = Screen(name)
                 \/ (i \in DOMAIN stack /\ Append(stack, Screen(name))[i] = stack[i])
      BY <2>2, StackGood
    <2>4. /\ stack' \in Seq(Screens) /\ stack' # <<>>
          /\ \A i \in DOMAIN stack' : stack'[i] = Screen(name) \/ (i \in DOMAIN stack /\ stack'[i] = stack[i])
      BY <2>1, <2>3, Zenon
    <2>5. \A i \in DOMAIN stack' : GoodScreen(stack'[i], token)
      BY <2>2, <2>4, StackGood
    <2> QED BY <1>1, <2>1, <2>4, <2>5, StackGood, StackKeeps
  <1>3. CASE GoBack
    BY <1>1, <1>3, PopKeeps DEF GoBack
  <1>4. CASE TryAgain
    BY <1>1, <1>4, RootKeeps DEF TryAgain
  <1>5. CASE RedirectLoggedIn
    BY <1>1, <1>5, RootKeeps DEF RedirectLoggedIn
  <1>6. CASE MobileLogout
    BY <1>1, <1>6, RootKeeps DEF MobileLogout, NoToken
  <1> QED BY <1>2, <1>3, <1>4, <1>5, <1>6 DEF OpenScreen

\* Whoever makes a call in the mobile app.
LEMMA MobileCallKeeps ==
  ASSUME IInv, client = "mobile", part = "session", UNCHANGED <<kind, web>>,
         \/ \E u \in People : MobileSignIn(u) \/ MobileSignUp(u)
         \/ \E prefs \in Prefs \ {Top.shown.prefs} : MobileSave(prefs)
         \/ MobileSubmit
  PROVE  IInv'
  <1>1. Unknown \in Copies /\ Own(Unknown, token, sessions) /\ {} \in SUBSET Info
    BY ReadsBegin DEF Unknown, Own
  <1>2. ASSUME NEW u \in People, MobileSignIn(u) \/ MobileSignUp(u) PROVE IInv'
    <2>1. /\ Make(Op("signin", u, Top.name, 0, {}, Unknown)) /\ UNCHANGED mobile
          /\ Top.name \in {"SignIn", "SignUp"}
      BY <1>2 DEF MobileSignIn, MobileSignUp, MobileEnter
    <2>2. Top.name \in Places
      BY <2>1 DEF Places
    <2> QED BY <1>1, <2>1, <2>2, OpGood, MakeKeeps
  <1>3. ASSUME NEW prefs \in Prefs, MobileSave(prefs) PROVE IInv'
    <2>1. Make(Op("save", Nobody, "Settings", prefs, {}, Unknown)) /\ UNCHANGED mobile
      BY <1>3 DEF MobileSave
    <2>2. prefs \in Nat /\ "Settings" \in Places
      BY DEF Prefs, Places
    <2> QED BY <1>1, <2>1, <2>2, OpGood, MakeKeeps
  <1>4. CASE MobileSubmit
    <2>1. PICK info \in MobileForms :
            Make(Op("verify", Nobody, "Verify", 0, info, Unknown)) /\ UNCHANGED mobile
      BY <1>4 DEF MobileSubmit
    <2>2. info = Info /\ "Verify" \in Places
      BY MobileFormsComplete DEF Places
    <2> QED BY <1>1, <2>1, <2>2, OpGood, MakeKeeps
  <1> QED BY <1>2, <1>3, <1>4

\* Whatever answer a screen hears.
LEMMA MobileHearKeeps ==
  ASSUME IInv, client = "mobile", part = "session", UNCHANGED <<kind, web>>, MobileHear
  PROVE  IInv'
  <1>1. PICK p \in ops : MobileSignedIn(p) \/ MobileSaved(p) \/ MobileVerified(p) \/ MobileIgnored(p)
    BY DEF MobileHear
  <1>2. Rest
    BY DEF MobileHear
  <1>3. /\ GoodOp(p, sessions, made) /\ GoodOps(ops \ {p}, sessions, made) /\ "Home" \in Places
        /\ token \in 0..Len(sessions) /\ DOMAIN stack \in SUBSET DOMAIN stack
    BY OpsFewer, StackGood DEF IInv, GoodOps, Places
  <1>4. CASE MobileSignedIn(p)
    <2>1. p.arg \in DOMAIN sessions /\ token' = p.arg
      BY <1>3, <1>4 DEF MobileSignedIn, GoodOp
    <2>2. token' \in 0..Len(sessions)
      BY <2>1 DEF IInv, TypeOK
    <2>3. CASE SetStackRoot("Home", DOMAIN stack, ops \ {p})
      BY <1>2, <1>3, <2>2, <2>3, RootKeeps
    <2>4. CASE /\ stack' = [i \in DOMAIN stack |-> [stack[i] EXCEPT !.shown.late = TRUE]]
               /\ ops' = ops \ {p} /\ UNCHANGED leaked
      <3>1. \A i \in DOMAIN stack : GoodScreen([stack[i] EXCEPT !.shown.late = TRUE], token')
        <4>1. SUFFICES ASSUME NEW i \in DOMAIN stack
                       PROVE  GoodScreen([stack[i] EXCEPT !.shown.late = TRUE], token')
          OBVIOUS
        <4>2. PICK s \in Screens : s = stack[i] /\ GoodRead(s.loop, sessions, valid)
          BY StackGood DEF GoodScreen
        <4>3. PICK c \in Copies : c = s.shown
          BY <4>2 DEF Screens
        <4>4. [c EXCEPT !.late = TRUE] \in Copies /\ [c EXCEPT !.late = TRUE].late = TRUE
          BY <4>3 DEF Copies
        <4>5. [s EXCEPT !.shown.late = TRUE] = [s EXCEPT !.shown = [c EXCEPT !.late = TRUE]]
          BY <4>3
        <4>6. PICK d \in Copies : d = [c EXCEPT !.late = TRUE] /\ d.late
          BY <4>4
        <4>7. GoodScreen([s EXCEPT !.shown = d], token')
          BY <4>2, <4>6 DEF GoodScreen, Screens, Own
        <4> QED BY <4>2, <4>5, <4>6, <4>7, Zenon
      <3>2. \A i \in DOMAIN stack : [stack[i] EXCEPT !.shown.late = TRUE] \in Screens
        BY <3>1 DEF GoodScreen
      <3>3. DOMAIN stack' = DOMAIN stack /\ \A i \in DOMAIN stack' : stack'[i] \in Screens /\ GoodScreen(stack'[i], token')
        BY <2>4, <3>1, <3>2
      <3>4. stack' \in Seq(Screens) /\ stack' # <<>>
        <4>1. stack' = [i \in 1..Len(stack) |-> stack'[i]] /\ Len(stack) \in Nat \ {0}
          BY <2>4, StackGood
        <4> QED BY <3>3, <4>1, StackGood
      <3>5. UNCHANGED <<server, sessions, valid, made, failures>> /\ GoodRead(leaked', sessions, valid)
        BY <1>2, <2>4, StackGood DEF Rest
      <3> QED BY <1>3, <2>2, <2>4, <3>3, <3>4, <3>5, StackKeeps
    <2> QED BY <1>4, <2>3, <2>4 DEF MobileSignedIn
  <1>5. CASE MobileSaved(p)
    BY <1>2, <1>3, <1>5, PopKeeps DEF MobileSaved
  <1>6. CASE MobileVerified(p)
    BY <1>2, <1>3, <1>6, RootKeeps DEF MobileVerified
  <1>7. CASE MobileIgnored(p)
    <2>1. /\ ops' = ops \ {p} /\ stack' = stack /\ token' = token /\ leaked' = leaked
          /\ UNCHANGED <<server, sessions, valid, made, failures>>
      BY <1>2, <1>7 DEF MobileIgnored, Rest
    <2> QED BY <1>3, <2>1, StackGood, StackKeeps
  <1> QED BY <1>1, <1>4, <1>5, <1>6, <1>7

\* The answers to a read.
LEMMA ServeReadKeeps ==
  ASSUME IInv, NEW r, NEW q, GoodRead(r, sessions, valid), ServeRead(r, q)
  PROVE  /\ UNCHANGED <<server, sessions, valid, token, ops, made>>
         /\ failures' \in {failures, failures + 1}
         /\ GoodRead(q, sessions, valid)
  <1>1. q \in Answers(r) \cup {LostRead(r)}
    BY DEF ServeRead
  <1>2. UNCHANGED <<server, sessions, valid, token, ops, made>> /\ failures' \in {failures, failures + 1}
    BY DEF ServeRead, users
  <1> QED BY <1>1, <1>2, ReadsAnswered

\* The loop of a screen that is gone.
LEMMA LeakedKeeps ==
  ASSUME IInv, client = "mobile", part = "session", UNCHANGED <<kind, web>>, Leaked
  PROVE  IInv'
  <1>1. ASSUME stack' = stack, UNCHANGED <<server, sessions, valid, ops, made>>, token' \in {0, token},
               failures' \in {failures, failures + 1}, GoodRead(leaked', sessions, valid)
        PROVE  IInv'
    <2>1. /\ token' \in 0..Len(sessions)
          /\ \A i \in DOMAIN stack' : GoodScreen(stack'[i], token')
      BY <1>1, StackGood DEF GoodScreen
    <2> QED BY <1>1, <2>1, StackGood, StackKeeps
  <1>2. CASE leaked.state = "due" /\ leaked' = (IF token = NoToken THEN NoRead ELSE AskedRead) /\ UNCHANGED <<users, stack>>
    <2>1. GoodRead(leaked', sessions, valid)
      BY <1>2, ReadsBegin
    <2> QED BY <1>1, <1>2, <2>1 DEF users
  <1>3. CASE (\E q \in Answers(leaked) \cup {LostRead(leaked)} : ServeRead(leaked, q) /\ leaked' = q) /\ UNCHANGED stack
    <2>1. ServeRead(leaked, leaked')
      BY <1>3
    <2> QED BY <1>1, <1>3, <2>1, StackGood, ServeReadKeeps
  <1>4. CASE LeakHeard
    <2>1. /\ leaked' \in {DueRead, NoRead} /\ token' \in {0, token}
          /\ UNCHANGED <<server, sessions, valid, ops, made, failures, stack>>
      BY <1>4 DEF LeakHeard, Rest, NoToken
    <2>2. GoodRead(leaked', sessions, valid)
      BY <2>1, ReadsBegin
    <2> QED BY <1>1, <2>1, <2>2
  <1> QED BY <1>2, <1>3, <1>4 DEF Leaked

\* The loop of a screen.
LEMMA LoadKeeps ==
  ASSUME IInv, client = "mobile", part = "session", UNCHANGED <<kind, web>>,
         NEW i \in DOMAIN stack, LoadUser(i)
  PROVE  IInv'
  <1>1. /\ {"Verify", "ConnectionError", "SignIn"} \subseteq Places
        /\ DOMAIN stack \ {i} \in SUBSET DOMAIN stack
        /\ GoodOps(ops, sessions, made) /\ token \in 0..Len(sessions) /\ Len(sessions) \in Nat
        /\ GoodScreen(stack[i], token)
    BY StackGood DEF Places
  <1>2. PICK s \in Screens : s = stack[i] /\ GoodRead(s.loop, sessions, valid) /\ s.loop \in ReadsOf
    BY <1>1 DEF GoodScreen, GoodRead
  <1>3. ASSUME NEW r, GoodRead(r, sessions, valid) PROVE GoodScreen([s EXCEPT !.loop = r], token)
    <2>1. r \in ReadsOf
      BY <1>3 DEF GoodRead
    <2>2. [s EXCEPT !.loop = r] \in Screens /\ [s EXCEPT !.loop = r].loop = r
          /\ [s EXCEPT !.loop = r].shown = s.shown
      BY <2>1 DEF Screens
    <2> QED BY <1>1, <1>2, <1>3, <2>2 DEF GoodScreen
  <1>4. ASSUME NEW r, stack' = [stack EXCEPT ![i].loop = r], GoodRead(r, sessions, valid),
               UNCHANGED <<leaked, server, sessions, valid, token, ops, made>>,
               failures' \in {failures, failures + 1}
        PROVE  IInv'
    <2>1. stack' = [stack EXCEPT ![i] = [s EXCEPT !.loop = r]]
      BY <1>2, <1>4
    <2>2. PICK n : n = [s EXCEPT !.loop = r] /\ GoodScreen(n, token)
      BY <1>3, <1>4
    <2> QED BY <1>4, <2>1, <2>2, ScreenKeeps
  <1>5. CASE LoadAsk(i)
    <2>1. GoodRead(Asking, sessions, valid)
      BY ReadsBegin DEF Asking
    <2> QED BY <1>4, <1>5, <2>1 DEF LoadAsk, users
  <1>6. CASE LoadServe(i)
    <2>1. PICK q : ServeRead(stack[i].loop, q) /\ stack' = [stack EXCEPT ![i].loop = q]
      BY <1>6 DEF LoadServe
    <2>2. leaked' = leaked
      BY <1>6 DEF LoadServe
    <2>3. /\ UNCHANGED <<server, sessions, valid, token, ops, made>>
          /\ failures' \in {failures, failures + 1} /\ GoodRead(q, sessions, valid)
      BY <1>2, <2>1, ServeReadKeeps
    <2> QED BY <1>4, <2>1, <2>2, <2>3
  <1>7. CASE Loaded(i) /\ Rest
    <2> DEFINE c == Fresh(s.loop)
    <2>1. /\ s.loop.state = "ok" /\ UNCHANGED <<leaked, ops, token, server, sessions, valid, made, failures>>
          /\ stack' = [stack EXCEPT ![i].shown = c, ![i].loop = DueRead]
      BY <1>2, <1>7 DEF Loaded, Rest
    <2>2. c \in Copies /\ Own(c, token, sessions)
      BY <1>2, <2>1, FreshOwn
    <2>3. GoodRead(DueRead, sessions, valid) /\ DueRead \in ReadsOf
      BY ReadsBegin DEF GoodRead
    <2> HIDE DEF c
    <2>4. PICK n : n = [s EXCEPT !.shown = c, !.loop = DueRead]
      OBVIOUS
    <2>5. n \in Screens /\ n.loop = DueRead /\ n.shown = c
      BY <1>2, <2>2, <2>3, <2>4 DEF Screens
    <2>6. GoodScreen(n, token)
      BY <2>2, <2>3, <2>5 DEF GoodScreen
    <2>7. stack' = [stack EXCEPT ![i] = n]
      <3>1. stack \in Seq(Screens)
        BY StackGood
      <3> QED BY <1>2, <2>1, <2>4, <3>1
    <2> QED BY <2>1, <2>6, <2>7, ScreenKeeps
  <1>8. CASE SentToVerify(i) /\ Rest
    BY <1>1, <1>8, RootKeeps DEF SentToVerify
  <1>9. CASE LoadFailed(i) /\ Rest
    BY <1>1, <1>9, RootKeeps DEF LoadFailed
  <1>10. CASE LoadRefused(i) /\ Rest
    BY <1>1, <1>10, RootKeeps DEF LoadRefused, NoToken
  <1> QED BY <1>5, <1>6, <1>7, <1>8, <1>9, <1>10 DEF LoadUser

\* Every step of the mobile app.
LEMMA MobileKeeps == IInv /\ InSession(MobileStep) => IInv'
  <1> SUFFICES ASSUME IInv, client = "mobile", part = "session", MobileNext, UNCHANGED <<kind, web>> PROVE IInv'
    BY DEF InSession, MobileStep
  <1> QED BY ScreensKeep, MobileCallKeeps, MobileHearKeeps, LeakedKeeps, LoadKeeps DEF MobileNext

-----------------------------------------------------------------------------
(* The specification.                                                      *)

\* The invariant holds in the initial states of either client.
LEMMA SessionsInitially == Init => IInv
  <1> SUFFICES ASSUME Init PROVE IInv
    OBVIOUS
  <1>1. /\ server \in [People -> [verified : BOOLEAN, prefs : Prefs]] /\ sessions \in Seq(People)
        /\ Len(sessions) \in Nat /\ DOMAIN sessions = 1..Len(sessions)
        /\ valid = DOMAIN sessions /\ token = Len(sessions) /\ ops = {} /\ made = 0 /\ failures = 0
    <2>1. UsersInit
      BY DEF Init
    <2>2. server \in [People -> [verified : BOOLEAN, prefs : Prefs]]
      BY <2>1 DEF UsersInit, Prefs
    <2>3. sessions = <<>> \/ \E u \in People : sessions = <<u>>
      BY <2>1 DEF UsersInit
    <2>4. sessions \in Seq(People)
      <3>1. <<>> \in Seq(People) /\ \A u \in People : <<u>> \in Seq(People)
        OBVIOUS
      <3> QED BY <2>3, <3>1, Zenon
    <2>5. Len(sessions) \in Nat /\ DOMAIN sessions = 1..Len(sessions)
      BY <2>4
    <2> QED BY <2>1, <2>2, <2>4, <2>5 DEF UsersInit
  <1>2. /\ client \in {"web", "mobile"} /\ part \in {"session", "lists"} /\ settings = Unknown
        /\ refresh \in {NoRead, DueRead} /\ page \in {"none", "login", "signup", "home"}
    BY DEF Init, WebInit, NoWeb, Routed, LoggedOutPages
  <1>3. /\ stack = <<>> \/ \E name \in {"Home", "SignIn"} : stack = <<Screen(name)>>
        /\ leaked = NoRead
        /\ part = "session" /\ client = "mobile" => stack # <<>>
    BY DEF Init, MobileInit, NoMobile
  <1>4. Unknown \in Copies
    BY DEF Unknown, Copies, Prefs
  <1>5. /\ GoodRead(NoRead, sessions, valid) /\ GoodRead(DueRead, sessions, valid)
        /\ NoRead \in ReadsOf /\ DueRead \in ReadsOf
    <2>1. NoRead = [state |-> "none", as |-> 0, copy |-> Unknown]
      BY DEF NoRead, NoToken
    <2>2. DueRead = [state |-> "due", as |-> 0, copy |-> Unknown]
      BY <2>1 DEF DueRead
    <2>3. NoRead \in ReadsOf /\ DueRead \in ReadsOf
      BY <1>4, <2>1, <2>2 DEF ReadsOf
    <2> QED BY <1>1, <2>1, <2>2, <2>3 DEF GoodRead
  <1>6. /\ stack \in Stacks
        /\ \A i \in DOMAIN stack : GoodRead(stack[i].loop, sessions, valid) /\ stack[i].shown = Unknown
    <2>1. CASE stack = <<>>
      BY <2>1 DEF Stacks
    <2>2. ASSUME NEW name \in {"Home", "SignIn"}, stack = <<Screen(name)>>
          PROVE  /\ stack \in Stacks
                 /\ \A i \in DOMAIN stack : GoodRead(stack[i].loop, sessions, valid) /\ stack[i].shown = Unknown
      <3>1. PICK loop \in {NoRead, DueRead} : Screen(name) = [name |-> name, shown |-> Unknown, loop |-> loop]
        BY DEF Screen
      <3>2. Screen(name) \in [name : Places, shown : Copies, loop : ReadsOf]
        BY <1>4, <1>5, <3>1 DEF Places
      <3>3. \A i \in DOMAIN stack : i = 1 /\ stack[i] = Screen(name)
        BY <2>2
      <3> QED BY <1>5, <2>2, <3>1, <3>2, <3>3 DEF Stacks
    <2> QED BY <1>3, <2>1, <2>2
  <1>7. TypeOK
    BY <1>1, <1>2, <1>3, <1>4, <1>6 DEF TypeOK, Places
  <1>8. ShownInv /\ ReadsInv
    BY <1>2, <1>3, <1>5, <1>6 DEF ShownInv, ReadsInv, Own, Unknown
  <1>9. GoodOps(ops, sessions, made)
    BY <1>1 DEF GoodOps
  <1> QED BY <1>7, <1>8, <1>9 DEF IInv

\* Every step keeps the invariant.
LEMMA SessionsKeep == IInv /\ [Next]_vars => IInv'
  <1> SUFFICES ASSUME IInv, [Next]_vars PROVE IInv'
    OBVIOUS
  <1>1. ASSUME UNCHANGED <<kind, users, web, mobile>> PROVE IInv'
    <2>1. UNCHANGED <<client, part, server, sessions, valid, token, ops, made, failures,
                      settings, page, refresh, stack, leaked>>
      BY <1>1 DEF kind, users, web, mobile
    <2>2. TypeOK'
      BY <2>1 DEF IInv, TypeOK
    <2>3. GoodOps(ops', sessions', made')
      BY <2>1 DEF IInv
    <2> QED BY <2>1, <2>2, <2>3 DEF IInv, ShownInv, ReadsInv
  <1>2. CASE UNCHANGED vars
    BY <1>1, <1>2 DEF vars, kind
  <1> QED BY <1>1, <1>2, WebKeeps, MobileKeeps, BackendKeeps DEF Next, InLists

\* The type invariant and what keeps users apart hold in every state.
THEOREM SessionsInvariant == Spec => []IInv
  BY SessionsInitially, SessionsKeep, PTL DEF Spec

-----------------------------------------------------------------------------
(* The properties.                                                         *)

\* What a client displays with a token stored is late or of the token's user, however
\* users sign in and out, and calls and reads overtake each other.
THEOREM OwnDisplayed == Spec => []DisplayedIsOwn
  <1>1. IInv => DisplayedIsOwn
    <2> SUFFICES ASSUME IInv, token # NoToken, NEW s \in Shown PROVE s.late \/ s.of \in {Nobody, sessions[token]}
      BY DEF DisplayedIsOwn
    <2>1. client = "web" => Own(settings, token, sessions)
      BY DEF IInv, ShownInv
    <2>2. client = "mobile" => \A i \in DOMAIN stack : Own(stack[i].shown, token, sessions)
      BY DEF IInv, ShownInv
    <2>3. client \in {"web", "mobile"}
      BY DEF IInv, TypeOK
    <2> QED BY <2>1, <2>2, <2>3 DEF Shown, Own
  <1> QED BY <1>1, SessionsInvariant, PTL

\* No way through the identity form leads to a submission that lacks anything.
THEOREM CompleteSubmitted == Spec => []SubmittedIsComplete
  <1>1. IInv => SubmittedIsComplete
    BY DEF IInv, GoodOps, GoodOp, SubmittedIsComplete
  <1> QED BY <1>1, SessionsInvariant, PTL

\* A call that is answered is gone: none that is left or made has its number.
LEMMA OpGone ==
  ASSUME IInv, NEW p \in ops, p.kind \in {"signin", "signout"}, NEW names, NEW Q, \A q \in Q : q.no = 0
  PROVE  p \notin LeftOps(ops \ {p}, names) \cup Q
  <1>1. /\ \A q \in ops : q \in Ops /\ (q.no = p.no /\ q.no > 0 => q = p)
        /\ p.no \in Nat /\ p.no > 0
    BY DEF IInv, GoodOps, GoodOp, Ops
  <1>2. ASSUME NEW q \in ops \ {p}, p = (IF q.at \in names THEN [q EXCEPT !.at = "left"] ELSE q) PROVE FALSE
    <2>1. q \in Ops /\ [q EXCEPT !.at = "left"].no = q.no
      BY <1>1 DEF Ops
    <2> QED BY <1>1, <1>2, <2>1
  <1>3. p \notin LeftOps(ops \ {p}, names)
    BY <1>2 DEF LeftOps
  <1> QED BY <1>1, <1>3

\* What a page displays next, it displays with the token that it was told.
LEMMA DisplayToken ==
  ASSUME IInv, NEW s, NEW t, NEW name, NEW rest, Display(s, t, name, rest)
  PROVE  /\ token' = t
         /\ \A p \in ops : p.kind \in {"signin", "signout"} /\ rest = ops \ {p} => p \notin ops'
  <1> DEFINE o == [Op("verify", Nobody, "left", 0, Info, Unknown) EXCEPT !.no = 0, !.as = t]
  <1>1. token' = t /\ ops' = LeftOps(rest, {page} \ {page'}) \cup DemoOps(page', s, t, settings)
    BY DEF Display
  <1>2. \A q \in DemoOps(page', s, t, settings) : q.no = 0
    <2>1. o.no = 0
      BY DEF Op
    <2>2. DemoOps(page', s, t, settings) \subseteq {o}
      BY DEF DemoOps
    <2> QED BY <2>1, <2>2
  <1> QED BY <1>1, <1>2, OpGone

\* A token that the backend accepts is dropped by a log-in, a log-out, or the late refusal
\* of a read made with an earlier one, and by nothing else.
THEOREM KeptToken == Spec => TokenKept
  <1> DEFINE Heard == \E p \in ops \ ops' : p.kind \in {"signin", "signout"} /\ p.state = "done"
             Late == \E r \in Reads : r.state = "refused" /\ r.as # token
  <1>1. ASSUME IInv, [Next]_vars, token \in valid, token' # token
        PROVE  Heard \/ (client = "mobile" /\ MobileLogout) \/ Late
    <2>1. ASSUME client = "web", WebNext PROVE Heard \/ Late
      <3>1. ASSUME NEW op, Make(op) PROVE FALSE
        BY <1>1, <3>1 DEF Make
      <3>2. ASSUME NEW s, NEW name, NEW rest, Display(s, token, name, rest) PROVE FALSE
        BY <1>1, <3>2, DisplayToken
      <3>3. CASE WebHear
        <4>1. PICK p \in ops : SignedIn(p) \/ SignedInUnseen(p) \/ Saved(p) \/ Verified(p) \/ SignedOut(p)
          BY <3>3 DEF WebHear
        <4>2. CASE SignedIn(p) \/ SignedOut(p)
          <5>1. p.kind \in {"signin", "signout"} /\ p.state = "done"
            BY <4>2 DEF SignedIn, SignedOut
          <5>2. \E s, t, name : Display(s, t, name, ops \ {p})
            BY <4>2 DEF SignedIn, SignedOut
          <5> QED BY <1>1, <5>1, <5>2, DisplayToken
        <4>3. CASE SignedInUnseen(p)
          BY <4>3 DEF SignedInUnseen
        <4>4. ~Saved(p) /\ ~Verified(p)
          BY <3>2 DEF Saved, Verified
        <4> QED BY <4>1, <4>2, <4>3, <4>4
      <3>4. CASE RefreshRefused
        <4>1. refresh.as \notin valid
          BY <1>1, <3>4 DEF IInv, ReadsInv, GoodRead, RefreshRefused
        <4> QED BY <1>1, <2>1, <3>4, <4>1 DEF Reads, RefreshRefused
      <3>5. ~RefreshServe /\ ~RefreshAsk /\ ~RefreshFailed
        BY <1>1 DEF RefreshServe, RefreshAsk, RefreshFailed, users
      <3>6. ~Refreshed /\ ~ChainDisplayName /\ \A name : ~Visit(name)
        BY <1>1, <3>2 DEF Refreshed, ChainDisplayName, Visit
      <3>7. \A u, prefs : ~Signin(u) /\ ~Signup(u) /\ ~SavePreferences(prefs) /\ ~Submit /\ ~Logout
        BY <3>1 DEF Signin, Signup, Enter, SavePreferences, Submit, Logout
      <3> QED BY <2>1, <3>3, <3>4, <3>5, <3>6, <3>7 DEF WebNext, RefreshLoop
    <2>2. ASSUME client = "mobile", MobileNext PROVE Heard \/ MobileLogout \/ Late
      <3>1. ASSUME NEW op, Make(op) PROVE FALSE
        BY <1>1, <3>1 DEF Make
      <3>2. CASE MobileHear
        <4>1. PICK p \in ops : MobileSignedIn(p)
          BY <1>1, <3>2 DEF MobileHear, MobileSaved, MobileVerified, MobileIgnored
        <4>2. p.kind = "signin" /\ p.state = "done"
          BY <4>1 DEF MobileSignedIn
        <4>3. ops' = ops \ {p} \/ \E names : ops' = LeftOps(ops \ {p}, names)
          BY <4>1 DEF MobileSignedIn, SetStackRoot
        <4>4. p \notin ops'
          <5>1. ASSUME NEW names, ops' = LeftOps(ops \ {p}, names) PROVE p \notin ops'
            <6>1. PICK Q : Q = {}
              OBVIOUS
            <6>2. p \notin LeftOps(ops \ {p}, names) \cup Q
              BY <1>1, <4>2, <6>1, OpGone
            <6> QED BY <5>1, <6>2
          <5> QED BY <4>3, <5>1
        <4> QED BY <4>2, <4>4
      <3>3. CASE Leaked
        <4>1. leaked.state = "refused"
          BY <1>1, <3>3 DEF Leaked, LeakHeard, ServeRead, users
        <4>2. leaked.as \notin valid
          BY <1>1, <4>1 DEF IInv, ReadsInv, GoodRead
        <4> QED BY <1>1, <2>2, <4>1, <4>2 DEF Reads
      <3>4. ASSUME NEW i \in DOMAIN stack, LoadUser(i) PROVE Late
        <4>1. stack[i].loop.state = "refused"
          BY <1>1, <3>4
             DEF LoadUser, LoadAsk, LoadServe, ServeRead, Loaded, SentToVerify, LoadFailed, LoadRefused, users
        <4>2. stack[i].loop.as \notin valid
          BY <1>1, <4>1 DEF IInv, ReadsInv, GoodRead
        <4> QED BY <1>1, <2>2, <4>1, <4>2 DEF Reads
      <3>5. ~OpenScreen /\ ~GoBack /\ ~TryAgain /\ ~RedirectLoggedIn
        BY <1>1 DEF OpenScreen, Push, GoBack, TryAgain, RedirectLoggedIn, users
      <3>6. \A u, prefs : ~MobileSignIn(u) /\ ~MobileSignUp(u) /\ ~MobileSave(prefs) /\ ~MobileSubmit
        BY <3>1 DEF MobileSignIn, MobileSignUp, MobileEnter, MobileSave, MobileSubmit
      <3> QED BY <2>2, <3>2, <3>3, <3>4, <3>5, <3>6 DEF MobileNext
    <2>3. ~BackendStep
      BY <1>1 DEF BackendStep, ServeOp, Expire
    <2>4. Next /\ ~UNCHANGED users
      BY <1>1 DEF vars, users
    <2> QED BY <2>1, <2>2, <2>3, <2>4 DEF Next, InSession, InLists, WebStep, MobileStep
  <1>2. IInv /\ [Next]_vars => [(token \in valid /\ token' # token) =>
                                  Heard \/ (client = "mobile" /\ MobileLogout) \/ Late]_vars
    BY <1>1
  <1> QED BY <1>2, SessionsInvariant, PTL DEF Spec, TokenKept

-----------------------------------------------------------------------------
(* Decisions: the calls.                                                   *)

\* What can be ordered does not change, and is among all orders.
LEMMA MineStays ==
  ASSUME UNCHANGED about
  PROVE  Mine' = Mine /\ Mine \subseteq Orders
  BY DEF Mine, Orders

\* What was carried out stays so.
LEMMA RealStays ==
  ASSUME NEW o, executed \subseteq executed', Real(o)
  PROVE  \E x \in executed' : x.order = o
  BY DEF Real

\* A call whose state is not "ok" needs no more than to be about the part looked at.
LEMMA RealKept ==
  ASSUME CallsReal, UNCHANGED about, CallsMade(Orders)', executed \subseteq executed',
         \A p \in posts' : p.order \in Mine
                             /\ (p.state = "ok" => about = "payment" \/ \E x \in executed' : x.order = p.order),
         \A x \in executed' : x.order \in Mine
  PROVE  CallsReal'
  <1>1. Mine' = Mine
    BY MineStays
  <1> QED BY <1>1 DEF CallsReal, Real

\* A step that makes no call and hears none.
LEMMA SameCalls ==
  ASSUME CallsReal, UNCHANGED about, UNCHANGED calls
  PROVE  CallsReal'
  <1>1. Mine' = Mine /\ posts' = posts /\ presses' = presses /\ executed' = executed
    BY MineStays DEF calls
  <1> QED BY <1>1 DEF CallsReal, CallsMade, Real

\* A press is about the part looked at, and its call waits for an answer.
LEMMA RealCall ==
  ASSUME CallsReal, UNCHANGED about, NEW o \in Mine, Call(o)
  PROVE  /\ CallsReal' /\ executed' = executed
         /\ presses' = [presses EXCEPT ![o] = @ + 1]
         /\ \A p \in posts' : p \in posts \/ (p.order = o /\ p.no = presses'[o] /\ p.heard /\ p.state = "sent")
  <1>1. CallsMade(Orders) /\ o \in Orders
    BY MineStays DEF CallsReal
  <1>2. /\ CallsMade(Orders)' /\ executed' = executed
        /\ presses' = [presses EXCEPT ![o] = @ + 1]
        /\ \A p \in posts' : p \in posts \/ (p.order = o /\ p.no = presses'[o] /\ p.heard /\ p.state = "sent")
    BY <1>1, CallMade
  <1>3. CallsReal'
    BY <1>2, RealKept DEF CallsReal, Real
  <1> QED BY <1>2, <1>3

\* A call that is carried out is carried out for the first time, and its "ok" is real.
LEMMA RealServe ==
  ASSUME CallsReal, UNCHANGED about, NEW p \in posts, Serve(p)
  PROVE  /\ CallsReal' /\ presses' = presses /\ p.order \in Mine
         /\ p.no \in 1..presses[p.order] /\ Press(p.order, p.no) \notin executed
         /\ executed' = executed \cup {Press(p.order, p.no)}
         /\ \A q \in posts' : \E r \in posts :
               q.order = r.order /\ q.no = r.no /\ q.heard = r.heard
  <1>1. /\ CallsMade(Orders)' /\ presses' = presses /\ p.no \in 1..presses[p.order]
        /\ Press(p.order, p.no) \notin executed
        /\ executed' = executed \cup {Press(p.order, p.no)}
        /\ \A q \in posts' : \E r \in posts :
               /\ q.order = r.order /\ q.no = r.no /\ q.heard = r.heard
               /\ q.state = "ok" => r.state = "ok" \/ r = p
    BY ServeMade DEF CallsReal
  <1>2. p.order \in Mine /\ Press(p.order, p.no).order = p.order
    BY DEF CallsReal, Press
  <1>3. \A q \in posts' : q.order \in Mine /\ (q.state = "ok" => about = "payment" \/ \E x \in executed' : x.order = q.order)
    BY <1>1, <1>2 DEF CallsReal, Real
  <1>4. CallsReal'
    BY <1>1, <1>2, <1>3, RealKept DEF CallsReal
  <1> QED BY <1>1, <1>2, <1>4

\* A call that is refused, or lost, carries nothing out.
LEMMA RealRefuse ==
  ASSUME CallsReal, UNCHANGED about, NEW p \in posts, Refuse(p)
  PROVE  /\ CallsReal' /\ presses' = presses /\ executed' = executed
         /\ \A q \in posts' : \E r \in posts :
               q.order = r.order /\ q.no = r.no /\ q.heard = r.heard
  <1>1. /\ CallsMade(Orders)' /\ presses' = presses /\ executed' = executed
        /\ \A q \in posts' : \E r \in posts :
               /\ q.order = r.order /\ q.no = r.no /\ q.heard = r.heard
               /\ q.state = "ok" => r.state = "ok"
    BY RefuseMade DEF CallsReal
  <1>2. CallsReal'
    BY <1>1, RealKept DEF CallsReal, Real
  <1> QED BY <1>1, <1>2

\* A payment link's call that nothing comes of is answered all the same.
LEMMA RealUndone ==
  ASSUME CallsReal, about = "payment", UNCHANGED about, NEW p \in posts, NothingDone(p)
  PROVE  CallsReal' /\ presses' = presses /\ executed' = executed
  <1>1. PICK state \in {"ok", "error"} : Answer(p, state)
    BY DEF NothingDone
  <1>2. presses' = presses /\ executed' = executed
    BY DEF NothingDone
  <1>3. CallsMade(Orders)' /\ \A q \in posts' : \E r \in posts : q.order = r.order
    BY <1>1, <1>2, AnswerMade DEF CallsReal
  <1>4. \A q \in posts' : q.order \in Mine
    BY <1>3 DEF CallsReal
  <1>5. CallsReal'
    BY <1>2, <1>3, <1>4, RealKept DEF CallsReal
  <1> QED BY <1>2, <1>5

\* An answer "ok" that is heard is real, but for a payment link's.
LEMMA RealHear ==
  ASSUME CallsReal, UNCHANGED about, NEW p, NEW state, Hear(p, state)
  PROVE  /\ CallsReal' /\ presses' = presses /\ executed' = executed
         /\ p \in posts /\ p.heard /\ p.state = state /\ posts' = posts \ {p}
         /\ p.order \in Mine /\ (state = "ok" => about = "payment" \/ Real(p.order))
  <1>1. /\ CallsMade(Orders)' /\ presses' = presses /\ executed' = executed
        /\ p \in posts /\ p.heard /\ p.state = state /\ posts' = posts \ {p}
    BY HearMade DEF CallsReal
  <1>2. CallsReal'
    BY <1>1, RealKept DEF CallsReal, Real
  <1> QED BY <1>1, <1>2 DEF CallsReal

\* Calls whose screen was left are heard by nobody; their presses stay what they were.
LEMMA RealUnhear ==
  ASSUME CallsReal, UNCHANGED about, NEW P, P \subseteq posts, Unhear(P)
  PROVE  /\ CallsReal' /\ presses' = presses /\ executed' = executed
         /\ \A q \in posts' : q \in posts \ P \/ ~q.heard
  <1>1. /\ CallsMade(Orders)' /\ presses' = presses /\ executed' = executed
        /\ \A q \in posts' :
               \/ q \in posts \ P
               \/ ~q.heard /\ q.state = "sent" /\ \E r \in P : q.order = r.order /\ q.no = r.no
    BY UnhearMade DEF CallsReal
  <1>2. CallsReal'
    BY <1>1, RealKept DEF CallsReal, Real
  <1> QED BY <1>1, <1>2

-----------------------------------------------------------------------------
(* Decisions: pre-approvals.                                               *)

\* A step of the approvals keeps the invariant if it keeps its parts about them.
LEMMA ApprovalsPart ==
  ASSUME DecisionsInv, about = "approvals", UNCHANGED <<about, linkVars, adminVars, resetVars>>,
         CallsReal', ApprovalsInv'
  PROVE  DecisionsInv'
  BY DEF DecisionsInv, OthersQuiet, linkVars, linkPage, linkBackend, adminVars, forms, resetVars, screens

\* The dialogs and what was decided, apart from their types.
Waiting ==
    ~left =>
      /\ \A p \in posts : p.heard => modal[p.order.decision].open /\ p.order = Order(p.order.decision)
      /\ \A d \in Dialogs : modal[d].status = "success" => modal[d].open /\ Real(Order(d))

\* If neither the backend nor what was carried out changes, what was decided stays final.
LEMMA SameDecided ==
  ASSUME ApprovalsInv, UNCHANGED approvalBackend, executed' = executed,
         approvals' \in [Approvals -> Statuses \cup {"none"}],
         inModal' \in [Sections -> Approvals \cup {NoApproval}], left' \in BOOLEAN,
         modal' \in [Dialogs -> [open : BOOLEAN, status : {"edit", "success", "fail"}, error : BOOLEAN]],
         \A d \in Dialogs : modal'[d].open => inModal'[SectionOf[d]] \in Approvals,
         Waiting'
  PROVE  ApprovalsInv'
  BY DEF ApprovalsInv, Waiting, approvalBackend

\* A status that is found acceptable is remembered as read.
LEMMA CheckKeeps ==
  ASSUME ApprovalsInv, NEW o \in ApprovalOrders, NEW no \in Nat, Checks(o, no),
         status[o.about] \in ValidStatuses(o.decision),
         UNCHANGED <<status, raced, pageVars, dialogVars>>, posts' = posts, executed' = executed
  PROVE  ApprovalsInv'
  <1> USE DEF pageVars, dialogVars
  <1> DEFINE new == [order |-> o, no |-> no, read |-> status[o.about]]
  <1>1. deciding' = deciding \cup {new}
    BY DEF Checks
  <1>2. status[o.about] \in Statuses
    BY DEF ApprovalsInv, ApprovalOrders
  <1>3. new \in [order : ApprovalOrders, no : Nat, read : Statuses] /\ new.read \in ValidStatuses(new.order.decision)
    BY <1>2
  <1>4. deciding' \subseteq [order : ApprovalOrders, no : Nat, read : Statuses]
    BY <1>1, <1>3 DEF ApprovalsInv
  <1>5. \A x \in deciding' : x.read \in ValidStatuses(x.order.decision)
    BY <1>1, <1>3 DEF ApprovalsInv
  <1>6. Waiting'
    BY DEF ApprovalsInv, Waiting, Order, Real
  <1> QED BY <1>4, <1>5, <1>6 DEF ApprovalsInv, Waiting, ValidStatuses

\* What was carried out about an approval, of which every write saw the ones before it,
\* was an approval, if there is anything left to decide, and that is to close it.
LEMMA StillToDecide ==
  ASSUME ApprovalsInv, NEW x \in executed, NEW d \in Dialogs, x.order \in ApprovalOrders,
         x.order.about \notin raced, status[x.order.about] \in ValidStatuses(d)
  PROVE  x.order.decision = "valid" /\ d = "closed"
  <1>1. x.order.decision \in Dialogs
    BY DEF ApprovalOrders
  <1>2. status[x.order.about] \in IF d = "closed" THEN {"pending", "valid"} ELSE {"pending"}
    BY DEF ValidStatuses
  <1> QED BY <1>1, <1>2 DEF ApprovalsInv, Dialogs

\* Writing keeps what was decided final, or did not see another write.
LEMMA WriteStatusKeeps ==
  ASSUME CallsReal, ApprovalsInv, about = "approvals", NEW x \in deciding, WriteStatus(x),
         NEW new, new.order = x.order, executed' \subseteq executed \cup {new}, Waiting'
  PROVE  ApprovalsInv'
  <1> USE DEF pageVars, dialogVars
  <1> DEFINE a == x.order.about
             d == x.order.decision
             Holds(y) == status'[y.order.about] \in
                           IF y.order.decision = "valid" THEN {"valid", "closed"} ELSE {y.order.decision}
  <1>1. /\ deciding' = deciding \ {x} /\ status' = [status EXCEPT ![a] = d]
        /\ raced' = IF status[a] = x.read THEN raced ELSE raced \cup {a}
        /\ UNCHANGED <<pageVars, dialogVars>>
    BY DEF WriteStatus
  <1>2. x.order \in ApprovalOrders /\ a \in Approvals /\ d \in Dialogs /\ x.read \in ValidStatuses(d)
    BY DEF ApprovalsInv, ApprovalOrders
  <1>3. /\ deciding' \subseteq [order : ApprovalOrders, no : Nat, read : Statuses]
        /\ \A y \in deciding' : y.read \in ValidStatuses(y.order.decision)
        /\ raced' \subseteq Approvals /\ raced \subseteq raced'
    BY <1>1, <1>2 DEF ApprovalsInv
  <1>4. status' \in [Approvals -> Statuses] /\ status'[a] = d
        /\ \A b \in Approvals : b # a => status'[b] = status[b]
    BY <1>1, <1>2 DEF ApprovalsInv, Statuses
  <1>5. \A y \in executed : y.order \in ApprovalOrders /\ y.order.about \in Approvals
    BY DEF CallsReal, Mine, ApprovalOrders
  <1>6. ASSUME NEW y \in executed, y.order.about = a, a \notin raced'
        PROVE  y.order.decision = "valid" /\ d = "closed"
    BY <1>1, <1>2, <1>5, <1>6, StillToDecide
  <1>7. ASSUME NEW y \in executed', y.order.about \notin raced' PROVE Holds(y)
    <2>1. CASE y = new
      BY <1>4, <2>1
    <2>2. CASE y \in executed /\ y.order.about = a
      <3>1. y.order.decision = "valid" /\ d = "closed"
        BY <1>6, <1>7, <2>2
      <3> QED BY <1>4, <2>2, <3>1
    <2>3. CASE y \in executed /\ y.order.about # a
      BY <1>3, <1>4, <1>5, <1>7, <2>3 DEF ApprovalsInv
    <2> QED BY <2>1, <2>2, <2>3
  <1>8. ASSUME NEW y \in executed', NEW z \in executed', y.order.about \notin raced', y.order = z.order
        PROVE  y = z
    <2>1. CASE y \in executed /\ z \in executed
      BY <1>3, <1>8, <2>1 DEF ApprovalsInv
    <2>2. CASE y = new /\ z \in executed
      BY <1>6, <1>8, <2>2
    <2>3. CASE y \in executed /\ z = new
      BY <1>6, <1>8, <2>3
    <2> QED BY <2>1, <2>2, <2>3
  <1>9. /\ approvals' \in [Approvals -> Statuses \cup {"none"}]
        /\ inModal' \in [Sections -> Approvals \cup {NoApproval}] /\ left' \in BOOLEAN
        /\ modal' \in [Dialogs -> [open : BOOLEAN, status : {"edit", "success", "fail"}, error : BOOLEAN]]
        /\ \A e \in Dialogs : modal'[e].open => inModal'[SectionOf[e]] \in Approvals
    BY <1>1 DEF ApprovalsInv
  <1> QED BY <1>3, <1>4, <1>7, <1>8, <1>9 DEF ApprovalsInv, Waiting, ValidStatuses

\* A call is refused, or its status written later than it was read.
LEMMA UpdateStatusKeeps ==
  ASSUME CallsReal, ApprovalsInv, about = "approvals", UNCHANGED about, NEW p \in posts,
         CheckStatus(p) \/ UpdateStatus(p) \/ LoseUpdate(p)
  PROVE  CallsReal' /\ ApprovalsInv'
  <1> USE DEF pageVars, dialogVars
  <1>0. p.order \in ApprovalOrders /\ p.no \in Nat
    BY DEF CallsReal, Mine, CallsMade, Posts
  <1>1. ASSUME Refuse(p), UNCHANGED <<status, raced, pageVars, dialogVars>>, deciding' \subseteq deciding
        PROVE  CallsReal' /\ ApprovalsInv'
    <2>1. /\ CallsReal' /\ executed' = executed
          /\ \A q \in posts' : \E r \in posts : q.order = r.order /\ q.no = r.no /\ q.heard = r.heard
      BY <1>1, RealRefuse
    <2>2. Waiting'
      BY <1>1, <2>1 DEF ApprovalsInv, Waiting, Real, Order
    <2>3. deciding' \subseteq [order : ApprovalOrders, no : Nat, read : Statuses]
          /\ \A x \in deciding' : x.read \in ValidStatuses(x.order.decision)
      BY <1>1 DEF ApprovalsInv
    <2> QED BY <1>1, <2>1, <2>2, <2>3 DEF ApprovalsInv, Waiting, ValidStatuses
  <1>2. CASE CheckStatus(p)
    <2>1. CASE status[p.order.about] \in ValidStatuses(p.order.decision)
      <3>1. Checks(p.order, p.no) /\ UNCHANGED calls /\ UNCHANGED <<status, raced, pageVars, dialogVars>>
        BY <1>2, <2>1 DEF CheckStatus
      <3>2. CallsReal' /\ posts' = posts /\ executed' = executed
        BY <3>1, SameCalls DEF calls
      <3> QED BY <1>0, <2>1, <3>1, <3>2, CheckKeeps
    <2>2. CASE status[p.order.about] \notin ValidStatuses(p.order.decision)
      BY <1>1, <1>2, <2>2 DEF CheckStatus
    <2> QED BY <2>1, <2>2
  <1>3. CASE LoseUpdate(p)
    BY <1>1, <1>3 DEF LoseUpdate
  <1>4. CASE UpdateStatus(p)
    <2>1. PICK x \in deciding : Press(x.order, x.no) = Press(p.order, p.no) /\ WriteStatus(x) /\ Serve(p)
      BY <1>4 DEF UpdateStatus
    <2> DEFINE new == Press(p.order, p.no)
    <2>2. /\ CallsReal' /\ executed' = executed \cup {new}
          /\ \A q \in posts' : \E r \in posts : q.order = r.order /\ q.no = r.no /\ q.heard = r.heard
      BY <2>1, RealServe
    <2>3. new.order = x.order
      BY <2>1 DEF Press
    <2>4. UNCHANGED <<pageVars, dialogVars>>
      BY <2>1 DEF WriteStatus
    <2> HIDE DEF new
    <2>5. Waiting'
      BY <2>2, <2>4 DEF ApprovalsInv, Waiting, Real, Order
    <2> QED BY <2>1, <2>2, <2>3, <2>5, WriteStatusKeeps
  <1> QED BY <1>2, <1>3, <1>4

\* Every step of the backend on pre-approvals.
LEMMA ApprovalBackendKeeps ==
  ASSUME CallsReal, ApprovalsInv, about = "approvals", UNCHANGED about, ApprovalBackend
  PROVE  CallsReal' /\ ApprovalsInv'
  <1> USE DEF pageVars, dialogVars
  <1>1. ASSUME NEW a \in Approvals, BillerCloses(a) PROVE CallsReal' /\ ApprovalsInv'
    <2> DEFINE o == [about |-> a, decision |-> "closed"]
    <2>1. /\ status[a] \in ValidStatuses("closed") /\ Checks(o, 0)
          /\ UNCHANGED <<status, raced, pageVars, dialogVars>> /\ UNCHANGED calls
      BY <1>1 DEF BillerCloses
    <2>2. CallsReal' /\ posts' = posts /\ executed' = executed
      BY <2>1, SameCalls DEF calls
    <2>3. o \in ApprovalOrders /\ o.about = a /\ o.decision = "closed"
      BY DEF ApprovalOrders, Dialogs
    <2> HIDE DEF o
    <2> QED BY <2>1, <2>2, <2>3, CheckKeeps
  <1>2. CASE ClosedByBiller
    <2>1. PICK x \in deciding : WriteStatus(x) /\ UNCHANGED calls
      BY <1>2 DEF ClosedByBiller
    <2>2. CallsReal' /\ posts' = posts /\ executed' = executed
      BY <2>1, SameCalls DEF calls
    <2>3. UNCHANGED <<pageVars, dialogVars>>
      BY <2>1 DEF WriteStatus
    <2>4. Waiting'
      BY <2>2, <2>3 DEF ApprovalsInv, Waiting, Order, Real
    <2>5. executed' \subseteq executed \cup {x}
      BY <2>2
    <2> QED BY <2>1, <2>2, <2>4, <2>5, WriteStatusKeeps
  <1> QED BY <1>1, <1>2, UpdateStatusKeeps DEF ApprovalBackend

\* Sections that disappear take their dialogs, and the answers to them, along.
LEMMA GoneKeeps ==
  ASSUME CallsReal, ApprovalsInv, about = "approvals", UNCHANGED about, NEW S, Gone(S), UNCHANGED approvalBackend,
         approvals' \in [Approvals -> Statuses \cup {"none"}]
  PROVE  CallsReal' /\ ApprovalsInv'
  <1> DEFINE P == {p \in posts : SectionOf[p.order.decision] \in S}
  <1>1. /\ inModal' = [s \in Sections |-> IF s \in S THEN NoApproval ELSE inModal[s]]
        /\ modal' = [d \in Dialogs |-> IF SectionOf[d] \in S THEN NoDialog ELSE modal[d]]
        /\ Unhear(P) /\ left' = left
    BY DEF Gone
  <1>2. P \subseteq posts
    OBVIOUS
  <1>3. /\ CallsReal' /\ executed' = executed
        /\ \A q \in posts' : q \in posts \ P \/ ~q.heard
    <2> HIDE DEF P
    <2> QED BY <1>1, <1>2, RealUnhear
  <1>4. inModal' \in [Sections -> Approvals \cup {NoApproval}] /\ left' \in BOOLEAN
    BY <1>1 DEF ApprovalsInv
  <1>5. modal' \in [Dialogs -> [open : BOOLEAN, status : {"edit", "success", "fail"}, error : BOOLEAN]]
    BY <1>1 DEF ApprovalsInv, NoDialog
  <1>6. \A d \in Dialogs : SectionOf[d] \in Sections
    BY DEF SectionOf, Sections, Dialogs
  <1>7. \A d \in Dialogs : SectionOf[d] \in S => ~modal'[d].open /\ modal'[d].status = "edit"
    BY <1>1 DEF NoDialog
  <1>8. \A d \in Dialogs : SectionOf[d] \notin S =>
           modal'[d] = modal[d] /\ inModal'[SectionOf[d]] = inModal[SectionOf[d]] /\ Order(d)' = Order(d)
    BY <1>1, <1>6 DEF Order
  <1>9. \A d \in Dialogs : modal'[d].open => inModal'[SectionOf[d]] \in Approvals
    BY <1>7, <1>8 DEF ApprovalsInv
  <1>10. Waiting'
    <2> SUFFICES ASSUME ~left
                 PROVE  /\ \A p \in posts' : p.heard => /\ modal'[p.order.decision].open
                                                         /\ p.order = Order(p.order.decision)'
                        /\ \A d \in Dialogs : modal'[d].status = "success" => modal'[d].open /\ Real(Order(d))'
      BY <1>1 DEF Waiting, Order, Real
    <2>1. \A p \in posts : p.order.decision \in Dialogs
      BY DEF CallsReal, Mine, ApprovalOrders
    <2>2. ASSUME NEW p \in posts', p.heard
          PROVE  modal'[p.order.decision].open /\ p.order = Order(p.order.decision)'
      <3>1. p \in posts /\ SectionOf[p.order.decision] \notin S
        BY <1>3, <2>2
      <3> QED BY <1>8, <2>1, <2>2, <3>1 DEF ApprovalsInv
    <2>3. ASSUME NEW d \in Dialogs, modal'[d].status = "success"
          PROVE  modal'[d].open /\ Real(Order(d))'
      <3>1. SectionOf[d] \notin S
        BY <1>7, <2>3
      <3> QED BY <1>3, <1>8, <2>3, <3>1 DEF ApprovalsInv, Real
    <2> QED BY <2>2, <2>3
  <1> QED BY <1>3, <1>4, <1>5, <1>9, <1>10, SameDecided

\* One dialog changes.
LEMMA ReplacedDialog ==
  ASSUME modal \in [Dialogs -> [open : BOOLEAN, status : {"edit", "success", "fail"}, error : BOOLEAN]],
         NEW d \in Dialogs, NEW new \in [open : BOOLEAN, status : {"edit", "success", "fail"}, error : BOOLEAN],
         modal' = [modal EXCEPT ![d] = new]
  PROVE  /\ modal' \in [Dialogs -> [open : BOOLEAN, status : {"edit", "success", "fail"}, error : BOOLEAN]]
         /\ modal'[d] = new /\ \A e \in Dialogs : e # d => modal'[e] = modal[e]
  <1> DEFINE R == [open : BOOLEAN, status : {"edit", "success", "fail"}, error : BOOLEAN]
  <1>1. modal \in [Dialogs -> R] /\ new \in R
    OBVIOUS
  <1> HIDE DEF R
  <1>2. modal' \in [Dialogs -> R] /\ modal'[d] = new /\ \A e \in Dialogs : e # d => modal'[e] = modal[e]
    BY <1>1
  <1> QED BY <1>2 DEF R

\* It stays open or closed.
LEMMA ChangedDialog ==
  ASSUME modal \in [Dialogs -> [open : BOOLEAN, status : {"edit", "success", "fail"}, error : BOOLEAN]],
         NEW d \in Dialogs, NEW st \in {"edit", "success", "fail"}, NEW error \in BOOLEAN,
         modal' = [modal EXCEPT ![d] = [@ EXCEPT !.status = st, !.error = error]]
  PROVE  /\ modal' \in [Dialogs -> [open : BOOLEAN, status : {"edit", "success", "fail"}, error : BOOLEAN]]
         /\ modal'[d].status = st /\ \A e \in Dialogs : modal'[e].open = modal[e].open
         /\ \A e \in Dialogs : e # d => modal'[e] = modal[e]
  <1>1. PICK new : new = [modal[d] EXCEPT !.status = st, !.error = error]
    OBVIOUS
  <1>2. modal[d] \in [open : BOOLEAN, status : {"edit", "success", "fail"}, error : BOOLEAN]
    OBVIOUS
  <1>3. new \in [open : BOOLEAN, status : {"edit", "success", "fail"}, error : BOOLEAN]
        /\ new.status = st /\ new.open = modal[d].open
    BY <1>1, <1>2
  <1>4. modal' = [modal EXCEPT ![d] = new]
    BY <1>1
  <1>5. /\ modal' \in [Dialogs -> [open : BOOLEAN, status : {"edit", "success", "fail"}, error : BOOLEAN]]
        /\ modal'[d] = new /\ \A e \in Dialogs : e # d => modal'[e] = modal[e]
    BY <1>3, <1>4, ReplacedDialog
  <1> QED BY <1>3, <1>5

\* A dialog that is opened shows the approval of its section, and nothing done yet.
LEMMA OpenDialogKeeps ==
  ASSUME CallsReal, ApprovalsInv, about = "approvals", UNCHANGED about,
         NEW d \in Dialogs, NEW a \in Approvals, OpenDialog(d, a)
  PROVE  CallsReal' /\ ApprovalsInv'
  <1>1. /\ \A e \in Dialogs : ~modal[e].open
        /\ inModal' = [inModal EXCEPT ![SectionOf[d]] = a]
        /\ modal' = [modal EXCEPT ![d].open = TRUE]
        /\ UNCHANGED approvalBackend /\ approvals' = approvals /\ left' = left /\ UNCHANGED calls
    BY DEF OpenDialog, pageVars
  <1>2. CallsReal' /\ posts' = posts /\ executed' = executed
    BY <1>1, SameCalls DEF calls
  <1>3. SectionOf[d] \in Sections
    BY DEF SectionOf, Sections, Dialogs
  <1>4. inModal' \in [Sections -> Approvals \cup {NoApproval}] /\ inModal'[SectionOf[d]] = a
    BY <1>1, <1>3 DEF ApprovalsInv
  <1>5. modal' \in [Dialogs -> [open : BOOLEAN, status : {"edit", "success", "fail"}, error : BOOLEAN]]
        /\ \A e \in Dialogs : modal'[e].status = modal[e].status /\ (e # d => ~modal'[e].open)
    <2>1. PICK new : new = [modal[d] EXCEPT !.open = TRUE]
      OBVIOUS
    <2>2. modal' = [modal EXCEPT ![d] = new]
      BY <1>1, <2>1
    <2>3. new \in [open : BOOLEAN, status : {"edit", "success", "fail"}, error : BOOLEAN]
          /\ new.status = modal[d].status
      <3>1. modal[d] \in [open : BOOLEAN, status : {"edit", "success", "fail"}, error : BOOLEAN]
        BY DEF ApprovalsInv
      <3> QED BY <2>1, <3>1
    <2>4. /\ modal' \in [Dialogs -> [open : BOOLEAN, status : {"edit", "success", "fail"}, error : BOOLEAN]]
          /\ modal'[d] = new /\ \A e \in Dialogs : e # d => modal'[e] = modal[e]
      BY <2>2, <2>3, ReplacedDialog DEF ApprovalsInv
    <2> QED BY <1>1, <2>3, <2>4
  <1>6. \A e \in Dialogs : modal'[e].open => inModal'[SectionOf[e]] \in Approvals
    BY <1>4, <1>5
  <1>7. Waiting'
    <2>1. ~left => (\A p \in posts : ~p.heard) /\ \A e \in Dialogs : modal[e].status # "success"
      <3>1. \A p \in posts : p.order.decision \in Dialogs
        BY DEF CallsReal, Mine, ApprovalOrders
      <3> QED BY <1>1, <3>1 DEF ApprovalsInv
    <2> QED BY <1>1, <1>2, <1>5, <2>1 DEF Waiting
  <1> QED BY <1>1, <1>2, <1>4, <1>5, <1>6, <1>7, SameDecided DEF ApprovalsInv

\* A dialog whose buttons are pressed waits for the answer about what it displays.
LEMMA UpdateApprovalKeeps ==
  ASSUME CallsReal, ApprovalsInv, about = "approvals", UNCHANGED about,
         NEW d \in Dialogs, UpdateApproval(d)
  PROVE  CallsReal' /\ ApprovalsInv'
  <1>1. /\ modal[d].open /\ Call(Order(d))
        /\ modal' = [modal EXCEPT ![d] = [@ EXCEPT !.status = "edit", !.error = FALSE]]
        /\ UNCHANGED approvalBackend /\ approvals' = approvals /\ inModal' = inModal /\ left' = left
    BY DEF UpdateApproval, pageVars
  <1>2. Order(d) \in Mine /\ Order(d).decision = d
    BY <1>1 DEF Mine, Order, ApprovalOrders, ApprovalsInv
  <1>3. /\ CallsReal' /\ executed' = executed
        /\ \A p \in posts' : p \in posts \/ (p.order = Order(d) /\ p.heard)
    BY <1>1, <1>2, RealCall
  <1>4. /\ modal' \in [Dialogs -> [open : BOOLEAN, status : {"edit", "success", "fail"}, error : BOOLEAN]]
        /\ modal'[d].status = "edit" /\ \A e \in Dialogs : modal'[e].open = modal[e].open
        /\ \A e \in Dialogs : e # d => modal'[e] = modal[e]
    BY <1>1, ChangedDialog DEF ApprovalsInv
  <1>5. \A e \in Dialogs : Order(e)' = Order(e)
    BY <1>1 DEF Order
  <1>6. Waiting'
    <2> SUFFICES ASSUME ~left
                 PROVE  /\ \A p \in posts' : p.heard => /\ modal'[p.order.decision].open
                                                         /\ p.order = Order(p.order.decision)'
                        /\ \A e \in Dialogs : modal'[e].status = "success" => modal'[e].open /\ Real(Order(e))'
      BY <1>1 DEF Waiting, Order, Real
    <2>1. \A p \in posts : p.order.decision \in Dialogs
      BY DEF CallsReal, Mine, ApprovalOrders
    <2>2. \A p \in posts' : p.heard => modal'[p.order.decision].open /\ p.order = Order(p.order.decision)'
      BY <1>1, <1>2, <1>3, <1>4, <1>5, <2>1 DEF ApprovalsInv
    <2>3. \A e \in Dialogs : modal'[e].status = "success" => modal'[e].open /\ Real(Order(e))'
      BY <1>1, <1>3, <1>4, <1>5 DEF ApprovalsInv, Real
    <2> QED BY <2>2, <2>3
  <1>7. \A e \in Dialogs : modal'[e].open => inModal'[SectionOf[e]] \in Approvals
    BY <1>1, <1>4 DEF ApprovalsInv
  <1> QED BY <1>1, <1>3, <1>4, <1>6, <1>7, SameDecided DEF ApprovalsInv

\* A dialog that shows an error shows no success; the others stay.
LEMMA FailsKeeps ==
  ASSUME ApprovalsInv, about = "approvals", NEW d \in Dialogs, Fails(d) \/ UNCHANGED modal,
         posts' \subseteq posts, executed' = executed, UNCHANGED <<approvalBackend, approvals, inModal, left>>,
         \A p \in posts : p.order.decision \in Dialogs
  PROVE  ApprovalsInv'
  <1>1. /\ modal' \in [Dialogs -> [open : BOOLEAN, status : {"edit", "success", "fail"}, error : BOOLEAN]]
        /\ \A e \in Dialogs : modal'[e].open = modal[e].open
        /\ \A e \in Dialogs : modal'[e].status = "success" => modal[e].status = "success"
    BY ChangedDialog DEF ApprovalsInv, Fails
  <1>2. \A e \in Dialogs : Order(e)' = Order(e)
    BY DEF Order
  <1>3. Waiting'
    <2> SUFFICES ASSUME ~left
                 PROVE  /\ \A p \in posts' : p.heard => /\ modal'[p.order.decision].open
                                                         /\ p.order = Order(p.order.decision)'
                        /\ \A e \in Dialogs : modal'[e].status = "success" => modal'[e].open /\ Real(Order(e))'
      BY DEF Waiting, Order, Real
    <2> QED BY <1>1, <1>2 DEF ApprovalsInv, Real
  <1>4. \A e \in Dialogs : modal'[e].open => inModal'[SectionOf[e]] \in Approvals
    BY <1>1 DEF ApprovalsInv
  <1> QED BY <1>1, <1>3, <1>4, SameDecided DEF ApprovalsInv

\* A dialog shows success once the answer to its own call is heard.
LEMMA UpdatedKeeps ==
  ASSUME CallsReal, ApprovalsInv, about = "approvals", UNCHANGED about, NEW p \in posts, Updated(p)
  PROVE  CallsReal' /\ ApprovalsInv'
  <1> DEFINE d == p.order.decision
  <1>1. /\ Hear(p, "ok") /\ modal' = [modal EXCEPT ![d].status = "success"]
        /\ UNCHANGED approvalBackend /\ approvals' = approvals /\ inModal' = inModal /\ left' = left
    BY DEF Updated, pageVars
  <1>2. /\ CallsReal' /\ executed' = executed /\ posts' \subseteq posts
        /\ p.heard /\ Real(p.order)
    BY <1>1, RealHear
  <1>3. \A q \in posts : q.order.decision \in Dialogs
    BY DEF CallsReal, Mine, ApprovalOrders
  <1>4. /\ modal' \in [Dialogs -> [open : BOOLEAN, status : {"edit", "success", "fail"}, error : BOOLEAN]]
        /\ \A e \in Dialogs : modal'[e].open = modal[e].open
        /\ \A e \in Dialogs : e # d => modal'[e] = modal[e]
    BY <1>1, <1>3 DEF ApprovalsInv
  <1>5. \A e \in Dialogs : Order(e)' = Order(e)
    BY <1>1 DEF Order
  <1>6. Waiting'
    <2> SUFFICES ASSUME ~left
                 PROVE  /\ \A q \in posts' : q.heard => /\ modal'[q.order.decision].open
                                                         /\ q.order = Order(q.order.decision)'
                        /\ \A e \in Dialogs : modal'[e].status = "success" => modal'[e].open /\ Real(Order(e))'
      BY <1>1 DEF Waiting, Order, Real
    <2>1. modal[d].open /\ p.order = Order(d)
      BY <1>2 DEF ApprovalsInv
    <2> QED BY <1>2, <1>3, <1>4, <1>5, <2>1 DEF ApprovalsInv, Real
  <1>7. \A e \in Dialogs : modal'[e].open => inModal'[SectionOf[e]] \in Approvals
    BY <1>1, <1>4 DEF ApprovalsInv
  <1> QED BY <1>1, <1>2, <1>4, <1>6, <1>7, SameDecided DEF ApprovalsInv

\* A dialog that is closed while its call is under way is remembered as left.
LEMMA CloseDialogKeeps ==
  ASSUME CallsReal, ApprovalsInv, about = "approvals", UNCHANGED about, NEW d \in Dialogs, CloseDialog(d)
  PROVE  CallsReal' /\ ApprovalsInv'
  <1>1. /\ modal' = [modal EXCEPT ![d] = NoDialog] /\ UNCHANGED calls
        /\ left' = (left \/ refreshing[d] > 0 \/ \E p \in posts : p.heard /\ p.order.decision = d)
        /\ UNCHANGED approvalBackend /\ approvals' = approvals /\ inModal' = inModal
    BY DEF CloseDialog, pageVars
  <1>2. CallsReal' /\ posts' = posts /\ executed' = executed
    BY <1>1, SameCalls DEF calls
  <1>3. /\ modal' \in [Dialogs -> [open : BOOLEAN, status : {"edit", "success", "fail"}, error : BOOLEAN]]
        /\ ~modal'[d].open /\ modal'[d].status = "edit"
        /\ \A e \in Dialogs : e # d => modal'[e] = modal[e]
    BY <1>1 DEF ApprovalsInv, NoDialog
  <1>4. left' \in BOOLEAN
    BY <1>1
  <1>5. \A e \in Dialogs : Order(e)' = Order(e)
    BY <1>1 DEF Order
  <1>6. Waiting'
    <2> SUFFICES ASSUME ~left'
                 PROVE  /\ \A p \in posts' : p.heard => /\ modal'[p.order.decision].open
                                                         /\ p.order = Order(p.order.decision)'
                        /\ \A e \in Dialogs : modal'[e].status = "success" => modal'[e].open /\ Real(Order(e))'
      BY DEF Waiting, Order, Real
    <2>1. ~left /\ \A p \in posts : p.heard => p.order.decision # d
      BY <1>1
    <2>2. \A p \in posts : p.order.decision \in Dialogs
      BY DEF CallsReal, Mine, ApprovalOrders
    <2> QED BY <1>2, <1>3, <1>5, <2>1, <2>2 DEF ApprovalsInv, Real
  <1>7. \A e \in Dialogs : modal'[e].open => inModal'[SectionOf[e]] \in Approvals
    BY <1>1, <1>3 DEF ApprovalsInv
  <1> QED BY <1>1, <1>2, <1>3, <1>4, <1>6, <1>7, SameDecided DEF ApprovalsInv

\* Every step of the pages with pre-approvals.
LEMMA ApprovalClientKeeps ==
  ASSUME CallsReal, ApprovalsInv, about = "approvals", UNCHANGED about, ApprovalClient
  PROVE  CallsReal' /\ ApprovalsInv'
  <1>1. CASE OpenPage \/ FetchFailed
    <2>1. /\ UNCHANGED calls /\ UNCHANGED approvalBackend
          /\ inModal' = inModal /\ modal' = modal /\ left' = left
          /\ approvals' \in [Approvals -> Statuses \cup {"none"}]
      BY <1>1 DEF OpenPage, FetchFailed, dialogVars, ApprovalsInv
    <2>2. CallsReal' /\ posts' = posts /\ executed' = executed
      BY <2>1, SameCalls DEF calls
    <2>3. Waiting'
      BY <2>1, <2>2 DEF ApprovalsInv, Waiting, Order, Real
    <2> QED BY <2>1, <2>2, <2>3, SameDecided DEF ApprovalsInv
  <1>2. CASE FetchApprovals
    <2>1. PICK S : S = {s \in Sections : ~Shows(status, s)}
      OBVIOUS
    <2>2. Gone(S) /\ UNCHANGED approvalBackend /\ approvals' = status
      BY <1>2, <2>1 DEF FetchApprovals
    <2>3. approvals' \in [Approvals -> Statuses \cup {"none"}]
      BY <2>2 DEF ApprovalsInv
    <2> QED BY <2>2, <2>3, GoneKeeps
  <1>3. CASE LeavePage
    <2>1. PICK S : S = Sections
      OBVIOUS
    <2>2. Gone(S) /\ UNCHANGED approvalBackend /\ approvals' \in [Approvals -> Statuses \cup {"none"}]
      BY <1>3, <2>1 DEF LeavePage
    <2> QED BY <2>2, GoneKeeps
  <1>4. \A p \in posts : p.order.decision \in Dialogs
    BY DEF CallsReal, Mine, ApprovalOrders
  <1>5. ASSUME NEW p \in posts, NotUpdated(p) PROVE CallsReal' /\ ApprovalsInv'
    <2>1. /\ Hear(p, "error") /\ Fails(p.order.decision) /\ UNCHANGED <<approvalBackend, approvals, inModal, left>>
      BY <1>5 DEF NotUpdated, pageVars
    <2>2. CallsReal' /\ executed' = executed /\ posts' \subseteq posts
      BY <2>1, RealHear
    <2> QED BY <1>4, <2>1, <2>2, FailsKeeps
  <1>6. ASSUME NEW d \in Dialogs, UserRefreshed(d) PROVE CallsReal' /\ ApprovalsInv'
    <2>1. /\ Fails(d) \/ UNCHANGED modal
          /\ UNCHANGED <<approvalBackend, approvals, inModal, left>> /\ UNCHANGED calls
      BY <1>6 DEF UserRefreshed, pageVars
    <2>2. CallsReal' /\ executed' = executed /\ posts' = posts
      BY <2>1, SameCalls DEF calls
    <2> QED BY <1>4, <2>1, <2>2, FailsKeeps
  <1> QED BY <1>1, <1>2, <1>3, <1>5, <1>6, UpdatedKeeps, UpdateApprovalKeeps, CloseDialogKeeps, OpenDialogKeeps
       DEF ApprovalClient, ApprovalAnswers

-----------------------------------------------------------------------------
(* Decisions: a merchant's link.                                           *)

\* A step on a payment link leaves the other parts alone.
LEMMA LinkPart ==
  ASSUME DecisionsInv, about = "payment", UNCHANGED <<about, approvalVars, adminVars, resetVars>>,
         CallsReal', LinkInv'
  PROVE  DecisionsInv'
  BY DEF DecisionsInv, OthersQuiet, approvalVars, dialogVars, adminVars, forms, resetVars, screens

\* Every step of the backend on a payment link.
LEMMA LinkBackendKeeps ==
  ASSUME CallsReal, LinkInv, about = "payment", UNCHANGED about, LinkBackend
  PROVE  CallsReal' /\ LinkInv'
  <1>1. PICK p \in posts : \/ p.state = "sent" /\ (ApprovePayment(p) \/ RejectPayment(p))
                           \/ Refuse(p) /\ UNCHANGED <<linkPage, linkBackend>>
    BY DEF LinkBackend
  <1>2. /\ Serve(p) \/ Refuse(p) \/ NothingDone(p)
        /\ (row = "rejected" => merchant = "aborted") => (row' = "rejected" => merchant' = "aborted")
    BY <1>1 DEF ApprovePayment, RejectPayment, linkBackend
  <1>3. CallsReal'
    BY <1>2, RealServe, RealRefuse, RealUndone
  <1> QED BY <1>2, <1>3 DEF LinkInv

\* Every step of the page of a payment link.
LEMMA LinkClientKeeps ==
  ASSUME CallsReal, LinkInv, about = "payment", UNCHANGED about, LinkClient
  PROVE  CallsReal' /\ LinkInv'
  <1>1. LinkInv'
    BY DEF LinkInv, LinkClient, OpenLink, AddPayment, GetPaymentDetails, OnConfirm, OnReject, DemoTimeout,
           CloseLink, LinkTask, LinkAnswers, Confirmed, Rejected, linkBackend
  <1>2. Decide("approve") \in Mine /\ Decide("reject") \in Mine
    BY DEF Decide, Mine, LinkOrders
  <1>3. ASSUME NEW p, Hear(p, "ok") \/ Hear(p, "error") PROVE CallsReal'
    BY <1>3, RealHear
  <1>4. Leave => CallsReal'
    BY RealUnhear DEF Leave
  <1>5. \/ UNCHANGED calls \/ Leave
        \/ Call(Decide("approve")) \/ Call(Decide("reject"))
        \/ \E p \in posts : Hear(p, "ok") \/ Hear(p, "error")
    BY DEF LinkClient, OpenLink, AddPayment, GetPaymentDetails, OnConfirm, OnReject, DemoTimeout,
           CloseLink, LinkTask, LinkAnswers, Confirmed, Rejected
  <1>6. CallsReal'
    BY <1>2, <1>3, <1>4, <1>5, SameCalls, RealCall
  <1> QED BY <1>1, <1>6

-----------------------------------------------------------------------------
(* Decisions: administration.                                              *)

\* A step of the administration leaves the other parts alone.
LEMMA AdminPart ==
  ASSUME DecisionsInv, about = "members", UNCHANGED <<about, approvalVars, linkVars, resetVars>>,
         CallsReal', AdminInv'
  PROVE  DecisionsInv'
  BY DEF DecisionsInv, OthersQuiet, approvalVars, dialogVars, linkVars, linkPage, linkBackend, resetVars, screens

\* The invariant, of the backend's part and of the pages'.
Roles ==
    /\ roles \in [Members -> {"none", "user", "admin"}]
    /\ \A x \in hashing : /\ x.order \in AdminOrders /\ x.order.decision = "create"
                          /\ roles[x.order.about] = "none" \/ Real(x.order)
    /\ \A x \in executed : x.order.decision = "create" => roles[x.order.about] = "admin"
    /\ \A x, y \in executed : x.order.decision = "create" /\ x.order = y.order => x = y

Desk ==
    /\ blocking \in Members \cup {NoMember}
    /\ form \in [status : {"inactive", "editing", "sending", "failed"}, username : Members \cup {NoMember}]
    /\ reads \subseteq AdminReads /\ slipped \in BOOLEAN
    /\ \A r \in reads : \A x \in r.after : x.order.decision = "create" => Real(x.order)
    /\ hired = NoMember \/ slipped \/ (hired \in Members /\ Real(Create(hired)))
    /\ slipped \/ OneHiring

\* The two parts of the invariant: the roles of the users, and the page.
LEMMA AdminParts == AdminInv <=> Roles /\ Desk
  BY DEF AdminInv, Roles, Desk

\* As long as no role changes and no press is carried out, the first part holds.
LEMMA RolesStay ==
  ASSUME Roles, UNCHANGED <<roles, hashing, executed>>
  PROVE  Roles'
  BY DEF Roles, Real

\* When nothing is under way for the form, what is said about it holds.
LEMMA NotHiring ==
  ASSUME \A p \in posts' : ~Awaits(p), \A r \in reads' : ~AfterCreate(r)
  PROVE  OneHiring'
  BY DEF OneHiring, Hiring, Awaits, AfterCreate

\* A creation is under way: its call, or the list read after it.
LEMMA HiringMeans == Hiring <=> (\E p \in posts : Awaits(p)) \/ \E r \in reads : AfterCreate(r)
  BY DEF Hiring, Awaits, AfterCreate

\* If no call or read is made, and the form stays, what is said about it stays true.
LEMMA HiringStays ==
  ASSUME OneHiring, CallsReal', form' = form,
         \A q \in posts' : \E p \in posts : q.order = p.order /\ q.no = p.no /\ q.heard = p.heard,
         \A r \in reads' : AfterCreate(r) =>
            \E s \in reads : s.after = r.after /\ \A t \in reads' : t # r /\ AfterCreate(t) =>
                                                    \E u \in reads : u # s /\ u.after = t.after
  PROVE  OneHiring'
  <1>1. \A q \in posts' : Awaits(q) => \E p \in posts : Awaits(p) /\ q.order = p.order /\ q.no = p.no
    BY DEF Awaits
  <1>2. \A r \in reads' : AfterCreate(r) => \E s \in reads : AfterCreate(s) /\ s.after = r.after
    BY DEF AfterCreate
  <1>3. Hiring' => form'.status = "sending"
    <2>1. (\E q \in posts' : Awaits(q)) \/ (\E r \in reads' : AfterCreate(r)) => Hiring
      BY <1>1, <1>2, HiringMeans
    <2>2. Hiring' => (\E q \in posts' : Awaits(q)) \/ (\E r \in reads' : AfterCreate(r))
      BY DEF Hiring, Awaits, AfterCreate
    <2> QED BY <2>1, <2>2 DEF OneHiring
  <1>4. ASSUME NEW q \in posts', Awaits(q)
        PROVE  /\ q.order = Create(form.username)
               /\ \A w \in posts' : Awaits(w) => q = w
               /\ \A r \in reads' : ~AfterCreate(r)
    <2>1. PICK p \in posts : Awaits(p) /\ q.order = p.order /\ q.no = p.no
      BY <1>1, <1>4
    <2>2. q.order = Create(form.username) /\ \A s \in reads : ~AfterCreate(s)
      BY <2>1 DEF OneHiring
    <2>3. ASSUME NEW w \in posts', Awaits(w) PROVE q = w
      <3>1. PICK v \in posts : Awaits(v) /\ w.order = v.order /\ w.no = v.no
        BY <1>1, <2>3
      <3>2. p = v
        BY <2>1, <3>1 DEF OneHiring
      <3> QED BY <2>1, <3>1, <3>2 DEF CallsReal, CallsMade
    <2> QED BY <1>2, <2>2, <2>3
  <1>5. ASSUME NEW r \in reads', AfterCreate(r), NEW t \in reads', AfterCreate(t)
        PROVE  r = t
    <2>1. PICK s \in reads : s.after = r.after /\ (t # r => \E u \in reads : u # s /\ u.after = t.after)
      BY <1>5
    <2>2. AfterCreate(s) /\ \A u \in reads : u.after = t.after => AfterCreate(u)
      BY <1>5, <2>1 DEF AfterCreate
    <2>3. \A u \in reads : AfterCreate(u) => u = s
      BY <2>2 DEF OneHiring
    <2> QED BY <2>1, <2>2, <2>3
  <1>6. \A r \in reads' : \A x \in r.after : x.order.decision = "create" => x.order = Create(form.username)
    <2> SUFFICES ASSUME NEW r \in reads', NEW x \in r.after, x.order.decision = "create"
                 PROVE  x.order = Create(form.username)
      OBVIOUS
    <2>1. PICK s \in reads : s.after = r.after
      BY DEF AfterCreate
    <2> QED BY <2>1 DEF OneHiring
  <1> QED BY <1>3, <1>4, <1>5, <1>6 DEF OneHiring, Awaits, AfterCreate, Create

\* A step of the backend does not touch the pages.
LEMMA DeskStays ==
  ASSUME Desk, CallsReal', executed \subseteq executed', UNCHANGED <<blocking, form, hired, slipped, reads>>,
         \A q \in posts' : \E p \in posts : q.order = p.order /\ q.no = p.no /\ q.heard = p.heard
  PROVE  Desk'
  <1>1. slipped \/ OneHiring'
    BY HiringStays DEF Desk
  <1>2. \A o : Real(o) => \E x \in executed' : x.order = o
    BY DEF Real
  <1> QED BY <1>1, <1>2 DEF Desk, Real, Create

\* A user is created under a name that nobody has.
LEMMA AddUserKeeps ==
  ASSUME CallsReal, AdminInv, about = "members", UNCHANGED about, NEW p \in posts, AddUser(p),
         UNCHANGED <<desk, tables, blocking, forms>>
  PROVE  CallsReal' /\ AdminInv'
  <1> DEFINE x == Press(p.order, p.no)
  <1>0. x.order = p.order /\ x \in hashing
    BY DEF Press, AddUser
  <1>1. /\ Roles /\ Desk /\ UNCHANGED <<blocking, form, hired, slipped, reads>>
        /\ p.order \in AdminOrders /\ p.order.decision = "create" /\ hashing' = hashing \ {x}
    BY <1>0, AdminParts DEF Roles, tables, forms, AddUser
  <1> HIDE DEF x
  <1>2. \A y \in executed : y.order \in AdminOrders
    BY DEF CallsReal, Mine
  <1>3. CASE roles[p.order.about] = "none"
    <2>1. Serve(p) /\ roles' = [roles EXCEPT ![p.order.about] = "admin"]
      BY <1>3 DEF AddUser
    <2>2. /\ CallsReal' /\ executed' = executed \cup {x}
          /\ \A q \in posts' : \E r \in posts : q.order = r.order /\ q.no = r.no /\ q.heard = r.heard
      BY <2>1, RealServe DEF x
    <2>3. Desk'
      BY <1>1, <2>2, DeskStays
    <2>4. p.order.about \in Members /\ \A y \in AdminOrders : y.about \in Members
      BY <1>1 DEF AdminOrders
    <2>5. /\ roles' \in [Members -> {"none", "user", "admin"}] /\ roles'[p.order.about] = "admin"
          /\ \A u \in Members : u # p.order.about => roles'[u] = roles[u]
      BY <1>1, <2>1, <2>4 DEF Roles
    <2>6. \A y \in executed' : y.order.decision = "create" => roles'[y.order.about] = "admin"
      BY <1>0, <1>1, <1>2, <2>2, <2>4, <2>5 DEF Roles
    <2>7. \A y, z \in executed' : y.order.decision = "create" /\ y.order = z.order => y = z
      <3>1. \A y \in executed : y.order.decision = "create" => y.order # p.order
        BY <1>1, <1>3 DEF Roles
      <3>2. \A y, z \in executed : y.order.decision = "create" /\ y.order = z.order => y = z
        BY <1>1 DEF Roles
      <3> QED BY <1>0, <1>1, <2>2, <3>1, <3>2
    <2>8. ASSUME NEW y \in hashing'
          PROVE  /\ y.order \in AdminOrders /\ y.order.decision = "create"
                 /\ roles'[y.order.about] = "none" \/ \E z \in executed' : z.order = y.order
      <3>1. y \in hashing /\ y.order \in AdminOrders /\ y.order.decision = "create"
            /\ (roles[y.order.about] = "none" \/ Real(y.order))
        BY <1>1, <2>8 DEF Roles
      <3>2. CASE y.order.about = p.order.about
        <4>1. y.order = p.order
          BY <1>1, <3>1, <3>2 DEF AdminOrders
        <4> QED BY <1>0, <2>2, <3>1, <4>1
      <3>3. CASE y.order.about # p.order.about
        BY <2>2, <2>4, <2>5, <3>1, <3>3 DEF Real
      <3> QED BY <3>2, <3>3
    <2>9. Roles'
      BY <2>5, <2>6, <2>7, <2>8 DEF Roles, Real
    <2> QED BY <2>2, <2>3, <2>9, AdminParts, PTL
  <1>4. CASE roles[p.order.about] # "none"
    <2>1. PICK state \in {"ok", "error"} : Answer(p, state)
      BY <1>4 DEF AddUser
    <2>2. UNCHANGED <<roles, presses, executed>>
      BY <1>4 DEF AddUser
    <2>3. /\ CallsMade(Orders)'
          /\ \A q \in posts' : \E r \in posts :
                /\ q.order = r.order /\ q.no = r.no /\ q.heard = r.heard
                /\ q.state = "ok" => r.state = "ok" \/ (r = p /\ state = "ok")
      BY <2>1, <2>2, AnswerMade DEF CallsReal
    <2>4. Real(p.order)
      BY <1>0, <1>1, <1>4 DEF Roles
    <2>5. CallsReal'
      BY <2>2, <2>3, <2>4, RealKept DEF CallsReal, Real
    <2>6. Desk'
      BY <1>1, <2>2, <2>3, <2>5, DeskStays
    <2>7. Roles'
      BY <1>1, <2>2 DEF Roles, Real
    <2> QED BY <2>5, <2>6, <2>7, AdminParts, PTL
  <1> QED BY <1>3, <1>4

\* A read that is answered stays the one after its press.
LEMMA GetUsersKeeps ==
  ASSUME CallsReal, Desk, UNCHANGED about, NEW r \in reads, GetUsers(r)
  PROVE  CallsReal' /\ Desk'
  <1>1. /\ reads \subseteq AdminReads
        /\ UNCHANGED <<blocking, form, hired, slipped>> /\ UNCHANGED calls
    BY DEF Desk, GetUsers, forms
  <1>2. PICK a : /\ reads' = (reads \ {r}) \cup {a}
                 /\ a = [r EXCEPT !.state = "ok", !.list = Table] \/ a = [r EXCEPT !.state = "error"]
    BY DEF GetUsers
  <1>3. Table \in [Members -> {"absent", "open", "blocked"}]
    BY DEF Table
  <1>4. a \in AdminReads /\ a.after = r.after
    BY <1>1, <1>2, <1>3 DEF AdminReads
  <1>5. CallsReal' /\ posts' = posts /\ executed' = executed
    BY <1>1, SameCalls DEF calls
  <1>6. slipped \/ OneHiring'
    <2> SUFFICES ASSUME OneHiring PROVE OneHiring'
      BY DEF Desk
    <2>1. ASSUME NEW t \in reads', AfterCreate(t)
          PROVE  \E s \in reads : s.after = t.after /\ \A v \in reads' : v # t /\ AfterCreate(v) =>
                                                         \E u \in reads : u # s /\ u.after = v.after
      <3>1. CASE t = a
        BY <1>2, <1>4, <3>1
      <3>2. CASE t # a
        BY <1>2, <1>4, <2>1, <3>2
      <3> QED BY <3>1, <3>2
    <2> QED BY <1>1, <1>5, <2>1, HiringStays
  <1>7. reads' \subseteq AdminReads
    BY <1>1, <1>2, <1>4
  <1>8. \A s \in reads' : \A x \in s.after : x.order.decision = "create" => \E z \in executed' : z.order = x.order
    BY <1>2, <1>4, <1>5 DEF Desk, Real
  <1>9. hired' = NoMember \/ slipped' \/ (hired' \in Members /\ \E z \in executed' : z.order = Create(hired'))
    BY <1>1, <1>5 DEF Desk, Real
  <1> QED BY <1>1, <1>5, <1>6, <1>7, <1>8, <1>9 DEF Desk, Real

\* Every step of the backend on users.
LEMMA AdminBackendKeeps ==
  ASSUME CallsReal, AdminInv, about = "members", UNCHANGED about, AdminBackend
  PROVE  CallsReal' /\ AdminInv'
  <1>0. Roles /\ Desk
    BY AdminParts
  <1>1. ASSUME NEW p \in posts, UNCHANGED <<desk, tables, blocking, forms>>,
               BlockUser(p) \/ FindFree(p) \/ LoseOrder(p)
        PROVE  CallsReal' /\ AdminInv'
    <2> DEFINE x == Press(p.order, p.no)
    <2>0. UNCHANGED <<blocking, form, hired, slipped, reads>> /\ x.order = p.order /\ p.order \in AdminOrders
      BY <1>1 DEF tables, forms, Press, CallsReal, Mine
    <2> HIDE DEF x
    <2>1. CASE BlockUser(p)
      <3>1. Serve(p) /\ p.order.decision = "block" /\ UNCHANGED <<roles, hashing>>
        BY <2>1 DEF BlockUser
      <3>2. /\ CallsReal' /\ executed' = executed \cup {x}
            /\ \A q \in posts' : \E r \in posts : q.order = r.order /\ q.no = r.no /\ q.heard = r.heard
        BY <3>1, RealServe DEF x
      <3>3. Desk'
        BY <1>0, <2>0, <3>2, DeskStays
      <3>4. Roles'
        BY <1>0, <2>0, <3>1, <3>2 DEF Roles, Real
      <3> QED BY <3>2, <3>3, <3>4, AdminParts, PTL
    <2>2. CASE Refuse(p) /\ UNCHANGED <<roles, hashing>>
      <3>1. /\ CallsReal' /\ executed' = executed
            /\ \A q \in posts' : \E r \in posts : q.order = r.order /\ q.no = r.no /\ q.heard = r.heard
        BY <2>2, RealRefuse
      <3>2. Desk'
        BY <1>0, <2>0, <3>1, DeskStays
      <3>3. Roles'
        BY <1>0, <2>2, <3>1, RolesStay
      <3> QED BY <3>1, <3>2, <3>3, AdminParts, PTL
    <2>3. CASE /\ hashing' = hashing \cup {x} /\ roles[p.order.about] = "none" /\ p.order.decision = "create"
               /\ UNCHANGED calls /\ UNCHANGED roles
      <3>1. CallsReal' /\ posts' = posts /\ executed' = executed
        BY <2>3, SameCalls DEF calls
      <3>2. Desk'
        BY <1>0, <2>0, <3>1, DeskStays
      <3>3. Roles'
        BY <1>0, <2>0, <2>3, <3>1 DEF Roles, Real
      <3> QED BY <3>1, <3>2, <3>3, AdminParts, PTL
    <2>4. FindFree(p) \/ LoseOrder(p) => \/ Refuse(p) /\ UNCHANGED <<roles, hashing>>
                                         \/ /\ hashing' = hashing \cup {x} /\ roles[p.order.about] = "none"
                                            /\ p.order.decision = "create" /\ UNCHANGED calls /\ UNCHANGED roles
      BY DEF FindFree, LoseOrder, members, x
    <2> QED BY <1>1, <2>1, <2>2, <2>3, <2>4
  <1>2. ASSUME NEW r \in reads, GetUsers(r) PROVE CallsReal' /\ AdminInv'
    <2>1. CallsReal' /\ Desk'
      BY <1>0, <1>2, GetUsersKeeps
    <2>2. Roles'
      BY <1>0, <1>2, RolesStay DEF GetUsers, members, calls
    <2> QED BY <2>1, <2>2, AdminParts, PTL
  <1> QED BY <1>1, <1>2, AddUserKeeps DEF AdminBackend

\* A list that comes after a creation closes the form, or its failure is displayed there.
LEMMA ListUsersKeeps ==
  ASSUME CallsReal, Desk, UNCHANGED about, NEW r \in reads, ListUsers(r) \/ NotListed(r)
  PROVE  CallsReal' /\ Desk'
  <1>1. /\ reads' = reads \ {r} /\ UNCHANGED <<blocking, slipped>> /\ UNCHANGED calls
        /\ AfterCreate(r) => \/ form' = NoForm /\ hired' = form.username
                             \/ FormFails /\ hired' = hired
        /\ ~AfterCreate(r) => form' = form /\ hired' = hired
    BY DEF ListUsers, NotListed, AfterCreate
  <1>2. CallsReal' /\ posts' = posts /\ executed' = executed
    BY <1>1, SameCalls DEF calls
  <1>3. form' \in [status : {"inactive", "editing", "sending", "failed"}, username : Members \cup {NoMember}]
    BY <1>1 DEF Desk, NoForm, FormFails
  <1>4. hired' = NoMember \/ slipped \/ (hired' \in Members /\ \E z \in executed : z.order = Create(hired'))
    <2>1. ASSUME ~slipped, AfterCreate(r), hired' = form.username
          PROVE  hired' \in Members /\ \E z \in executed : z.order = Create(hired')
      <3>1. PICK x \in r.after : x.order.decision = "create"
        BY <2>1 DEF AfterCreate
      <3>2. x.order = Create(form.username) /\ Real(x.order)
        BY <2>1, <3>1 DEF Desk, OneHiring
      <3>3. x.order \in AdminOrders
        BY <3>1 DEF Desk, AdminReads
      <3> QED BY <2>1, <3>2, <3>3 DEF Real, Create, AdminOrders
    <2> QED BY <1>1, <2>1 DEF Desk, Real
  <1>5. slipped \/ OneHiring'
    <2> SUFFICES ASSUME ~slipped PROVE OneHiring'
      OBVIOUS
    <2>0. OneHiring
      BY DEF Desk
    <2>1. CASE AfterCreate(r)
      <3>1. (\A p \in posts' : ~Awaits(p)) /\ \A s \in reads' : ~AfterCreate(s)
        BY <1>1, <1>2, <2>0, <2>1 DEF OneHiring
      <3> QED BY <3>1, NotHiring
    <2>2. CASE ~AfterCreate(r)
      BY <1>1, <1>2, <2>0, <2>2, HiringStays
    <2> QED BY <2>1, <2>2
  <1>6. \A s \in reads' : \A x \in s.after : x.order.decision = "create" => \E z \in executed' : z.order = x.order
    BY <1>1, <1>2 DEF Desk, Real
  <1> QED BY <1>1, <1>2, <1>3, <1>4, <1>5, <1>6 DEF Desk, Real

\* While nothing is under way, the form may change.
LEMMA FormChanges ==
  ASSUME CallsReal, Desk, UNCHANGED about, UNCHANGED <<blocking, hired, reads>>, UNCHANGED calls,
         slipped' = (slipped \/ Hiring),
         form' \in [status : {"inactive", "editing", "sending", "failed"}, username : Members \cup {NoMember}]
  PROVE  CallsReal' /\ Desk'
  <1>1. CallsReal' /\ posts' = posts /\ executed' = executed
    BY SameCalls DEF calls
  <1>2. slipped' \/ OneHiring'
    <2> SUFFICES ASSUME ~slipped' PROVE OneHiring'
      OBVIOUS
    <2>1. (\A p \in posts' : ~Awaits(p)) /\ \A s \in reads' : ~AfterCreate(s)
      BY <1>1, HiringMeans DEF Awaits, AfterCreate
    <2> QED BY <2>1, NotHiring
  <1>3. slipped' \in BOOLEAN
    BY DEF Hiring
  <1> QED BY <1>1, <1>2, <1>3 DEF Desk, Real

\* The form is sent: the only creation under way.
LEMMA CreateNewAdminKeeps ==
  ASSUME CallsReal, Desk, about = "members", UNCHANGED about, CreateNewAdmin
  PROVE  CallsReal' /\ Desk'
  <1> DEFINE o == Create(form.username)
  <1>1. /\ form.status \in {"editing", "failed"} /\ form.username # NoMember /\ Call(o)
        /\ form' = [form EXCEPT !.status = "sending"] /\ UNCHANGED <<blocking, hired, slipped, reads>>
    BY DEF CreateNewAdmin, tables
  <1>2. o \in AdminOrders /\ form.username \in Members
    BY <1>1 DEF Desk, Create, AdminOrders
  <1>3. o \in Mine
    BY <1>2 DEF Mine
  <1>4. /\ CallsReal' /\ executed' = executed
        /\ \A p \in posts' : p \in posts \/ (p.order = o /\ p.no = presses'[o] /\ p.heard)
    BY <1>1, <1>3, RealCall
  <1>5. /\ form' \in [status : {"inactive", "editing", "sending", "failed"}, username : Members \cup {NoMember}]
        /\ form'.status = "sending" /\ form'.username = form.username
    BY <1>1 DEF Desk
  <1>6. slipped \/ OneHiring'
    <2> SUFFICES ASSUME ~slipped PROVE OneHiring'
      OBVIOUS
    <2>1. (\A p \in posts : ~Awaits(p)) /\ \A r \in reads : ~AfterCreate(r)
      BY <1>1, HiringMeans DEF Desk, OneHiring
    <2>2. \A p \in posts' : Awaits(p) => p.order = o /\ p.no = presses'[o]
      BY <1>4, <2>1
    <2>3. \A p, q \in posts' : Awaits(p) /\ Awaits(q) => p = q
      BY <1>4, <2>2 DEF CallsReal, CallsMade
    <2>4. \A r \in reads' : ~AfterCreate(r)
      BY <1>1, <2>1
    <2>5. Create(form'.username) = o
      BY <1>5
    <2> QED BY <1>5, <2>2, <2>3, <2>4, <2>5 DEF OneHiring, Awaits, AfterCreate, Create
  <1> QED BY <1>1, <1>4, <1>5, <1>6 DEF Desk, Real

\* The answer to a call of the page, after which the list is read again.
LEMMA OrderedKeeps ==
  ASSUME CallsReal, Desk, about = "members", UNCHANGED about, NEW p \in posts, Ordered(p)
  PROVE  CallsReal' /\ Desk'
  <1> DEFINE new == Read({Press(p.order, p.no)})
  <1>1. /\ \/ Hear(p, "ok") /\ reads' = reads \cup {new} /\ form' = form
           \/ /\ Hear(p, "error") /\ reads' = reads
              /\ form' = IF p.order.decision = "create" THEN [form EXCEPT !.status = "failed"] ELSE form
        /\ UNCHANGED <<blocking, hired, slipped>>
    BY DEF Ordered, FormFails
  <1>2. /\ CallsReal' /\ executed' = executed /\ posts' = posts \ {p} /\ p.heard
        /\ p.order \in AdminOrders /\ p.no \in Nat /\ (Hear(p, "ok") => Real(p.order))
    <2>1. p.order \in AdminOrders /\ p \in Posts(Orders)
      BY DEF CallsReal, CallsMade, Mine
    <2> QED BY <1>1, <2>1, RealHear DEF Posts
  <1>3. form' \in [status : {"inactive", "editing", "sending", "failed"}, username : Members \cup {NoMember}]
    BY <1>1 DEF Desk
  <1>4. /\ new \in AdminReads
        /\ \A x \in new.after : x.order = p.order
        /\ AfterCreate(new) <=> p.order.decision = "create"
    <2>1. NoList \in [Members -> {"absent", "open", "blocked"}]
      BY DEF NoList
    <2>2. Press(p.order, p.no) \in [order : AdminOrders, no : Nat] /\ Press(p.order, p.no).order = p.order
      BY <1>2 DEF Press
    <2>3. new.after = {Press(p.order, p.no)}
      BY DEF Read
    <2>4. new \in AdminReads
      BY <2>1, <2>2 DEF Read, AdminReads
    <2> QED BY <2>2, <2>3, <2>4 DEF AfterCreate
  <1> HIDE DEF new
  <1>5. \A s \in reads' : \A x \in s.after : x.order.decision = "create" => \E z \in executed' : z.order = x.order
    BY <1>1, <1>2, <1>4 DEF Desk, Real
  <1>6. slipped \/ OneHiring'
    <2> SUFFICES ASSUME ~slipped PROVE OneHiring'
      OBVIOUS
    <2>0. OneHiring
      BY DEF Desk
    <2>1. CASE p.order.decision # "create"
      <3>1. form' = form /\ \A r \in reads' : AfterCreate(r) => r \in reads
        BY <1>1, <1>4, <2>1
      <3> QED BY <1>2, <2>0, <3>1, HiringStays
    <2>2. CASE p.order.decision = "create"
      <3>1. /\ Awaits(p) /\ p.order = Create(form.username) /\ \A r \in reads : ~AfterCreate(r)
            /\ \A q \in posts' : ~Awaits(q)
        BY <1>2, <2>0, <2>2 DEF OneHiring, Awaits
      <3>2. CASE reads' = reads
        BY <3>1, <3>2, NotHiring
      <3>3. CASE reads' = reads \cup {new} /\ form' = form
        <4>1. \A r \in reads' : AfterCreate(r) => r = new
          BY <3>1, <3>3
        <4>2. form.status = "sending"
          BY <2>0, <3>1, HiringMeans DEF OneHiring
        <4>3. \A r \in reads' : \A x \in r.after : x.order.decision = "create" => x.order = Create(form.username)
          BY <1>4, <3>1, <4>1 DEF AfterCreate
        <4>4. \A q \in posts' : ~(q.heard /\ q.order.decision = "create")
          BY <3>1 DEF Awaits
        <4>5. \A r, s \in reads' : AfterCreate(r) /\ AfterCreate(s) => r = s
          BY <4>1
        <4> QED BY <3>3, <4>2, <4>3, <4>4, <4>5 DEF OneHiring, Awaits, AfterCreate, Create
      <3> QED BY <1>1, <3>2, <3>3
    <2> QED BY <2>1, <2>2
  <1>7. reads' \subseteq AdminReads
    BY <1>1, <1>4 DEF Desk
  <1> QED BY <1>1, <1>2, <1>3, <1>5, <1>6, <1>7 DEF Desk, Real

\* Every step of the pages of the administration.
LEMMA AdminClientKeeps ==
  ASSUME CallsReal, AdminInv, about = "members", UNCHANGED about, AdminClient
  PROVE  CallsReal' /\ AdminInv'
  <1>0. Roles /\ Desk
    BY AdminParts
  <1>1. ASSUME NEW title, OpenDesk(title) PROVE CallsReal' /\ Desk'
    <2>1. reads' = {Read({})} /\ UNCHANGED <<blocking, form, hired, slipped>> /\ UNCHANGED calls
      BY <1>1 DEF OpenDesk, forms
    <2>2. CallsReal' /\ posts' = posts /\ executed' = executed
      BY <2>1, SameCalls DEF calls
    <2>3. Read({}) \in AdminReads /\ Read({}).after = {}
      BY DEF Read, AdminReads, NoList
    <2>4. \A r \in reads' : r.after = {} /\ ~AfterCreate(r)
      BY <2>1, <2>3 DEF AfterCreate
    <2>5. slipped \/ OneHiring'
      BY <1>0, <2>1, <2>2, <2>4, HiringStays DEF Desk
    <2> QED BY <1>0, <2>1, <2>2, <2>3, <2>4, <2>5 DEF Desk, Real
  <1>2. ASSUME LeaveDesk PROVE CallsReal' /\ Desk'
    <2>1. /\ reads' = {} /\ blocking' = NoMember /\ form' = NoForm /\ hired' = NoMember /\ slipped' = FALSE
          /\ Leave
      BY <1>2 DEF LeaveDesk
    <2>2. CallsReal' /\ \A q \in posts' : ~q.heard
      BY <2>1, RealUnhear DEF Leave
    <2>3. OneHiring'
      BY <2>1, <2>2, NotHiring DEF Awaits
    <2>4. NoForm \in [status : {"inactive", "editing", "sending", "failed"}, username : Members \cup {NoMember}]
      BY DEF NoForm
    <2>5. blocking' \in Members \cup {NoMember} /\ reads' \subseteq AdminReads /\ slipped' \in BOOLEAN
          /\ \A r \in reads' : \A x \in r.after : x.order.decision = "create" => Real(x.order)'
      BY <2>1
    <2> QED BY <2>1, <2>2, <2>3, <2>4, <2>5 DEF Desk
  <1>3. ASSUME NEW u \in Members, ConfirmBlock(u) PROVE CallsReal' /\ Desk'
    <2>1. blocking' = u /\ UNCHANGED <<form, hired, slipped, reads>> /\ UNCHANGED calls
      BY <1>3 DEF ConfirmBlock, tables, forms
    <2>2. CallsReal' /\ posts' = posts /\ executed' = executed
      BY <2>1, SameCalls DEF calls
    <2>3. slipped \/ OneHiring'
      BY <1>0, <2>1, <2>2, HiringStays DEF Desk
    <2> QED BY <1>0, <2>1, <2>2, <2>3 DEF Desk, Real
  <1>4. ASSUME OnCloseConfirmation PROVE CallsReal' /\ Desk'
    <2>1. /\ blocking # NoMember /\ blocking' = NoMember /\ UNCHANGED <<form, hired, slipped, reads>>
          /\ Call(Block(blocking)) \/ UNCHANGED calls
      BY <1>4 DEF OnCloseConfirmation, tables, forms
    <2>2. Block(blocking) \in Mine /\ Block(blocking).decision = "block"
      BY <1>0, <2>1 DEF Desk, Block, Mine, AdminOrders
    <2>3. /\ CallsReal' /\ executed' = executed
          /\ \A p \in posts' : Awaits(p) => p \in posts
      <3>1. CASE Call(Block(blocking))
        <4>1. /\ CallsReal' /\ executed' = executed
              /\ \A p \in posts' : p \in posts \/ p.order = Block(blocking)
          BY <2>2, <3>1, RealCall
        <4> QED BY <2>2, <4>1 DEF Awaits
      <3>2. CASE UNCHANGED calls
        BY <3>2, SameCalls DEF calls
      <3> QED BY <2>1, <3>1, <3>2
    <2>4. slipped \/ OneHiring'
      <3> SUFFICES ASSUME OneHiring PROVE OneHiring'
        BY <1>0 DEF Desk
      <3>1. Hiring' => Hiring
        BY <2>1, <2>3 DEF Hiring, Awaits
      <3> QED BY <2>1, <2>3, <3>1 DEF OneHiring, Awaits, AfterCreate, Create
    <2>5. \A r \in reads' : \A x \in r.after : x.order.decision = "create" => \E z \in executed' : z.order = x.order
      BY <1>0, <2>1, <2>3 DEF Desk, Real
    <2>6. hired' = NoMember \/ slipped' \/ (hired' \in Members /\ \E z \in executed' : z.order = Create(hired'))
      BY <1>0, <2>1, <2>3 DEF Desk, Real
    <2>7. /\ blocking' \in Members \cup {NoMember} /\ reads' \subseteq AdminReads /\ slipped' \in BOOLEAN
          /\ form' \in [status : {"inactive", "editing", "sending", "failed"}, username : Members \cup {NoMember}]
      BY <1>0, <2>1 DEF Desk
    <2> QED BY <2>1, <2>3, <2>4, <2>5, <2>6, <2>7 DEF Desk, Real
  <1>5. ASSUME OpenNewAdmin PROVE CallsReal' /\ Desk'
    <2>1. /\ UNCHANGED <<blocking, hired, reads>> /\ UNCHANGED calls
          /\ form' = [form EXCEPT !.status = "editing"] /\ slipped' = (slipped \/ Hiring)
      BY <1>5 DEF OpenNewAdmin, tables
    <2>2. form' \in [status : {"inactive", "editing", "sending", "failed"}, username : Members \cup {NoMember}]
      BY <1>0, <2>1 DEF Desk
    <2> QED BY <1>0, <2>1, <2>2, FormChanges
  <1>6. ASSUME NEW u \in Members, EditNewAdmin(u) PROVE CallsReal' /\ Desk'
    <2>1. /\ UNCHANGED <<blocking, hired, reads>> /\ UNCHANGED calls
          /\ form' = [form EXCEPT !.username = u] /\ slipped' = (slipped \/ Hiring)
      BY <1>6 DEF EditNewAdmin, tables
    <2>2. form' \in [status : {"inactive", "editing", "sending", "failed"}, username : Members \cup {NoMember}]
      BY <1>0, <2>1 DEF Desk
    <2> QED BY <1>0, <2>1, <2>2, FormChanges
  <1>7. ASSUME CloseNewAdmin PROVE CallsReal' /\ Desk'
    <2>1. /\ UNCHANGED <<blocking, hired, reads>> /\ UNCHANGED calls
          /\ form' = NoForm /\ slipped' = (slipped \/ Hiring)
      BY <1>7 DEF CloseNewAdmin, tables
    <2>2. form' \in [status : {"inactive", "editing", "sending", "failed"}, username : Members \cup {NoMember}]
      BY <2>1 DEF NoForm
    <2> QED BY <1>0, <2>1, <2>2, FormChanges
  <1>8. CallsReal' /\ Desk'
    <2>1. ASSUME NEW r \in reads, ListUsers(r) \/ NotListed(r) PROVE CallsReal' /\ Desk'
      BY <1>0, <2>1, ListUsersKeeps
    <2>2. ASSUME CreateNewAdmin PROVE CallsReal' /\ Desk'
      BY <1>0, <2>2, CreateNewAdminKeeps
    <2>3. ASSUME NEW p \in posts, Ordered(p) PROVE CallsReal' /\ Desk'
      BY <1>0, <2>3, OrderedKeeps
    <2> QED BY <1>1, <1>2, <1>3, <1>4, <1>5, <1>6, <1>7, <2>1, <2>2, <2>3 DEF AdminClient
  <1>9. UNCHANGED <<roles, hashing>> /\ executed' = executed
    BY DEF AdminClient, OpenDesk, LeaveDesk, ListUsers, NotListed, ConfirmBlock, OnCloseConfirmation,
           OpenNewAdmin, EditNewAdmin, CreateNewAdmin, CloseNewAdmin, Ordered, members, calls,
           Call, Leave, Unhear, Hear
  <1>10. Roles'
    BY <1>0, <1>9, RolesStay
  <1> QED BY <1>8, <1>10, AdminParts, PTL

-----------------------------------------------------------------------------
(* Decisions: a forgotten password.                                        *)

\* A step on a forgotten password leaves the other parts alone.
LEMMA ResetPart ==
  ASSUME DecisionsInv, about = "password", UNCHANGED <<about, approvalVars, linkVars, adminVars>>,
         CallsReal', ResetInv'
  PROVE  DecisionsInv'
  BY DEF DecisionsInv, OthersQuiet, approvalVars, dialogVars, linkVars, linkPage, linkBackend, adminVars, forms

\* The invariant, of the backend's part and of the screens'.
TokenInv ==
    /\ owners \in Seq(Owners) /\ current \in [Owners -> Nat]
    /\ \A x \in checked : x.order \in ResetOrders /\ x.order.about \in DOMAIN owners
    /\ \A x \in executed : x.order.about \in DOMAIN owners /\ current[owners[x.order.about]] # x.order.about
    /\ \A x, y \in checked \cup executed : x.order = y.order /\ x.order.about \notin overlaps => x = y

Screened == [token : Tokens, status : {"edit", "sending", "success", "fail"}]
ScreensInv ==
    /\ resets \in Seq(Screened)
    /\ \A i \in DOMAIN resets : resets[i].status = "success" => Real(NewPassword(resets[i].token))

\* The two parts of the invariant: the tokens, and the screens.
LEMMA ResetParts == ResetInv <=> TokenInv /\ ScreensInv
  BY DEF ResetInv, TokenInv, Screened, ScreensInv

\* As long as the screens stay, or only display success that is real, their part holds.
LEMMA ScreensStay ==
  ASSUME ScreensInv, executed \subseteq executed', UNCHANGED resets
  PROVE  ScreensInv'
  BY DEF ScreensInv, Real, NewPassword

\* As long as no token is given out, checked or used, the first part holds.
LEMMA TokensStay ==
  ASSUME TokenInv, UNCHANGED <<owners, current, checked, overlaps, executed>>
  PROVE  TokenInv'
  BY DEF TokenInv

\* A token is one of those given out, from 1 on.
LEMMA TokenIsGiven ==
  ASSUME TokenInv, NEW t \in DOMAIN owners
  PROVE  t \in 1..Len(owners) /\ t \in Nat /\ t # NoReset /\ owners[t] \in Owners
  BY DEF TokenInv, NoReset

\* A new token replaces another one, and none that set a password.
LEMMA CreateTokenKeeps ==
  ASSUME CallsReal, TokenInv, UNCHANGED about, NEW a, CreateToken(a)
  PROVE  CallsReal' /\ TokenInv'
  <1>1. /\ UNCHANGED <<checked, overlaps>> /\ UNCHANGED calls
        /\ \/ /\ a.username \in Owners
              /\ owners' = Append(owners, a.username)
              /\ current' = [current EXCEPT ![a.username] = Len(owners) + 1]
           \/ UNCHANGED <<owners, current>>
    BY DEF CreateToken
  <1>2. CallsReal' /\ executed' = executed
    BY <1>1, SameCalls DEF calls
  <1>3. CASE UNCHANGED <<owners, current>>
    BY <1>1, <1>2, <1>3, TokensStay
  <1>4. ASSUME NEW u \in Owners, owners' = Append(owners, u), current' = [current EXCEPT ![u] = Len(owners) + 1]
        PROVE  TokenInv'
    <2>1. owners \in Seq(Owners) /\ current \in [Owners -> Nat] /\ Len(owners) \in Nat
      BY DEF TokenInv
    <2>2. /\ owners' \in Seq(Owners) /\ DOMAIN owners' = 1..(Len(owners) + 1)
          /\ \A t \in DOMAIN owners : owners'[t] = owners[t]
      BY <1>4, <2>1
    <2>3. current' \in [Owners -> Nat] /\ current'[u] = Len(owners) + 1 /\ \A v \in Owners : v # u => current'[v] = current[v]
      BY <1>4, <2>1
    <2>4. \A t \in DOMAIN owners : t \in DOMAIN owners' /\ t # Len(owners) + 1 /\ owners[t] \in Owners
      BY <2>1, <2>2
    <2>5. \A x \in executed : x.order.about \in DOMAIN owners' /\ current'[owners'[x.order.about]] # x.order.about
      BY <2>2, <2>3, <2>4 DEF TokenInv
    <2>6. \A x \in checked : x.order \in ResetOrders /\ x.order.about \in DOMAIN owners'
      BY <2>4 DEF TokenInv
    <2> QED BY <1>1, <1>2, <2>2, <2>3, <2>5, <2>6 DEF TokenInv
  <1> QED BY <1>1, <1>2, <1>3, <1>4

\* Only a token that set no password yet is found to be right.
LEMMA CheckTokenKeeps ==
  ASSUME CallsReal, TokenInv, about = "password", UNCHANGED about, NEW p \in posts, CheckToken(p)
  PROVE  CallsReal' /\ TokenInv' /\ executed' = executed
  <1> DEFINE x == Press(p.order, p.no)
             t == p.order.about
  <1>0. x.order = p.order /\ p.order \in ResetOrders
    BY DEF Press, CallsReal, Mine
  <1>1. CASE InForce(t)
    <2>1. /\ checked' = checked \cup {x} /\ UNCHANGED calls /\ UNCHANGED <<owners, current>>
          /\ overlaps' = overlaps \cup (IF \E y \in checked : y.order = p.order THEN {t} ELSE {})
      BY <1>1 DEF CheckToken
    <2>2. CallsReal' /\ executed' = executed
      BY <2>1, SameCalls DEF calls
    <2>3. t \in DOMAIN owners /\ current[owners[t]] = t
      BY <1>1 DEF InForce
    <2> HIDE DEF x
    <2>4. \A y \in executed : y.order # p.order
      BY <2>3 DEF TokenInv
    <2>5. \A y \in checked : y.order = p.order => t \in overlaps'
      BY <2>1
    <2>6. \A y, z \in checked' \cup executed' : y.order = z.order /\ y.order.about \notin overlaps' => y = z
      BY <1>0, <2>1, <2>2, <2>4, <2>5 DEF TokenInv
    <2>7. \A y \in checked' : y.order \in ResetOrders /\ y.order.about \in DOMAIN owners
      BY <1>0, <2>1, <2>3 DEF TokenInv
    <2> QED BY <2>1, <2>2, <2>6, <2>7 DEF TokenInv
  <1>2. CASE ~InForce(t)
    <2>1. Refuse(p) /\ UNCHANGED <<checked, overlaps, owners, current>>
      BY <1>2 DEF CheckToken
    <2>2. CallsReal' /\ executed' = executed
      BY <2>1, RealRefuse
    <2> QED BY <2>1, <2>2, TokensStay
  <1> QED BY <1>1, <1>2

\* A password that is set takes the token away.
LEMMA UpdatePasswordKeeps ==
  ASSUME CallsReal, TokenInv, UNCHANGED about, NEW p \in posts, UpdatePassword(p)
  PROVE  CallsReal' /\ TokenInv' /\ executed \subseteq executed'
  <1> DEFINE x == Press(p.order, p.no)
             t == p.order.about
  <1>0. x.order = p.order
    BY DEF Press
  <1>1. /\ x \in checked /\ checked' = checked \ {x} /\ Serve(p) /\ UNCHANGED <<owners, overlaps>>
        /\ current' = [current EXCEPT ![owners[t]] = NoReset]
    BY DEF UpdatePassword
  <1>2. CallsReal' /\ executed' = executed \cup {x}
    BY <1>1, RealServe
  <1> HIDE DEF x
  <1>3. t \in DOMAIN owners
    BY <1>0, <1>1 DEF TokenInv
  <1>4. /\ current' \in [Owners -> Nat] /\ current'[owners[t]] = NoReset
        /\ \A u \in Owners : current'[u] \in {NoReset, current[u]}
    <2>1. owners[t] \in Owners /\ current \in [Owners -> Nat] /\ NoReset \in Nat
      BY <1>3, TokenIsGiven DEF TokenInv, NoReset
    <2> QED BY <1>1, <2>1
  <1>5. \A y \in executed' : y.order.about \in DOMAIN owners /\ current'[owners[y.order.about]] # y.order.about
    <2> SUFFICES ASSUME NEW y \in executed'
                 PROVE  y.order.about \in DOMAIN owners /\ current'[owners[y.order.about]] # y.order.about
      OBVIOUS
    <2>1. CASE y = x
      BY <1>0, <1>3, <1>4, <2>1, TokenIsGiven
    <2>2. CASE y \in executed
      <3>1. y.order.about \in DOMAIN owners /\ current[owners[y.order.about]] # y.order.about
        BY <2>2 DEF TokenInv
      <3>2. owners[y.order.about] \in Owners /\ y.order.about # NoReset
        BY <3>1, TokenIsGiven
      <3> QED BY <1>4, <3>1, <3>2
    <2> QED BY <1>2, <2>1, <2>2
  <1>6. checked' \cup executed' = checked \cup executed
    BY <1>1, <1>2
  <1>7. \A y, z \in checked' \cup executed' : y.order = z.order /\ y.order.about \notin overlaps' => y = z
    BY <1>1, <1>6 DEF TokenInv
  <1>8. \A y \in checked' : y.order \in ResetOrders /\ y.order.about \in DOMAIN owners
    BY <1>1 DEF TokenInv
  <1> QED BY <1>1, <1>2, <1>4, <1>5, <1>7, <1>8 DEF TokenInv

\* Every step of the backend on passwords.
LEMMA ResetBackendKeeps ==
  ASSUME CallsReal, ResetInv, about = "password", UNCHANGED about, ResetBackend
  PROVE  CallsReal' /\ ResetInv'
  <1>0. TokenInv /\ ScreensInv
    BY ResetParts
  <1>1. ASSUME NEW a \in asks, CreateToken(a) PROVE CallsReal' /\ ResetInv'
    <2>1. CallsReal' /\ TokenInv'
      BY <1>0, <1>1, CreateTokenKeeps
    <2>2. ScreensInv'
      BY <1>0, <1>1, ScreensStay DEF CreateToken, calls
    <2> QED BY <2>1, <2>2, ResetParts, PTL
  <1>2. ASSUME NEW p \in posts, CheckToken(p) \/ UpdatePassword(p) \/ LoseReset(p), UNCHANGED screens
        PROVE  CallsReal' /\ ResetInv'
    <2>1. CallsReal' /\ TokenInv' /\ executed \subseteq executed'
      <3>1. CASE CheckToken(p)
        BY <1>0, <3>1, CheckTokenKeeps
      <3>2. CASE UpdatePassword(p)
        BY <1>0, <3>2, UpdatePasswordKeeps
      <3>3. CASE LoseReset(p)
        <4>1. Refuse(p) /\ UNCHANGED <<owners, current, checked, overlaps>>
          BY <3>3 DEF LoseReset, store
        <4>2. CallsReal' /\ executed' = executed
          BY <4>1, RealRefuse
        <4> QED BY <1>0, <4>1, <4>2, TokensStay
      <3> QED BY <1>2, <3>1, <3>2, <3>3
    <2>2. ScreensInv'
      BY <1>0, <1>2, <2>1, ScreensStay DEF screens
    <2> QED BY <2>1, <2>2, ResetParts, PTL
  <1>3. ASSUME NEW t \in Tokens, ExpireToken(t) PROVE CallsReal' /\ ResetInv'
    <2>1. UNCHANGED calls /\ UNCHANGED <<owners, current, checked, overlaps, resets>>
      BY <1>3 DEF ExpireToken, screens
    <2>2. CallsReal' /\ executed' = executed
      BY <2>1, SameCalls DEF calls
    <2>3. TokenInv' /\ ScreensInv'
      BY <1>0, <2>1, <2>2, TokensStay, ScreensStay
    <2> QED BY <2>2, <2>3, ResetParts, PTL
  <1> QED BY <1>1, <1>2, <1>3 DEF ResetBackend

\* One screen gets another status, which is "success" only if that is real.
LEMMA BecomeKeeps ==
  ASSUME ScreensInv, NEW i \in DOMAIN resets, NEW st \in {"edit", "sending", "success", "fail"},
         Become(i, st), executed' = executed, st = "success" => Real(NewPassword(resets[i].token))
  PROVE  ScreensInv'
  <1>1. PICK new : new = [resets[i] EXCEPT !.status = st]
    OBVIOUS
  <1>2. resets \in Seq(Screened) /\ resets[i] \in Screened
    BY DEF ScreensInv
  <1>3. new \in Screened /\ new.status = st /\ new.token = resets[i].token
    BY <1>1, <1>2 DEF Screened
  <1>4. resets' = [resets EXCEPT ![i] = new]
    BY <1>1 DEF Become
  <1>5. /\ resets' \in Seq(Screened) /\ DOMAIN resets' = DOMAIN resets /\ resets'[i] = new
        /\ \A j \in DOMAIN resets : j # i => resets'[j] = resets[j]
    BY <1>2, <1>3, <1>4
  <1> QED BY <1>3, <1>5 DEF ScreensInv, Real, NewPassword

\* The screen in front has a token.
LEMMA FrontIsScreened ==
  ASSUME resets \in Seq(Screened), resets # <<>>
  PROVE  Front.token \in Tokens
  <1>1. \A sc \in Screened : sc.token \in Tokens
    BY DEF Screened
  <1>2. Len(resets) \in 1..Len(resets)
    OBVIOUS
  <1>3. resets[Len(resets)] \in Screened
    BY <1>2
  <1> QED BY <1>1, <1>3 DEF Front

\* A screen that is opened waits for a password.
LEMMA NewScreen ==
  ASSUME NEW t \in Tokens
  PROVE  ResetScreen(t) \in Screened /\ ResetScreen(t).status = "edit"
  BY DEF ResetScreen, Screened

\* Every step of the screens of a forgotten password.
LEMMA ResetClientKeeps ==
  ASSUME CallsReal, ResetInv, about = "password", UNCHANGED about, ResetClient
  PROVE  CallsReal' /\ ResetInv'
  <1>0. TokenInv /\ ScreensInv /\ resets \in Seq(Screened)
    BY ResetParts DEF ScreensInv
  <1>1. UNCHANGED <<owners, current, checked, overlaps>>
    BY DEF ResetClient, OpenForgot, AskForToken, LeaveForgot, ResetUserPassword, ResetDone, LeaveReset,
           ReloadReset, Asked, OpenReset, HasReset, store
  <1>2. ASSUME CallsReal', executed' = executed, ScreensInv' PROVE CallsReal' /\ ResetInv'
    <2>1. TokenInv'
      BY <1>0, <1>1, <1>2, TokensStay
    <2> QED BY <1>2, <2>1, ResetParts, PTL
  <1>3. CASE UNCHANGED resets /\ UNCHANGED calls
    <2>1. CallsReal' /\ executed' = executed
      BY <1>3, SameCalls DEF calls
    <2> QED BY <1>0, <1>2, <1>3, <2>1, ScreensStay
  <1>4. ASSUME NEW t \in Tokens, OpenReset(t) PROVE CallsReal' /\ ResetInv'
    <2>1. UNCHANGED calls /\ (resets' = <<ResetScreen(t)>> \/ resets' = Append(resets, ResetScreen(t)))
      BY <1>4 DEF OpenReset
    <2>2. CallsReal' /\ executed' = executed
      BY <2>1, SameCalls DEF calls
    <2>3. ScreensInv'
      <3> DEFINE sc == ResetScreen(t)
      <3>1. sc \in Screened /\ sc.status = "edit"
        BY NewScreen
      <3> HIDE DEF sc
      <3>2. /\ resets' \in Seq(Screened)
            /\ \A j \in DOMAIN resets' : resets'[j] = sc \/ (j \in DOMAIN resets /\ resets'[j] = resets[j])
        <4>1. CASE resets' = <<sc>>
          BY <3>1, <4>1
        <4>2. CASE resets' = Append(resets, sc)
          BY <1>0, <3>1, <4>2
        <4> QED BY <2>1, <4>1, <4>2 DEF sc
      <3> QED BY <1>0, <2>2, <3>1, <3>2 DEF ScreensInv, Real, NewPassword
    <2> QED BY <1>2, <2>2, <2>3
  <1>5. CASE ResetUserPassword
    <2>1. /\ resets # <<>> /\ Call(NewPassword(Front.token)) /\ Become(Len(resets), "sending")
      BY <1>5 DEF ResetUserPassword
    <2>2. Len(resets) \in DOMAIN resets
      BY <1>0, <2>1
    <2>3. NewPassword(Front.token) \in Mine
      <3>1. Front.token \in Tokens
        BY <1>0, <2>1, FrontIsScreened
      <3> QED BY <3>1 DEF Mine, ResetOrders
    <2>4. CallsReal' /\ executed' = executed
      BY <2>1, <2>3, RealCall
    <2> QED BY <1>0, <1>2, <2>1, <2>2, <2>4, BecomeKeeps
  <1>6. ASSUME NEW i \in DOMAIN resets, HasReset(i) PROVE CallsReal' /\ ResetInv'
    <2>1. PICK p \in posts : /\ p.order = NewPassword(resets[i].token)
                             /\ \/ Hear(p, "ok") /\ Become(i, "success")
                                \/ Hear(p, "error") /\ Become(i, "fail")
      BY <1>6 DEF HasReset, OfScreen
    <2>2. CallsReal' /\ executed' = executed /\ (Hear(p, "ok") => Real(p.order))
      BY <2>1, RealHear
    <2> QED BY <1>0, <1>2, <2>1, <2>2, BecomeKeeps
  <1>7. CASE ResetDone
    <2>1. resets' = <<>> /\ Leave
      BY <1>7 DEF ResetDone
    <2>2. CallsReal' /\ executed' = executed
      BY <2>1, RealUnhear DEF Leave
    <2>3. ScreensInv'
      BY <2>1 DEF ScreensInv
    <2> QED BY <1>2, <2>2, <2>3
  <1>8. CASE LeaveReset
    <2>1. PICK P : P = OfScreen(Front.token)
      OBVIOUS
    <2>2. resets # <<>> /\ resets' = SubSeq(resets, 1, Len(resets) - 1) /\ Unhear(P) /\ P \subseteq posts
      BY <1>8, <2>1 DEF LeaveReset, OfScreen
    <2>3. CallsReal' /\ executed' = executed
      BY <2>2, RealUnhear
    <2>4. resets' \in Seq(Screened) /\ \A j \in DOMAIN resets' : j \in DOMAIN resets /\ resets'[j] = resets[j]
      BY <1>0, <2>2
    <2>5. ScreensInv'
      BY <1>0, <2>3, <2>4 DEF ScreensInv, Real, NewPassword
    <2> QED BY <1>2, <2>3, <2>5
  <1>9. CASE ReloadReset
    <2> DEFINE sc == ResetScreen(Front.token)
    <2>1. resets # <<>> /\ resets' = <<sc>> /\ Leave
      BY <1>9 DEF ReloadReset
    <2>2. Front.token \in Tokens
      BY <1>0, <2>1, FrontIsScreened
    <2>3. sc \in Screened /\ sc.status = "edit"
      BY <2>2, NewScreen
    <2>4. CallsReal' /\ executed' = executed
      BY <2>1, RealUnhear DEF Leave
    <2> HIDE DEF sc
    <2>5. ScreensInv'
      BY <2>1, <2>3 DEF ScreensInv
    <2> QED BY <1>2, <2>4, <2>5
  <1>10. OpenForgot \/ AskForToken \/ LeaveForgot \/ (\E a \in asks : Asked(a)) => UNCHANGED resets /\ UNCHANGED calls
    BY DEF OpenForgot, AskForToken, LeaveForgot, Asked
  <1> QED BY <1>3, <1>4, <1>5, <1>6, <1>7, <1>8, <1>9, <1>10 DEF ResetClient

-----------------------------------------------------------------------------
(* Decisions: the theorems.                                                *)

\* The invariant holds in the initial states of every part.
LEMMA DecisionsInitially == DecisionsInit => DecisionsInv
  <1> SUFFICES ASSUME DecisionsInit PROVE DecisionsInv
    OBVIOUS
  <1>1. posts = {} /\ executed = {} /\ CallsMade(Orders)
    BY DEF DecisionsInit, CallsInit, CallsMade
  <1>2. CallsReal
    BY <1>1 DEF CallsReal
  <1>3. ApprovalsInv
    BY <1>1 DEF DecisionsInit, ApprovalsInit, ApprovalsInv, Statuses, Dialogs, Sections, NoDialog
  <1>4. LinkInv
    BY DEF DecisionsInit, LinkInit, LinkInv
  <1>5. AdminInv
    BY <1>1 DEF DecisionsInit, AdminInit, AdminInv, OneHiring, Hiring, Awaits, AfterCreate, NoForm
  <1>6. ResetInv
    BY <1>1 DEF DecisionsInit, ResetInit, ResetInv, NoReset
  <1>7. OthersQuiet /\ about \in {"approvals", "payment", "members", "password"}
    BY DEF DecisionsInit, OthersQuiet, ApprovalsInit, LinkInit, AdminInit, ResetInit
  <1> QED BY <1>2, <1>3, <1>4, <1>5, <1>6, <1>7 DEF DecisionsInv

\* Every step keeps the invariant.
LEMMA DecisionsKeep == ASSUME DecisionsInv, [DecisionsNext]_decisions PROVE DecisionsInv'
  <1>0. CallsReal
    BY DEF DecisionsInv
  <1>1. ASSUME OfApprovals(ApprovalClient) \/ OfApprovals(ApprovalBackend) PROVE DecisionsInv'
    <2>1. /\ about = "approvals"
          /\ ApprovalClient \/ ApprovalBackend
          /\ UNCHANGED <<about, linkVars, adminVars, resetVars>>
      BY <1>1 DEF OfApprovals
    <2>2. CallsReal' /\ ApprovalsInv'
      BY <1>0, <2>1, ApprovalClientKeeps, ApprovalBackendKeeps DEF DecisionsInv
    <2> QED BY <2>1, <2>2, ApprovalsPart
  <1>2. ASSUME OfLink(LinkClient) \/ OfLink(LinkBackend) PROVE DecisionsInv'
    <2>1. /\ about = "payment"
          /\ LinkClient \/ LinkBackend
          /\ UNCHANGED <<about, approvalVars, adminVars, resetVars>>
      BY <1>2 DEF OfLink
    <2>2. CallsReal' /\ LinkInv'
      BY <1>0, <2>1, LinkClientKeeps, LinkBackendKeeps DEF DecisionsInv
    <2> QED BY <2>1, <2>2, LinkPart
  <1>3. ASSUME OfMembers(AdminClient) \/ OfMembers(AdminBackend) PROVE DecisionsInv'
    <2>1. /\ about = "members"
          /\ AdminClient \/ AdminBackend
          /\ UNCHANGED <<about, approvalVars, linkVars, resetVars>>
      BY <1>3 DEF OfMembers
    <2>2. CallsReal' /\ AdminInv'
      BY <1>0, <2>1, AdminClientKeeps, AdminBackendKeeps DEF DecisionsInv
    <2> QED BY <2>1, <2>2, AdminPart
  <1>4. ASSUME OfPassword(ResetClient) \/ OfPassword(ResetBackend) PROVE DecisionsInv'
    <2>1. /\ about = "password"
          /\ ResetClient \/ ResetBackend
          /\ UNCHANGED <<about, approvalVars, linkVars, adminVars>>
      BY <1>4 DEF OfPassword
    <2>2. CallsReal' /\ ResetInv'
      BY <1>0, <2>1, ResetClientKeeps, ResetBackendKeeps DEF DecisionsInv
    <2> QED BY <2>1, <2>2, ResetPart
  <1>5. CASE UNCHANGED decisions
    <2>1. /\ UNCHANGED <<about, approvalVars, linkVars, adminVars, resetVars>> /\ UNCHANGED calls
      BY <1>5 DEF decisions
    <2>2. CallsReal' /\ posts' = posts /\ executed' = executed
      BY <1>0, <2>1, SameCalls DEF calls
    <2>3. about = "approvals" => ApprovalsInv'
      BY <2>1, <2>2 DEF DecisionsInv, ApprovalsInv, approvalVars, approvalBackend, pageVars, dialogVars,
                           Order, Real, ValidStatuses
    <2>4. about = "payment" => LinkInv'
      BY <2>1, <2>2 DEF DecisionsInv, LinkInv, linkVars, linkBackend
    <2>5. about = "members" => AdminInv'
      <3>1. ASSUME about = "members" PROVE Roles' /\ Desk'
        BY <2>1, <2>2, <3>1, AdminParts, RolesStay, DeskStays
           DEF DecisionsInv, adminVars, members, tables, forms
      <3> QED BY <3>1, AdminParts, PTL
    <2>6. about = "password" => ResetInv'
      <3>1. ASSUME about = "password" PROVE TokenInv' /\ ScreensInv'
        BY <2>1, <2>2, <3>1, ResetParts, TokensStay, ScreensStay
           DEF DecisionsInv, resetVars, store, screens
      <3> QED BY <3>1, ResetParts, PTL
    <2>7. OthersQuiet'
      BY <2>1 DEF DecisionsInv, OthersQuiet, approvalVars, dialogVars, linkVars, linkPage, linkBackend,
                  adminVars, forms, resetVars, screens
    <2> QED BY <2>1, <2>2, <2>3, <2>4, <2>5, <2>6, <2>7 DEF DecisionsInv
  <1> QED BY <1>1, <1>2, <1>3, <1>4, <1>5 DEF DecisionsNext

\* The inductive invariant holds in every state, for every value of the constants.
THEOREM DecisionsInvariant == DecisionsSpec => []DecisionsInv
  <1>1. DecisionsInv /\ [DecisionsNext]_decisions => DecisionsInv'
    BY DecisionsKeep
  <1> QED BY DecisionsInitially, <1>1, PTL DEF DecisionsSpec

\* Success is displayed only for what the backend carried out, unless a dialog was closed
\* too early or is the one of a payment link.
THEOREM DecisionsSuccess == DecisionsSpec => []SuccessIsReal
  <1>1. DecisionsInv => SuccessIsReal
    <2> SUFFICES ASSUME DecisionsInv PROVE SuccessIsReal
      OBVIOUS
    <2>1. about \in {"approvals", "payment", "members", "password"} /\ OthersQuiet
      BY DEF DecisionsInv
    <2>2. ~left => \A d \in Dialogs : modal[d].status = "success" => \E x \in executed : x.order = Order(d)
      <3>1. CASE about = "approvals"
        BY <3>1 DEF DecisionsInv, ApprovalsInv, Real
      <3>2. CASE about # "approvals"
        BY <2>1, <3>2 DEF OthersQuiet, NoDialog
      <3> QED BY <3>1, <3>2
    <2>3. row = "rejected" => merchant = "aborted"
      BY <2>1 DEF DecisionsInv, LinkInv, OthersQuiet
    <2>4. hired = NoMember \/ slipped \/ (roles[hired] = "admin" /\ \E x \in executed : x.order = Create(hired))
      <3>1. CASE about = "members"
        <4> SUFFICES ASSUME hired # NoMember, ~slipped
                     PROVE  roles[hired] = "admin" /\ \E x \in executed : x.order = Create(hired)
          OBVIOUS
        <4>1. PICK x \in executed : x.order = Create(hired)
          BY <3>1 DEF DecisionsInv, AdminInv, Real
        <4>2. x.order.decision = "create" /\ x.order.about = hired
          BY <4>1 DEF Create
        <4> QED BY <3>1, <4>1, <4>2 DEF DecisionsInv, AdminInv
      <3>2. CASE about # "members"
        BY <2>1, <3>2 DEF OthersQuiet
      <3> QED BY <3>1, <3>2
    <2>5. \A i \in DOMAIN resets :
             resets[i].status = "success" => \E x \in executed : x.order = NewPassword(resets[i].token)
      <3>1. CASE about = "password"
        BY <3>1 DEF DecisionsInv, ResetInv, Real
      <3>2. CASE about # "password"
        BY <2>1, <3>2 DEF OthersQuiet
      <3> QED BY <3>1, <3>2
    <2> QED BY <2>2, <2>3, <2>4, <2>5 DEF SuccessIsReal
  <1> QED BY DecisionsInvariant, <1>1, PTL

\* A pre-approval is decided once unless a change of it did not see another one, a user name
\* given once, and a token used once unless two submissions with it overlap.
THEOREM DecidedOnlyOnce == DecisionsSpec => []DecidedOnce
  <1>1. DecisionsInv => DecidedOnce
    <2> SUFFICES ASSUME DecisionsInv, NEW x \in executed, NEW y \in executed
                 PROVE  /\ Once(x.order) /\ x.order = y.order => x = y
                        /\ about = "approvals" /\ x.order.about \notin raced =>
                             (x.order.about = y.order.about /\ x.order.decision = "valid" =>
                                y.order.decision # "rejected")
      BY DEF DecidedOnce
    <2>1. x.order \in Mine /\ y.order \in Mine
      BY DEF DecisionsInv, CallsReal
    <2>2. CASE about = "approvals"
      <3>1. ApprovalsInv
        BY <2>2 DEF DecisionsInv
      <3>2. x.order.about \notin raced /\ x.order.decision = "valid" => status[x.order.about] \in {"valid", "closed"}
        BY <3>1 DEF ApprovalsInv
      <3>3. y.order.about \notin raced /\ y.order.decision = "rejected" => status[y.order.about] = "rejected"
        BY <3>1 DEF ApprovalsInv
      <3>4. x.order.decision # "create"
        BY <2>1, <2>2 DEF Mine, ApprovalOrders, Dialogs
      <3>5. Once(x.order) => x.order.about \notin raced
        BY <2>2, <3>4 DEF Once
      <3> QED BY <3>1, <3>2, <3>3, <3>5 DEF ApprovalsInv
    <2>3. CASE about = "payment"
      <3>1. x.order.decision \in {"approve", "reject"}
        BY <2>1, <2>3 DEF Mine, LinkOrders
      <3> QED BY <2>3, <3>1 DEF Once
    <2>4. CASE about = "members"
      <3>1. x.order.decision \in {"block", "create"}
        BY <2>1, <2>4 DEF Mine, AdminOrders
      <3> QED BY <2>4, <3>1 DEF Once, DecisionsInv, AdminInv
    <2>5. CASE about = "password"
      <3>1. x.order \in ResetOrders
        BY <2>1, <2>5 DEF Mine
      <3>2. x.order.decision = "reset"
        BY <3>1 DEF ResetOrders, NewPassword
      <3>3. x.order = y.order /\ x.order.about \notin overlaps => x = y
        BY <2>5 DEF DecisionsInv, ResetInv
      <3> QED BY <2>5, <3>2, <3>3 DEF Once
    <2> QED BY <2>2, <2>3, <2>4, <2>5 DEF DecisionsInv
  <1> QED BY DecisionsInvariant, <1>1, PTL

-----------------------------------------------------------------------------
(* Decisions: the refinement of Consent.                                   *)

\* Nothing is pressed or carried out at first.
LEMMA DecisionsConsentInitially == DecisionsInit => C!ConsentInit
  BY DEF DecisionsInit, C!ConsentInit, OnDisplay, ApprovalsInit, LinkInit, AdminInit, ResetInit, CallsInit,
         NoDialog, NoForm, Offers, Invalid, Params

\* Only what can be ordered is on display.
LEMMA DisplayIsOrders == DecisionsInv => OnDisplay \subseteq Orders
  <1> SUFFICES ASSUME DecisionsInv PROVE OnDisplay \subseteq Orders
    OBVIOUS
  <1>0. about \in {"approvals", "payment", "members", "password"} /\ OthersQuiet
    BY DEF DecisionsInv
  <1>1. \A d \in Dialogs : modal[d].open => Order(d) \in ApprovalOrders
    <2>1. CASE about = "approvals"
      BY <2>1 DEF DecisionsInv, ApprovalsInv, Order, ApprovalOrders
    <2>2. CASE about # "approvals"
      BY <1>0, <2>2 DEF OthersQuiet, NoDialog
    <2> QED BY <2>1, <2>2
  <1>2. \A d \in {"approve", "reject"} : Decide(d) \in LinkOrders
    BY DEF Decide, LinkOrders
  <1>3. \A u \in Members : Block(u) \in AdminOrders /\ Create(u) \in AdminOrders
    BY DEF Block, Create, AdminOrders
  <1>4. blocking \in Members \cup {NoMember} /\ (form.status # "inactive" => form.username \in Members \cup {NoMember})
    <2>1. CASE about = "members"
      BY <2>1 DEF DecisionsInv, AdminInv
    <2>2. CASE about # "members"
      BY <1>0, <2>2 DEF OthersQuiet, NoForm
    <2> QED BY <2>1, <2>2
  <1>5. resets # <<>> => NewPassword(Front.token) \in ResetOrders
    <2>1. CASE about = "password" /\ resets # <<>>
      BY <2>1, FrontIsScreened, ResetParts DEF DecisionsInv, ScreensInv, ResetOrders
    <2>2. CASE about # "password"
      BY <1>0, <2>2 DEF OthersQuiet
    <2> QED BY <2>1, <2>2
  <1> QED BY <1>1, <1>2, <1>3, <1>4, <1>5 DEF OnDisplay, Orders

\* As long as the pages stay, what is on display does.
LEMMA DisplayStays ==
  ASSUME UNCHANGED <<inModal, modal, params, dialog, blocking, form, resets>>
  PROVE  OnDisplay' = OnDisplay
  BY DEF OnDisplay, Order, Offers, Front

\* A press of a button on display is a press of Consent.
LEMMA DecisionsPress ==
  ASSUME DecisionsInv, NEW o \in OnDisplay, Call(o), OnDisplay' \subseteq OnDisplay
  PROVE  C!ConsentNext
  <1>1. o \in Orders
    BY DisplayIsOrders
  <1>2. C!Confirm(o)
    BY DEF Call, C!Confirm
  <1> QED BY <1>1, <1>2 DEF C!ConsentNext

\* What the backend carries out is carried out in Consent.
LEMMA DecisionsServe ==
  ASSUME DecisionsInv, NEW p \in posts, Serve(p), OnDisplay' = OnDisplay
  PROVE  C!ConsentNext
  <1>1. /\ presses' = presses /\ p.order \in Orders /\ p.no \in 1..presses[p.order]
        /\ Press(p.order, p.no) \notin executed
        /\ executed' = executed \cup {Press(p.order, p.no)}
    BY ServeMade DEF DecisionsInv, CallsReal
  <1>2. C!Press(p.order, p.no) = Press(p.order, p.no)
    BY DEF C!Press, Press
  <1>3. C!Execute(p.order, p.no)
    BY <1>1, <1>2 DEF C!Execute
  <1> QED BY <1>1, <1>3 DEF C!ConsentNext

\* Every step shows something else, is a press of a button on display or carries out what
\* was pressed.
LEMMA DecisionsConsentStep ==
  ASSUME DecisionsInv, DecisionsInv', [DecisionsNext]_decisions
  PROVE  [C!ConsentNext]_<<OnDisplay, presses, executed>>
  <1>1. CASE UNCHANGED <<presses, executed>>
    <2>1. (OnDisplay \subseteq Orders)'
      BY DisplayIsOrders, PTL
    <2> QED BY <1>1, <2>1 DEF C!ConsentNext, C!Show
  <1>2. ASSUME NEW p \in posts, Serve(p) \/ Refuse(p),
               UNCHANGED <<inModal, modal, params, dialog, blocking, form, resets>>
        PROVE  [C!ConsentNext]_<<OnDisplay, presses, executed>>
    BY <1>1, <1>2, DisplayStays, DecisionsServe DEF Refuse
  <1>3. CASE OfApprovals(ApprovalBackend)
    <2>1. /\ ApprovalBackend /\ UNCHANGED <<params, dialog, blocking, form, resets>>
      BY <1>3 DEF OfApprovals, linkVars, linkPage, adminVars, forms, resetVars, screens
    <2>2. ASSUME NEW p \in posts, CheckStatus(p) \/ UpdateStatus(p) \/ LoseUpdate(p)
          PROVE  [C!ConsentNext]_<<OnDisplay, presses, executed>>
      <3>1. /\ Serve(p) \/ Refuse(p) \/ UNCHANGED calls
            /\ UNCHANGED dialogVars
        BY <2>2 DEF CheckStatus, UpdateStatus, WriteStatus, LoseUpdate
      <3> QED BY <1>1, <1>2, <2>1, <3>1 DEF calls, dialogVars
    <2>3. CASE ClosedByBiller \/ \E a \in Approvals : BillerCloses(a)
      BY <1>1, <2>3 DEF ClosedByBiller, BillerCloses, calls
    <2> QED BY <2>1, <2>2, <2>3 DEF ApprovalBackend
  <1>4. CASE OfApprovals(ApprovalClient)
    <2>1. /\ ApprovalClient /\ UNCHANGED <<params, dialog, blocking, form, resets>>
      BY <1>4 DEF OfApprovals, linkVars, linkPage, adminVars, forms, resetVars, screens
    <2>2. ASSUME NEW d \in Dialogs, UpdateApproval(d) PROVE C!ConsentNext
      <3>1. /\ modal[d].open /\ modal[d].status # "success" /\ Call(Order(d)) /\ inModal' = inModal
            /\ modal' = [modal EXCEPT ![d] = [@ EXCEPT !.status = "edit", !.error = FALSE]]
        BY <2>2 DEF UpdateApproval
      <3>2. Order(d) \in OnDisplay
        BY <3>1 DEF OnDisplay
      <3>3. modal \in [Dialogs -> [open : BOOLEAN, status : {"edit", "success", "fail"}, error : BOOLEAN]]
        BY <1>4 DEF DecisionsInv, ApprovalsInv, OfApprovals
      <3>4. \A e \in Dialogs : modal'[e].open = modal[e].open /\ (e # d => modal'[e] = modal[e])
        BY <3>1, <3>3, ChangedDialog
      <3>5. \A e \in Dialogs : modal'[e].open /\ modal'[e].status # "success" =>
               modal[e].open /\ modal[e].status # "success"
        BY <3>1, <3>4
      <3>6. OnDisplay' \subseteq OnDisplay
        BY <2>1, <3>1, <3>5 DEF OnDisplay, Order, Offers, Front
      <3> QED BY <3>1, <3>2, <3>6, DecisionsPress
    <2>3. CASE ~\E d \in Dialogs : UpdateApproval(d)
      BY <1>1, <2>1, <2>3
         DEF ApprovalClient, OpenPage, FetchApprovals, FetchFailed, LeavePage, ApprovalAnswers, Updated,
             NotUpdated, UserRefreshed, CloseDialog, OpenDialog, Gone, Hear, Unhear, calls
    <2> QED BY <2>2, <2>3
  <1>5. CASE OfLink(LinkBackend)
    <2>1. /\ LinkBackend /\ UNCHANGED <<inModal, modal, blocking, form, resets>>
      BY <1>5 DEF OfLink, approvalVars, dialogVars, adminVars, forms, resetVars, screens
    <2>2. PICK p \in posts : \/ p.state = "sent" /\ (ApprovePayment(p) \/ RejectPayment(p))
                             \/ Refuse(p) /\ UNCHANGED <<linkPage, linkBackend>>
      BY <2>1 DEF LinkBackend
    <2>3. /\ Serve(p) \/ Refuse(p) \/ NothingDone(p)
          /\ UNCHANGED <<params, dialog>>
      BY <2>2 DEF ApprovePayment, RejectPayment, linkPage
    <2> QED BY <1>1, <1>2, <2>1, <2>3 DEF NothingDone
  <1>6. CASE OfLink(LinkClient)
    <2>1. /\ LinkClient /\ UNCHANGED <<inModal, modal, blocking, form, resets>>
      BY <1>6 DEF OfLink, approvalVars, dialogVars, adminVars, forms, resetVars, screens
    <2>2. ASSUME NEW d \in {"approve", "reject"}, Offers(d), Call(Decide(d)), UNCHANGED <<params, dialog>>
          PROVE  C!ConsentNext
      <3>1. Decide(d) \in OnDisplay
        BY <2>2 DEF OnDisplay
      <3> QED BY <2>1, <2>2, <3>1, DisplayStays, DecisionsPress
    <2>3. CASE OnConfirm
      BY <1>1, <2>2, <2>3 DEF OnConfirm, calls
    <2>4. CASE OnReject
      BY <2>2, <2>4 DEF OnReject, linkPage
    <2>5. CASE ~(OnConfirm \/ OnReject)
      BY <1>1, <2>1, <2>5
         DEF LinkClient, OpenLink, DemoTimeout, CloseLink, LinkTask, LinkAnswers, AddPayment, GetPaymentDetails,
             Confirmed, Rejected, Hear, Leave, Unhear, calls
    <2> QED BY <2>3, <2>4, <2>5
  <1>7. CASE OfMembers(AdminBackend)
    <2>1. /\ AdminBackend /\ UNCHANGED <<inModal, modal, params, dialog, resets>>
      BY <1>7 DEF OfMembers, approvalVars, dialogVars, linkVars, linkPage, resetVars, screens
    <2>2. ASSUME NEW p \in posts, BlockUser(p) \/ FindFree(p) \/ AddUser(p) \/ LoseOrder(p),
                 UNCHANGED <<blocking, form>>
          PROVE  [C!ConsentNext]_<<OnDisplay, presses, executed>>
      <3>1. Serve(p) \/ Refuse(p) \/ UNCHANGED <<presses, executed>>
        BY <2>2 DEF BlockUser, FindFree, AddUser, LoseOrder, calls
      <3> QED BY <1>1, <1>2, <2>1, <2>2, <3>1
    <2>3. ASSUME NEW r \in reads, GetUsers(r) PROVE UNCHANGED <<presses, executed>>
      BY <2>3 DEF GetUsers, calls
    <2> QED BY <1>1, <2>1, <2>2, <2>3 DEF AdminBackend, forms
  <1>8. CASE OfMembers(AdminClient)
    <2>1. /\ AdminClient /\ UNCHANGED <<inModal, modal, params, dialog, resets>>
      BY <1>8 DEF OfMembers, approvalVars, dialogVars, linkVars, linkPage, resetVars, screens
    <2>2. AdminInv
      BY <1>8 DEF DecisionsInv, OfMembers
    <2>3. CASE OnCloseConfirmation
      <3>1. /\ blocking # NoMember /\ blocking' = NoMember /\ form' = form
            /\ Call(Block(blocking)) \/ UNCHANGED calls
        BY <2>3 DEF OnCloseConfirmation, forms
      <3>2. Block(blocking) \in OnDisplay /\ OnDisplay' \subseteq OnDisplay
        BY <2>1, <3>1 DEF OnDisplay, Order, Offers, Front
      <3> QED BY <1>1, <3>1, <3>2, DecisionsPress DEF calls
    <2>4. CASE CreateNewAdmin
      <3>1. /\ form.status \in {"editing", "failed"} /\ form.username # NoMember /\ Call(Create(form.username))
            /\ form' = [form EXCEPT !.status = "sending"] /\ blocking' = blocking
        BY <2>4 DEF CreateNewAdmin
      <3>2. form'.status = "sending" /\ form'.username = form.username
        BY <2>2, <3>1 DEF AdminInv
      <3>3. Create(form.username) \in OnDisplay
        BY <3>1 DEF OnDisplay
      <3>4. OnDisplay' \subseteq OnDisplay
        BY <2>1, <3>1, <3>2 DEF OnDisplay, Order, Offers, Front
      <3> QED BY <3>1, <3>3, <3>4, DecisionsPress
    <2>5. CASE ~(OnCloseConfirmation \/ CreateNewAdmin)
      BY <1>1, <2>1, <2>5
         DEF AdminClient, OpenDesk, LeaveDesk, ListUsers, NotListed, ConfirmBlock, EditNewAdmin, OpenNewAdmin,
             CloseNewAdmin, Ordered, Hear, Leave, Unhear, calls
    <2> QED BY <2>3, <2>4, <2>5
  <1>9. CASE OfPassword(ResetBackend)
    <2>1. /\ ResetBackend /\ UNCHANGED <<inModal, modal, params, dialog, blocking, form>>
      BY <1>9 DEF OfPassword, approvalVars, dialogVars, linkVars, linkPage, adminVars, forms
    <2>2. ASSUME NEW p \in posts, CheckToken(p) \/ UpdatePassword(p) \/ LoseReset(p), UNCHANGED screens
          PROVE  [C!ConsentNext]_<<OnDisplay, presses, executed>>
      <3>1. Serve(p) \/ Refuse(p) \/ UNCHANGED <<presses, executed>>
        BY <2>2 DEF CheckToken, UpdatePassword, LoseReset, calls
      <3>2. resets' = resets
        BY <2>2 DEF screens
      <3> QED BY <1>1, <1>2, <2>1, <3>1, <3>2
    <2>3. (\E a \in asks : CreateToken(a)) \/ (\E t \in Tokens : ExpireToken(t)) => UNCHANGED <<presses, executed>>
      BY DEF CreateToken, ExpireToken, calls
    <2> QED BY <1>1, <2>1, <2>2, <2>3 DEF ResetBackend
  <1>10. CASE OfPassword(ResetClient)
    <2>1. /\ ResetClient /\ UNCHANGED <<inModal, modal, params, dialog, blocking, form>>
      BY <1>10 DEF OfPassword, approvalVars, dialogVars, linkVars, linkPage, adminVars, forms
    <2>2. CASE ResetUserPassword
      <3>1. resets # <<>> /\ Call(NewPassword(Front.token)) /\ Become(Len(resets), "sending")
        BY <2>2 DEF ResetUserPassword
      <3>2. resets \in Seq(Screened)
        BY <1>10, ResetParts DEF DecisionsInv, OfPassword, ScreensInv
      <3>3. Len(resets') = Len(resets) /\ resets' # <<>> /\ resets'[Len(resets)].token = resets[Len(resets)].token
        <4>1. PICK new : new = [resets[Len(resets)] EXCEPT !.status = "sending"]
          OBVIOUS
        <4>2. resets' = [resets EXCEPT ![Len(resets)] = new] /\ Len(resets) \in DOMAIN resets
          BY <3>1, <3>2, <4>1 DEF Become
        <4>3. resets[Len(resets)] \in Screened
          BY <3>2, <4>2
        <4>4. new.token = resets[Len(resets)].token /\ new \in Screened
          BY <4>1, <4>3 DEF Screened
        <4>5. resets' \in Seq(Screened) /\ Len(resets') = Len(resets) /\ resets'[Len(resets)] = new
          BY <3>2, <4>2, <4>4
        <4> QED BY <3>1, <3>2, <4>4, <4>5
      <3>4. Front'.token = Front.token
        BY <3>3 DEF Front
      <3>5. NewPassword(Front.token) \in OnDisplay
        BY <3>1 DEF OnDisplay
      <3>6. OnDisplay' \subseteq OnDisplay
        BY <2>1, <3>1, <3>4 DEF OnDisplay, Order, Offers
      <3> QED BY <3>1, <3>5, <3>6, DecisionsPress
    <2>3. CASE ~ResetUserPassword
      BY <1>1, <2>1, <2>3
         DEF ResetClient, OpenForgot, AskForToken, LeaveForgot, ResetDone, LeaveReset, ReloadReset, Asked,
             OpenReset, HasReset, Hear, Leave, Unhear, calls
    <2> QED BY <2>2, <2>3
  <1>11. CASE UNCHANGED decisions
    BY <1>1, <1>11 DEF decisions, calls
  <1> QED BY <1>3, <1>4, <1>5, <1>6, <1>7, <1>8, <1>9, <1>10, <1>11 DEF DecisionsNext

\* Nothing is decided but what was on display when its button was pressed, once for every
\* press.
THEOREM DecisionsConsent == DecisionsSpec => ImplementsConsent
  <1>1. DecisionsInv /\ DecisionsInv' /\ [DecisionsNext]_decisions => [C!ConsentNext]_<<OnDisplay, presses, executed>>
    BY DecisionsConsentStep
  <1> QED BY DecisionsInvariant, DecisionsConsentInitially, <1>1, PTL
       DEF DecisionsSpec, ImplementsConsent, C!ConsentSpec
=============================================================================
