----------------------------- MODULE WebSession -----------------------------
(***************************************************************************)
(* A session of the web application.  All pages display one "settings"     *)
(* value, which a read replaces every few seconds, and which a page that   *)
(* hears an answer replaces by what it was when the call was made, with    *)
(* the answer put in.  A read that is refused drops the stored token and   *)
(* loads the application anew.                                             *)
(*                                                                         *)
(* The other parts of the settings (rates, balances, payment methods) are  *)
(* left out, and so are the pages that neither sign in nor change a user.  *)
(***************************************************************************)
EXTENDS Users

VARIABLES
    settings,  \* the copy of the user on display
    page,      \* the page
    refresh,   \* the read of the refresh loop
    naming     \* the name of the chain has been asked for at the load

web == <<settings, page, refresh, naming>>

LoggedOutPages == {"login", "signup"}

\* LoggedInRoute and LoggedOutRoute.
Routed(p, t) ==
    IF t = NoToken THEN IF p \in LoggedOutPages THEN p ELSE "login"
    ELSE IF p \in LoggedOutPages THEN "home" ELSE p

Unverified(s) == s.of # Nobody /\ ~s.verified

\* Home sends a user who is not verified to the identity form.
Landed(p, s, t) ==
    LET r == Routed(p, t)
    IN  IF r = "home" /\ Unverified(s) /\ s.of # Demo THEN "verify" ELSE r

\* What Home does for the demo user: it submits an identity, and ignores the answer.
DemoOps(p, s, t, before) ==
    IF /\ p = "home" /\ Unverified(s) /\ s.of = Demo
       /\ ~(page = "home" /\ before = s)
    THEN {[Op("verify", Nobody, "left", 0, Info, Unknown) EXCEPT !.no = 0, !.as = t]} ELSE {}

\* The application displays settings s with token t stored, on page p or where it leads.
Display(s, t, p, rest) ==
    LET n == Landed(p, s, t)
    IN  /\ settings' = s /\ token' = t /\ page' = n
        /\ ops' = LeftOps(rest, {page} \ {n}) \cup DemoOps(n, s, t, settings)

Idle == UNCHANGED <<server, sessions, valid, made, failures>>

WebInit ==
    /\ settings = Unknown /\ refresh = DueRead /\ naming = TRUE
    /\ page = Routed("home", token)

(* Pages.                                                                  *)

\* The links between the pages.
Visit(name) ==
    /\ page # name
    /\ \/ name \in LoggedOutPages /\ page \in LoggedOutPages
       \/ name = "home" /\ page \notin LoggedOutPages
       \/ name = "settings" /\ settings.of # Nobody /\ page \notin LoggedOutPages
    /\ Display(settings, token, name, LeftOps(ops, {page}))
    /\ Idle /\ UNCHANGED <<refresh, naming>>

\* Signing up opens a session as signing in does.  The button waits for the answer.
Enter(u, name) ==
    /\ page = name
    /\ \A p \in ops : p.kind = "signin" => p.at # page
    /\ Make(Op("signin", u, page, 0, {}, Unknown))
    /\ UNCHANGED web
Signin(u) == Enter(u, "login")
Signup(u) == Enter(u, "signup")

SavePreferences(prefs) ==
    /\ page = "settings" /\ settings.of # Nobody
    /\ Make(Op("save", Nobody, "settings", prefs, {}, settings))
    /\ UNCHANGED web

Logout ==
    /\ page = "settings"
    /\ Make(Op("signout", Nobody, "settings", 0, {}, settings))
    /\ UNCHANGED web

\* The document may be skipped.
Step1Identity == {"identity"}
Step2Country == {"country"}
Step3Address == {"address"}
Step4Document == {}
Step5DefaultCurrency(steps, offered) == Submissions(steps, offered)

WebForms ==
    Step5DefaultCurrency(<<Step1Identity, Step2Country, Step3Address, Step4Document>>, 1..3)

\* The identity form is on display with a user.
Submit ==
    /\ page = "verify" /\ settings.of # Nobody
    /\ \E info \in WebForms : Make(Op("verify", Nobody, "verify", 0, info, settings))
    /\ UNCHANGED web

(* Answers.                                                                *)

SignedIn(p) ==
    /\ p.kind = "signin" /\ p.state = "done" /\ p.at # "left"
    /\ Display([settings EXCEPT !.late = @ \/ token # NoToken], p.arg, "home", ops \ {p})

\* The form was left for the other: the token is stored all the same, and nothing is
\* rendered.  What is on display was not read with it.
SignedInUnseen(p) ==
    /\ p.kind = "signin" /\ p.state = "done" /\ p.at = "left"
    /\ token' = p.arg /\ settings' = [settings EXCEPT !.late = TRUE]
    /\ ops' = ops \ {p} /\ UNCHANGED page

Based(p) == [p.base EXCEPT !.late = @ \/ p.as # token]

\* The preferences that were on display are put back by none but the next read.
Saved(p) ==
    /\ p.kind = "save" /\ p.state = "done"
    /\ Display([Based(p) EXCEPT !.prefs = p.arg], token,
               IF p.at = "settings" THEN "home" ELSE page, ops \ {p})

Verified(p) ==
    /\ p.kind = "verify" /\ p.state = "done"
    /\ Display([Based(p) EXCEPT !.verified = TRUE], token,
               IF p.at = "verify" THEN "home" ELSE page, ops \ {p})

\* Mutant: the user stays on display.
SignedOutM(p) ==
    /\ p.kind = "signout" /\ p.state = "done"
    /\ Display(p.base, NoToken, page, ops \ {p})

\* Signing out ends the session here whatever the backend answered.
SignedOut(p) ==
    /\ p.kind = "signout" /\ p.state = "done"
    /\ Display([Unknown EXCEPT !.prefs = p.base.prefs], NoToken, page, ops \ {p})

WebHear ==
    /\ \E p \in ops : SignedIn(p) \/ SignedInUnseen(p) \/ Saved(p) \/ Verified(p) \/ SignedOut(p)
    /\ Idle /\ UNCHANGED <<refresh, naming>>

(* The refresh loop and the name of the chain.                             *)

RefreshAsk ==
    /\ refresh.state = "due" /\ token # NoToken
    /\ refresh' = AskedRead
    /\ UNCHANGED <<users, settings, page, naming>>

RefreshServe ==
    /\ refresh.state = "sent"
    /\ \/ refresh' \in Answers(refresh) /\ UNCHANGED users
       \/ /\ failures < MaxFailures /\ failures' = failures + 1 /\ refresh' = LostRead(refresh)
          /\ UNCHANGED <<server, sessions, valid, token, ops, made>>
    /\ UNCHANGED <<settings, page, naming>>

Refreshed ==
    /\ refresh.state = "ok" /\ refresh' = DueRead
    /\ Display(Fresh(refresh), token, page, ops)
    /\ Idle /\ UNCHANGED naming

RefreshFailed ==
    /\ refresh.state = "error" /\ refresh' = DueRead
    /\ UNCHANGED <<users, settings, page, naming>>

\* Mutant: every failure counts as a refusal.
RefreshRefusedM ==
    /\ refresh.state \in {"refused", "error"}
    /\ token' = NoToken /\ ops' = DeadOps /\ settings' = Unknown /\ refresh' = DueRead
    /\ naming' = TRUE /\ page' = "login"
    /\ Idle

\* The token that is stored now goes, and the application is loaded anew.
RefreshRefused ==
    /\ refresh.state = "refused"
    /\ token' = NoToken /\ ops' = DeadOps /\ settings' = Unknown /\ refresh' = DueRead
    /\ naming' = TRUE /\ page' = "login"
    /\ Idle

RefreshLoop == RefreshAsk \/ Refreshed \/ RefreshFailed \/ RefreshRefused

\* The answer puts the first settings back, without a user.
ChainDisplayName ==
    /\ naming /\ naming' = FALSE
    /\ \/ Display(Unknown, token, page, ops)
       \/ UNCHANGED <<token, ops, settings, page>>
    /\ Idle /\ UNCHANGED refresh

WebNext ==
    \/ \E name \in {"login", "signup", "home", "settings"} : Visit(name)
    \/ \E u \in People : Signin(u) \/ Signup(u)
    \/ \E prefs \in Prefs \ {settings.prefs} : SavePreferences(prefs)
    \/ Submit \/ Logout
    \/ WebHear \/ RefreshServe \/ RefreshLoop \/ ChainDisplayName
=============================================================================
