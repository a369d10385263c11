---------------------------- MODULE MobileSession ----------------------------
(***************************************************************************)
(* A session of the mobile app: a stack of screens, each of which reads    *)
(* the user for itself, again and again.  A screen that is taken off the   *)
(* stack cancels the timer for its next read; when it is waiting for an    *)
(* answer there is none to cancel, and its loop goes on without it         *)
(* ("leaked").  A loop ends without a token, or with a failure, which      *)
(* leads from the whole stack to SignIn or to ConnectionError; for a       *)
(* screen that is gone there is no stack to change.  Of the loops whose    *)
(* screens are gone the model follows one, any one.                        *)
(***************************************************************************)
EXTENDS Users

VARIABLES
    stack,  \* the screens: [name, shown, loop]
    leaked  \* the read of a loop whose screen is gone

mobile == <<stack, leaked>>

NameOf(i) == stack[i].name
Top == stack[Len(stack)]
WithUser == {"Home", "Verify", "Settings"}

Screen(name) ==
    [name |-> name, shown |-> Unknown,
     loop |-> IF name \in WithUser THEN DueRead ELSE NoRead]

\* What becomes of the loops of screens that are taken off the stack.
Leak(screens) ==
    LET loops == {s.loop : s \in {r \in screens : r.loop.state \notin {"none", "due", "ended"}}}
    IN  leaked' \in IF loops = {} THEN {leaked} ELSE loops \cup ({leaked} \ {NoRead})

\* The stack gives way to one screen; all calls but those in rest have been heard.
SetStackRoot(name, keeps, rest) ==
    /\ stack' = <<Screen(name)>>
    /\ Leak({stack[i] : i \in keeps})
    /\ ops' = LeftOps(rest, {NameOf(i) : i \in DOMAIN stack})

Push(name) == stack' = Append(stack, Screen(name)) /\ UNCHANGED <<users, leaked>>

PopToRoot(rest) ==
    /\ stack' = <<stack[1]>>
    /\ Leak({stack[i] : i \in 2..Len(stack)})
    /\ ops' = LeftOps(rest, {NameOf(i) : i \in 2..Len(stack)})

Rest == UNCHANGED <<server, sessions, valid, made, failures>>

MobileInit ==
    /\ stack = <<Screen(IF token # NoToken THEN "Home" ELSE "SignIn")>>
    /\ leaked = NoRead

(* Screens.                                                                *)

\* The header leads to Settings, from a screen that has read its user (from Settings itself,
\* too, which is left out).
OpenScreen ==
    \/ Top.name = "SignIn" /\ Push("SignUp")
    \/ Top.name \in {"Home", "Verify"} /\ Top.shown.of # Nobody /\ Push("Settings")

GoBack == Len(stack) > 1 /\ PopToRoot(ops) /\ Rest /\ UNCHANGED token

TryAgain ==
    /\ Top.name = "ConnectionError"
    /\ SetStackRoot("Home", {1}, ops) /\ Rest /\ UNCHANGED token

\* SignIn looks for a token whenever it is rendered, SignUp when it opens.
RedirectLoggedIn ==
    /\ Top.name \in {"SignIn", "SignUp"} /\ token # NoToken
    /\ SetStackRoot("Home", DOMAIN stack, ops) /\ Rest /\ UNCHANGED token

MobileEnter(u, name) ==
    /\ Top.name = name
    /\ \A p \in ops : p.kind = "signin" => p.at # Top.name
    /\ Make(Op("signin", u, Top.name, 0, {}, Unknown))
    /\ UNCHANGED mobile
MobileSignIn(u) == MobileEnter(u, "SignIn")
MobileSignUp(u) == MobileEnter(u, "SignUp")

\* Settings and the identity form are on display when the screen has read a user.
MobileSave(prefs) ==
    /\ Top.name = "Settings" /\ Top.shown.of # Nobody
    /\ Make(Op("save", Nobody, "Settings", prefs, {}, Unknown))
    /\ UNCHANGED mobile

\* Only the token is dropped: the backend is not told.
MobileLogout ==
    /\ Top.name = "Settings" /\ Top.shown.of # Nobody
    /\ token' = NoToken
    /\ SetStackRoot("SignIn", DOMAIN stack, ops) /\ Rest

MobileStep1Identity == {"identity"}
MobileStep2Country == {"country"}
MobileStep3Address == {"address"}
MobileStep4Document == {}
MobileStep5DefaultCurrency(steps, offered) == Submissions(steps, offered)

MobileForms ==
    MobileStep5DefaultCurrency(
        <<MobileStep1Identity, MobileStep2Country, MobileStep3Address, MobileStep4Document>>, {1})

MobileSubmit ==
    /\ Top.name = "Verify" /\ Top.shown.of # Nobody
    /\ \E info \in MobileForms : Make(Op("verify", Nobody, "Verify", 0, info, Unknown))
    /\ UNCHANGED mobile

(* Answers.                                                                *)

\* The token is stored in any case; a screen that is still there is rendered again, and
\* what others display was not read with it.
MobileSignedIn(p) ==
    /\ p.kind = "signin" /\ p.state = "done"
    /\ token' = p.arg
    /\ \/ /\ p.at # "left"
          /\ SetStackRoot("Home", DOMAIN stack, ops \ {p})
       \/ /\ p.at = "left"
          /\ stack' = [i \in DOMAIN stack |-> [stack[i] EXCEPT !.shown.late = TRUE]]
          /\ ops' = ops \ {p} /\ UNCHANGED leaked

MobileSaved(p) ==
    /\ p.kind = "save" /\ p.state = "done" /\ p.at = "Settings"
    /\ PopToRoot(ops \ {p}) /\ UNCHANGED token

MobileVerified(p) ==
    /\ p.kind = "verify" /\ p.state = "done" /\ p.at = "Verify"
    /\ SetStackRoot("Home", DOMAIN stack, ops \ {p}) /\ UNCHANGED token

\* The screen is gone.
MobileIgnored(p) ==
    /\ p.kind # "signin" /\ p.state = "done" /\ p.at = "left"
    /\ ops' = ops \ {p} /\ UNCHANGED <<token, stack, leaked>>

MobileHear ==
    /\ \E p \in ops : MobileSignedIn(p) \/ MobileSaved(p) \/ MobileVerified(p) \/ MobileIgnored(p)
    /\ Rest

(* The loops (loadUser).                                                   *)

\* Without a token the loop ends before it asks.
EndedRead == [NoRead EXCEPT !.state = "ended"]
Asking == IF token = NoToken THEN EndedRead ELSE AskedRead

LoadAsk(i) ==
    /\ stack[i].loop.state = "due"
    /\ stack' = [stack EXCEPT ![i].loop = Asking]
    /\ UNCHANGED <<users, leaked>>

\* The backend answers r, or the answer is lost: the read becomes q.
ServeRead(r, q) ==
    /\ r.state = "sent"
    /\ \/ q \in Answers(r) /\ UNCHANGED users
       \/ /\ failures < MaxFailures /\ failures' = failures + 1
          /\ q = LostRead(r)
          /\ UNCHANGED <<server, sessions, valid, token, ops, made>>

LoadServe(i) ==
    /\ \E q \in Answers(stack[i].loop) \cup {LostRead(stack[i].loop)} :
         ServeRead(stack[i].loop, q) /\ stack' = [stack EXCEPT ![i].loop = q]
    /\ UNCHANGED leaked

ToVerify(i) == stack[i].name = "Home" /\ ~stack[i].loop.copy.verified

Loaded(i) ==
    /\ stack[i].loop.state = "ok" /\ ~ToVerify(i)
    /\ stack' = [stack EXCEPT ![i].shown = Fresh(stack[i].loop), ![i].loop = DueRead]
    /\ UNCHANGED <<leaked, ops, token>>

\* Home sends a user who is not verified to the identity form.
SentToVerify(i) ==
    /\ stack[i].loop.state = "ok" /\ ToVerify(i)
    /\ SetStackRoot("Verify", DOMAIN stack \ {i}, ops)
    /\ UNCHANGED token

LoadFailed(i) ==
    /\ stack[i].loop.state = "error"
    /\ SetStackRoot("ConnectionError", DOMAIN stack \ {i}, ops)
    /\ UNCHANGED token

LoadRefused(i) ==
    /\ stack[i].loop.state = "refused"
    /\ token' = NoToken
    /\ SetStackRoot("SignIn", DOMAIN stack \ {i}, ops)

\* The same where the screen is gone: what it displays and the stack do not matter.
LeakHeard ==
    /\ leaked.state \in {"ok", "error", "refused"}
    /\ leaked' = IF leaked.state = "ok" THEN DueRead ELSE NoRead
    /\ token' = IF leaked.state = "refused" THEN NoToken ELSE token
    /\ Rest /\ UNCHANGED <<stack, ops>>

Leaked ==
    \/ leaked.state = "due" /\ leaked' = (IF token = NoToken THEN NoRead ELSE AskedRead) /\ UNCHANGED <<users, stack>>
    \/ /\ \E q \in Answers(leaked) \cup {LostRead(leaked)} : ServeRead(leaked, q) /\ leaked' = q
       /\ UNCHANGED stack
    \/ LeakHeard

LoadUser(i) ==
    /\ i \in DOMAIN stack
    /\ \/ LoadAsk(i) \/ LoadServe(i)
       \/ (Loaded(i) \/ SentToVerify(i) \/ LoadFailed(i) \/ LoadRefused(i)) /\ Rest

MobileNext ==
    \/ OpenScreen \/ GoBack \/ TryAgain \/ RedirectLoggedIn
    \/ \E u \in People : MobileSignIn(u) \/ MobileSignUp(u)
    \/ \E prefs \in Prefs \ {Top.shown.prefs} : MobileSave(prefs)
    \/ MobileSubmit \/ MobileLogout \/ MobileHear
    \/ Leaked \/ \E i \in DOMAIN stack : LoadUser(i)
=============================================================================
