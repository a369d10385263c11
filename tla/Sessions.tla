------------------------------ MODULE Sessions -------------------------------
(***************************************************************************)
(* One client, of either kind, and the backend: from its start, with those *)
(* who use it one after the other, or while one of them looks at lists of  *)
(* transactions, which do not depend on the rest as long as the session    *)
(* lasts.                                                                  *)
(***************************************************************************)
EXTENDS WebSession, MobileSession, Listings

VARIABLES
    client,  \* "web" or "mobile"
    part     \* what is looked at: "session" or "lists"

vars == <<client, part, users, web, mobile, lists>>
kind == <<client, part>>

\* What belongs to the other client stays as it is.
NoWeb == settings = Unknown /\ page = "none" /\ refresh = NoRead /\ naming = FALSE
NoMobile == stack = <<>> /\ leaked = NoRead

Init ==
    /\ UsersInit /\ ListsInit
    /\ \/ part = "session" /\ client = "web" /\ WebInit /\ NoMobile
       \/ part = "session" /\ client = "mobile" /\ MobileInit /\ NoWeb
       \/ part = "lists" /\ client \in {"web", "mobile"} /\ sessions = <<>> /\ NoWeb /\ NoMobile

InSession(A) == part = "session" /\ A /\ UNCHANGED <<kind, lists>>
InLists(A) == part = "lists" /\ A /\ UNCHANGED <<kind, users, web, mobile>>

WebStep == client = "web" /\ WebNext /\ UNCHANGED mobile
MobileStep == client = "mobile" /\ MobileNext /\ UNCHANGED web
BackendStep == (ServeOp \/ Expire) /\ UNCHANGED <<web, mobile>>

Next ==
    \/ InSession(WebStep) \/ InSession(MobileStep) \/ InSession(BackendStep)
    \/ InLists(client = "web" /\ WebLists) \/ InLists(client = "mobile" /\ MobileLists)
    \/ InLists(Transacted)

Spec == Init /\ [][Next]_vars

\* The loop that reads the user goes on: timers go off, and reads are answered in the end,
\* if only by a failure.  In the mobile app it is the loop of the first screen; it does not
\* wait for the others.  The loops of lists do, each of them.  Calls may stay without an
\* answer.
LoopTurn(n) ==
    \E p \in loops : p.no = n /\ IF client = "web" THEN WebList(p) ELSE MobileList(p)
FairSpec ==
    /\ Spec
    /\ WF_vars(InSession(client = "web" /\ (RefreshServe \/ RefreshLoop) /\ UNCHANGED mobile))
    /\ WF_vars(InSession(client = "mobile" /\ LoadUser(1) /\ UNCHANGED web))
    /\ \A n \in 1..MaxLoops : WF_vars(InLists(LoopTurn(n)))

-----------------------------------------------------------------------------
(* Properties.                                                             *)

\* What the client displays.
Shown == IF client = "web" THEN {settings} ELSE {stack[i].shown : i \in DOMAIN stack}
Reads == IF client = "web" THEN {refresh} ELSE {stack[i].loop : i \in DOMAIN stack} \cup {leaked}

\* A client displays the user whose token it stores, not one who used it before, unless
\* an answer to an earlier user's call or read came late.
DisplayedIsOwn ==
    token # NoToken => \A s \in Shown : s.late \/ s.of \in {Nobody, sessions[token]}

\* A token that the backend still accepts is dropped only by one who signs in or out, or
\* when a read made with an earlier token is refused late.
TokenKept ==
    [][(token \in valid /\ token' # token) =>
         \/ \E p \in ops \ ops' : p.kind \in {"signin", "signout"} /\ p.state = "done"
         \/ client = "mobile" /\ MobileLogout
         \/ \E r \in Reads : r.state = "refused" /\ r.as # token]_vars

\* What is submitted as an identity is complete, however the user moved through the form.
SubmittedIsComplete == \A p \in ops : p.kind = "verify" => p.info = Info

\* A client comes to display its user as the backend has it, whatever was displayed
\* meanwhile, unless it signs out, or the mobile app's first screen says that it cannot
\* connect or that the user is to sign in, or once found no token when it was to read.
\* A list comes to be the one that was chosen unless a read fails; in the web application
\* it stays so, in the mobile app loops of earlier choices may go on beside it.
Mirrors ==
    IF client = "web" THEN settings = Copy(sessions[token], FALSE)
    ELSE \/ stack[1].name \in {"SignIn", "ConnectionError"}
         \/ stack[1].loop.state = "ended"
         \/ stack[1].shown = Copy(sessions[token], FALSE)

Heals ==
    /\ []<>(part = "lists" \/ token = NoToken \/ Mirrors)
    /\ []<>(part = "session" \/ Unread \/ ListFits)
    /\ <>[](part = "session" \/ client = "mobile" \/ Unread \/ ListFits)

-----------------------------------------------------------------------------
(* The inductive invariant behind the safety properties.                   *)

Places == {"none", "login", "signup", "home", "settings", "verify", "SignIn", "SignUp",
           "Home", "Verify", "Settings", "ConnectionError", "left", "dead"}
Copies == [of : People \cup {Nobody}, verified : BOOLEAN, prefs : Prefs, late : BOOLEAN]
ReadsOf == [state : {"none", "due", "sent", "ok", "refused", "error", "ended"}, as : Nat, copy : Copies]
Ops == [no : Nat, kind : {"signin", "signout", "save", "verify"}, user : People \cup {Nobody},
        at : Places, as : Nat, arg : Nat, info : SUBSET Info, base : Copies, state : {"sent", "done"}]
Stacks == Seq([name : Places, shown : Copies, loop : ReadsOf])

\* The operators below take the sessions s (and valid tokens v, and calls made n) as
\* parameters, since one step changes them together with what refers to them.

\* A copy is nobody's, late, or of the user of token t.
Own(c, t, s) == c.late \/ c.of = Nobody \/ (t \in DOMAIN s /\ c.of = s[t])

\* What was read belongs to the token that it was read with, and what was refused was
\* refused for good.
GoodRead(r, s, v) ==
    /\ r \in ReadsOf /\ r.as \in 0..Len(s)
    /\ r.state = "ok" => r.as \in DOMAIN s /\ r.copy.of = s[r.as]
    /\ r.state = "refused" => r.as \notin v

\* What a call was based on was displayed with the token that it was made with; the
\* answer to a sign-in is a token; calls are told apart by their numbers.
GoodOp(p, s, n) ==
    /\ p \in Ops /\ p.as \in 0..Len(s) /\ Own(p.base, p.as, s)
    /\ p.kind = "signin" => p.user \in People /\ (p.state = "done" => p.arg \in DOMAIN s)
    /\ (p.kind = "save" => p.arg \in Prefs) /\ (p.kind = "verify" => p.info = Info)
    /\ p.no \in 0..n /\ (p.kind # "verify" => p.no > 0)
GoodOps(P, s, n) ==
    /\ \A p \in P : GoodOp(p, s, n)
    /\ \A p, q \in P : p.no = q.no /\ p.no > 0 => p = q

TypeOK ==
    /\ client \in {"web", "mobile"} /\ part \in {"session", "lists"}
    /\ server \in [People -> [verified : BOOLEAN, prefs : Prefs]]
    /\ sessions \in Seq(People) /\ valid \subseteq DOMAIN sessions /\ token \in 0..Len(sessions)
    /\ made \in Nat /\ failures \in Nat
    /\ settings \in Copies /\ page \in Places
    /\ stack \in Stacks /\ (part = "session" /\ client = "mobile" => stack # <<>>)

\* Where somebody is displayed without a token, it is on a screen of the mobile app that
\* the next sign-in marks as late.
ShownInv ==
    /\ client = "web" => Own(settings, token, sessions)
    /\ client = "mobile" /\ token # NoToken => \A i \in DOMAIN stack : Own(stack[i].shown, token, sessions)
ReadsInv ==
    /\ GoodRead(refresh, sessions, valid) /\ GoodRead(leaked, sessions, valid)
    /\ \A i \in DOMAIN stack : GoodRead(stack[i].loop, sessions, valid)

IInv == TypeOK /\ ShownInv /\ ReadsInv /\ GoodOps(ops, sessions, made)
=============================================================================
