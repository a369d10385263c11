---------------------------- MODULE PasswordReset ----------------------------
(***************************************************************************)
(* A password that was forgotten, in either client.  The user asks for a   *)
(* token; three seconds after it comes, a screen for the new password      *)
(* opens with it.  The backend has one token for a user, which a new one   *)
(* replaces.  It checks a token before it hashes the new password, and     *)
(* then saves that and removes whatever token the user has.                *)
(***************************************************************************)
EXTENDS ClientCalls, Sequences

CONSTANTS
    Owners,     \* users with an account
    Stranger,   \* a user name without one
    MaxTokens,  \* bound: requests for a token
    MaxResets   \* bound: how often a new password is submitted with one token

ASSUME ResetAssumption ==
    Stranger \notin Owners /\ MaxTokens \in Nat /\ MaxResets \in Nat

VARIABLES
    app,       \* "web" or "mobile"
    owners,    \* backend: whose the tokens are that were given out, in their order
    current,   \* backend: [Owners -> the user's token, or none]
    expired,   \* backend: tokens that were not used in time
    checked,   \* backend: submissions whose token was found to be right
    overlaps,  \* tokens with two such at once (history)
    forgot,    \* the screen that asks for a token: status, user name
    asks,      \* its requests under way
    asked,     \* how many it made so far
    due,       \* tokens whose three seconds run
    resets     \* the screens for a new password: tokens and statuses, the last in front

store == <<owners, current, expired, checked, overlaps>>
screens == <<forgot, asks, asked, due, resets>>

NoReset == 0
Tokens == 1..MaxTokens
NewPassword(t) == [about |-> t, decision |-> "reset"]
ResetOrders == {NewPassword(t) : t \in Tokens}

ClosedForgot == [status |-> "closed", username |-> Stranger]
ResetScreen(t) == [token |-> t, status |-> "edit"]
Front == resets[Len(resets)]
Ask(no, u) == [no |-> no, username |-> u, state |-> "sent", token |-> NoReset, heard |-> TRUE]

(* The backend.                                                            *)

AnswersTo(a, S) == \E x \in S : asks' = (asks \ {a}) \cup (IF a.heard THEN {x} ELSE {})

\* forgot_password; the answer may be lost.
CreateToken(a) ==
    /\ a.state = "sent"
    /\ LET t == Len(owners) + 1
           failed == [a EXCEPT !.state = "error"]
       IN \/ /\ a.username \in Owners
             /\ owners' = Append(owners, a.username)
             /\ current' = [current EXCEPT ![a.username] = t]
             /\ AnswersTo(a, {[a EXCEPT !.state = "ok", !.token = t], failed})
          \/ UNCHANGED <<owners, current>> /\ AnswersTo(a, {failed})
    /\ UNCHANGED <<expired, checked, overlaps, forgot, asked, due, resets, calls>>

InForce(t) == t \in DOMAIN owners /\ current[owners[t]] = t /\ t \notin expired

\* reset_password, until the new password is hashed.
CheckToken(p) ==
    LET x == Press(p.order, p.no) t == p.order.about IN
    /\ p.state = "sent" /\ x \notin checked
    /\ IF InForce(t)
       THEN /\ checked' = checked \cup {x} /\ UNCHANGED calls
            /\ overlaps' = overlaps \cup (IF \E y \in checked : y.order = p.order THEN {t} ELSE {})
       ELSE Refuse(p) /\ UNCHANGED <<checked, overlaps>>
    /\ UNCHANGED <<owners, current, expired>>

\* update_user_password
UpdatePassword(p) ==
    LET x == Press(p.order, p.no) IN
    /\ x \in checked /\ checked' = checked \ {x}
    /\ current' = [current EXCEPT ![owners[p.order.about]] = NoReset]
    /\ Serve(p)
    /\ UNCHANGED <<owners, expired, overlaps>>

\* A submission never arrives.
LoseReset(p) == Press(p.order, p.no) \notin checked /\ Refuse(p) /\ UNCHANGED store

\* Five minutes are over.
ExpireToken(t) ==
    /\ InForce(t) /\ expired' = expired \cup {t}
    /\ UNCHANGED <<owners, current, checked, overlaps, screens, calls>>

ResetBackend ==
    \/ \E a \in asks : CreateToken(a)
    \/ \E p \in posts : (CheckToken(p) \/ UpdatePassword(p) \/ LoseReset(p)) /\ UNCHANGED screens
    \/ \E t \in Tokens : ExpireToken(t)

(* Asking for a token.                                                     *)

OpenForgot ==
    /\ forgot.status = "closed" /\ resets = <<>>
    /\ \E u \in Owners \cup {Stranger} : forgot' = [status |-> "edit", username |-> u]
    /\ UNCHANGED <<store, asks, asked, due, resets, calls>>

\* The web application's field submits with the Enter key although its button is gone.
\* After success the mobile app still has the form.
CanAsk ==
    /\ resets = <<>> /\ asked < MaxTokens
    /\ forgot.status \notin IF app = "web" THEN {"closed", "success"} ELSE {"closed", "sending"}

AskForToken ==
    /\ CanAsk /\ asked' = asked + 1
    /\ asks' = asks \cup {Ask(asked + 1, forgot.username)}
    /\ forgot' = [forgot EXCEPT !.status = "sending"]
    /\ UNCHANGED <<store, due, resets, calls>>

Asked(a) ==
    /\ a.heard /\ a.state \in {"ok", "error"} /\ asks' = asks \ {a}
    /\ forgot' = [forgot EXCEPT !.status = IF a.state = "ok" THEN "success" ELSE "fail"]
    /\ due' = IF a.state = "ok" THEN due \cup {a.token} ELSE due
    /\ UNCHANGED <<store, asked, resets, calls>>

\* Nobody hears the answers to a screen that is closed, and its timers do nothing.
CloseForgot ==
    /\ forgot' = ClosedForgot /\ due' = {}
    /\ asks' = {[a EXCEPT !.heard = FALSE] : a \in {b \in asks : b.state = "sent"}}

LeaveForgot ==
    /\ forgot.status # "closed" /\ resets = <<>>
    /\ CloseForgot
    /\ UNCHANGED <<store, asked, resets, calls>>

\* The web application goes to the other page; the mobile app puts its screen in front of
\* whatever is there.
OpenReset(t) ==
    /\ t \in due
    /\ IF app = "web"
       THEN resets' = <<ResetScreen(t)>> /\ CloseForgot
       ELSE /\ resets' = Append(resets, ResetScreen(t)) /\ due' = due \ {t}
            /\ UNCHANGED <<forgot, asks>>
    /\ UNCHANGED <<store, asked, calls>>

(* Setting a new password.                                                 *)

Become(i, status) == resets' = [resets EXCEPT ![i].status = status]
OfScreen(t) == {p \in posts : p.order = NewPassword(t)}
Submits == IF app = "web" THEN {"edit", "fail"} ELSE {"edit", "fail", "success"}

\* Both fields have the same, strong password: otherwise nothing is sent.
ResetUserPassword ==
    /\ resets # <<>> /\ Front.status \in Submits
    /\ presses[NewPassword(Front.token)] < MaxResets
    /\ Call(NewPassword(Front.token)) /\ Become(Len(resets), "sending")
    /\ UNCHANGED <<store, forgot, asks, asked, due>>

HasReset(i) ==
    /\ \E p \in OfScreen(resets[i].token) :
         \/ Hear(p, "ok") /\ Become(i, "success")
         \/ Hear(p, "error") /\ Become(i, "fail")
    /\ UNCHANGED <<store, forgot, asks, asked, due>>

\* After success both clients return to where they began.
ResetDone ==
    /\ \E i \in DOMAIN resets : resets[i].status = "success"
    /\ resets' = <<>> /\ CloseForgot /\ Leave
    /\ UNCHANGED <<store, asked>>

LeaveReset ==
    /\ resets # <<>>
    /\ resets' = SubSeq(resets, 1, Len(resets) - 1)
    /\ Unhear(OfScreen(Front.token))
    /\ UNCHANGED <<store, forgot, asks, asked, due>>

\* The page of the web application is loaded again, with the token in its address.
ReloadReset ==
    /\ app = "web" /\ resets # <<>>
    /\ resets' = <<ResetScreen(Front.token)>> /\ Leave
    /\ UNCHANGED <<store, forgot, asks, asked, due>>

ResetClient ==
    \/ OpenForgot \/ AskForToken \/ LeaveForgot \/ ResetUserPassword \/ ResetDone
    \/ LeaveReset \/ ReloadReset
    \/ \E a \in asks : Asked(a)
    \/ \E t \in Tokens : OpenReset(t)
    \/ \E i \in DOMAIN resets : HasReset(i)

ResetInit ==
    /\ app \in {"web", "mobile"}
    /\ owners = <<>> /\ current = [u \in Owners |-> NoReset]
    /\ expired = {} /\ checked = {} /\ overlaps = {}
    /\ forgot = ClosedForgot /\ asks = {} /\ asked = 0 /\ due = {} /\ resets = <<>>
=============================================================================
