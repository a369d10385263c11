------------------------------- MODULE Users --------------------------------
(***************************************************************************)
(* Users and their sessions: what the backend keeps of them, the token     *)
(* that a client (the web application or the mobile app) stores, and the   *)
(* calls by which the client's screens sign in, save preferences, submit   *)
(* an identity and sign out.  A call carries the token that was stored     *)
(* when it was made, and its answer is heard however late it comes.  A     *)
(* call that fails, or whose answer is lost, ends with a message and       *)
(* nothing else, but signing out ends in the same way as when it succeeds. *)
(***************************************************************************)
EXTENDS Integers, Sequences, FiniteSets

CONSTANTS
    People,       \* those who use the client
    Demo,         \* the one of them who is the demo user, if any
    Nobody,
    NewPeople,    \* those whose identity the backend does not know at the start
    MaxSessions,  \* bound: sessions that are opened
    MaxOps,       \* bound: calls that users make
    MaxFailures   \* bound: reads that fail and sessions that end by themselves

ASSUME UsersAssumption ==
    /\ Nobody \notin People /\ NewPeople \subseteq People
    /\ MaxSessions \in Nat /\ MaxOps \in Nat /\ MaxFailures \in Nat

VARIABLES
    server,    \* [People -> [verified, prefs]]: the backend's rows
    sessions,  \* the users of the sessions opened so far; a token is an index
    valid,     \* the tokens the backend accepts
    token,     \* the token the client stores, NoToken if none
    ops,       \* calls under way, or answered and not heard yet
    made,      \* calls made by users so far
    failures   \* reads that failed, and sessions that ended by themselves, so far

users == <<server, sessions, valid, token, ops, made, failures>>

NoToken == 0
Prefs == {0, 1}
Info == {"identity", "country", "address"}

\* What a client knows of a user.  "late": it comes from a call or a read made with
\* another token than the one that was stored when it was displayed (history).
Copy(u, late) == [of |-> u, verified |-> server[u].verified, prefs |-> server[u].prefs, late |-> late]
Unknown == [of |-> Nobody, verified |-> FALSE, prefs |-> 0, late |-> FALSE]

UsersInit ==
    /\ server = [u \in People |-> [verified |-> u \notin NewPeople, prefs |-> 0]]
    /\ sessions \in {<<>>} \cup {<<u>> : u \in People}
    /\ valid = DOMAIN sessions /\ token = Len(sessions)
    /\ ops = {} /\ made = 0 /\ failures = 0

(* Calls.                                                                  *)

\* A call: what it asks for, by or for whom, from which screen, with which token and
\* argument, and what the screen displayed when it was made.
Op(kind, user, at, arg, info, base) ==
    [no |-> made + 1, kind |-> kind, user |-> user, at |-> at, as |-> token, arg |-> arg,
     info |-> info, base |-> base, state |-> "sent"]

Make(op) ==
    /\ made < MaxOps /\ made' = made + 1
    /\ ops' = ops \cup {op}
    /\ UNCHANGED <<server, sessions, valid, token, failures>>

\* The screens in names are left: nothing of their calls is displayed any more.
LeftOps(P, names) == {IF p.at \in names THEN [p EXCEPT !.at = "left"] ELSE p : p \in P}

\* Nothing is left of the program that made the calls.
DeadOps == {[p EXCEPT !.at = "dead"] : p \in {q \in ops : q.state = "sent"}}

\* The answer to p, if it is one that changes what the client knows.
Answered(p, arg) ==
    ops' = (ops \ {p}) \cup (IF p.at = "dead" \/ p.no = 0 THEN {} ELSE {[p EXCEPT !.state = "done", !.arg = arg]})
Failed(p) == IF p.kind = "signout" THEN Answered(p, 0) ELSE ops' = ops \ {p}

\* process_user_kyc and update_user: an identity comes with the first preferences and makes
\* its user verified; a user who is not cannot change preferences alone.
Put(u, p) ==
    IF p.kind = "verify" THEN server' = [server EXCEPT ![u] = [verified |-> TRUE, prefs |-> 0]]
    ELSE /\ server[u].verified
         /\ server' = [server EXCEPT ![u].prefs = p.arg]

\* The backend does what a call asks.
Served(p) ==
    \/ /\ p.kind = "signin" /\ Len(sessions) < MaxSessions
       /\ sessions' = Append(sessions, p.user) /\ valid' = valid \cup {Len(sessions) + 1}
       /\ Answered(p, Len(sessions) + 1) \/ Failed(p)
       /\ UNCHANGED server
    \/ /\ p.kind \in {"save", "verify"} /\ p.as \in valid
       /\ Put(sessions[p.as], p)
       /\ Answered(p, p.arg) \/ Failed(p)
       /\ UNCHANGED <<sessions, valid>>
    \/ /\ p.kind = "signout" /\ p.as \in valid
       /\ valid' = valid \ {p.as}
       /\ Failed(p)
       /\ UNCHANGED <<server, sessions>>

\* A call may also never arrive, or be refused.
ServeOp ==
    /\ \E p \in ops : p.state = "sent" /\ (Served(p) \/ (Failed(p) /\ UNCHANGED <<server, sessions, valid>>))
    /\ UNCHANGED <<token, made, failures>>

\* A session that was not used for long ends.
Expire ==
    /\ failures < MaxFailures /\ failures' = failures + 1
    /\ \E n \in valid : valid' = valid \ {n}
    /\ UNCHANGED <<server, sessions, token, ops, made>>

(* Reads: the polls that keep a client's copy of its user up to date.      *)

NoRead == [state |-> "none", as |-> NoToken, copy |-> Unknown]
DueRead == [NoRead EXCEPT !.state = "due"]
AskedRead == [state |-> "sent", as |-> token, copy |-> Unknown]

\* The answers the backend may give to read r: one that fails is counted.
Answers(r) ==
    IF r.as \in valid THEN {[r EXCEPT !.state = "ok", !.copy = Copy(sessions[r.as], FALSE)]}
    ELSE {[r EXCEPT !.state = "refused"]}
LostRead(r) == [r EXCEPT !.state = "error"]

Fresh(r) == [r.copy EXCEPT !.late = r.as # token]

(* The identity form, which both clients lead through in steps.  The last  *)
(* one submits what the ones before have put into the form.  Nothing else  *)
(* sees those, so that filling in and submitting the form are one step.    *)

FirstStep == [step |-> 1, info |-> {}]

\* Mutant: a step may be left by a button that does not submit its fields.
NextStepM(w, steps) == [w EXCEPT !.step = @ + 1]

\* steps tells what the client's steps put into the form.
NextStep(w, steps) == [step |-> w.step + 1, info |-> w.info \cup steps[w.step]]

PrevStep(w) == [w EXCEPT !.step = @ - 1]
DummyIdentity(w) == [w EXCEPT !.info = Info]

\* A made-up identity is offered in some of the steps.
Moves(w, steps, offered) ==
    (IF w.step \in DOMAIN steps THEN {NextStep(w, steps)} ELSE {})
        \cup (IF w.step > 1 THEN {PrevStep(w)} ELSE {})
        \cup (IF w.step \in offered THEN {DummyIdentity(w)} ELSE {})

\* What can be submitted after at most MaxMoves moves.
MaxMoves == 9
Submissions(steps, offered) ==
    LET Forms[n \in 0..MaxMoves] ==
            IF n = 0 THEN {FirstStep}
            ELSE Forms[n - 1] \cup UNION {Moves(w, steps, offered) : w \in Forms[n - 1]}
    IN  {w.info : w \in {v \in Forms[MaxMoves] : v.step = Len(steps) + 1}}
=============================================================================
