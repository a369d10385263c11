----------------------------- MODULE ClientCalls -----------------------------
(***************************************************************************)
(* The calls by which a client (the web application or the mobile app) has *)
(* the backend do something for its user.  An answer that says no, or that *)
(* never comes, does not tell whether the order was carried out; nothing   *)
(* in a client repeats a call.  A screen that was left does not hear the   *)
(* answers to its calls.                                                   *)
(***************************************************************************)
EXTENDS Naturals

VARIABLES
    posts,    \* calls under way, or answered to a screen that has not heard yet
    presses,  \* [order -> how often the user pressed the button for it] (history)
    executed  \* the presses that the backend carried out (history)

calls == <<posts, presses, executed>>

Press(o, n) == [order |-> o, no |-> n]
Posts(O) == [order : O, no : Nat \ {0}, state : {"sent", "ok", "error"}, heard : BOOLEAN]

CallsInit(O) ==
    /\ posts = {} /\ executed = {}
    /\ presses = [o \in O |-> 0]

\* The user presses the button that sends o.
Call(o) ==
    /\ presses' = [presses EXCEPT ![o] = @ + 1]
    /\ posts' = posts \cup {[order |-> o, no |-> presses[o] + 1, state |-> "sent", heard |-> TRUE]}
    /\ UNCHANGED executed

Answer(p, state) ==
    posts' = (posts \ {p}) \cup (IF p.heard THEN {[p EXCEPT !.state = state]} ELSE {})

\* The backend carries the order out; the answer may be lost on its way.
Serve(p) ==
    /\ p \in posts /\ p.state = "sent"
    /\ executed' = executed \cup {Press(p.order, p.no)}
    /\ \E state \in {"ok", "error"} : Answer(p, state)
    /\ UNCHANGED presses

\* The backend refuses, or the request is lost.
Refuse(p) ==
    /\ p \in posts /\ p.state = "sent"
    /\ Answer(p, "error")
    /\ UNCHANGED <<presses, executed>>

Backend == \E p \in posts : Serve(p) \/ Refuse(p)

\* A screen hears the answer to its call.
Hear(p, state) ==
    /\ p \in posts /\ p.heard /\ p.state = state
    /\ posts' = posts \ {p}
    /\ UNCHANGED <<presses, executed>>

\* Nobody hears the answers to the calls in P any more.
Unhear(P) ==
    /\ posts' = (posts \ P) \cup {[p EXCEPT !.heard = FALSE] : p \in {q \in P : q.state = "sent"}}
    /\ UNCHANGED <<presses, executed>>

\* The screen is left: nobody hears the answers that are still to come.
Leave == Unhear(posts)

-----------------------------------------------------------------------------
\* A call that is under way was pressed, and is not carried out before the backend has it.
CallsMade(O) ==
    /\ posts \subseteq Posts(O) /\ presses \in [O -> Nat]
    /\ \A p \in posts : p.no \in 1..presses[p.order]
    /\ \A p \in posts : p.state = "sent" => Press(p.order, p.no) \notin executed
    /\ \A p, q \in posts : p.order = q.order /\ p.no = q.no => p = q
    /\ executed \subseteq [order : O, no : Nat]
    /\ \A x \in executed : x.no \in 1..presses[x.order]

\* "ok" is the answer only to one that was carried out.
CallsInv(O) ==
    CallsMade(O) /\ \A p \in posts : p.state = "ok" => Press(p.order, p.no) \in executed
=============================================================================
