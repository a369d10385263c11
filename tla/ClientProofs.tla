---------------------------- MODULE ClientProofs -----------------------------
(***************************************************************************)
(* What the steps of ClientCalls keep and do, for every set O of orders,   *)
(* and that amounts are whole numbers: the facts that the proofs about the *)
(* clients' dialogs rest on.  Each step is looked at twice: whether "ok"   *)
(* answers only what was carried out, or, with less, whether it need not.  *)
(***************************************************************************)
EXTENDS ClientCalls, Amounts, TLAPS

\* Without a call nothing is under way.
LEMMA NoCalls == ASSUME NEW O, CallsInit(O) PROVE CallsInv(O)
  BY DEF CallsInit, CallsInv, CallsMade, Posts, Press

\* A press adds one call, which has the highest number of its order.
LEMMA CallMade ==
  ASSUME NEW O, NEW o \in O, CallsMade(O), Call(o)
  PROVE  /\ CallsMade(O)'
         /\ presses' = [presses EXCEPT ![o] = @ + 1] /\ executed' = executed
         /\ \A p \in posts' : p \in posts \/ (p.order = o /\ p.no = presses'[o] /\ p.heard /\ p.state = "sent")
  <1> DEFINE new == [order |-> o, no |-> presses[o] + 1, state |-> "sent", heard |-> TRUE]
  <1>1. /\ posts' = posts \cup {new} /\ executed' = executed
        /\ presses' = [presses EXCEPT ![o] = @ + 1] /\ presses \in [O -> Nat]
    BY DEF Call, CallsMade
  <1>2. new \in Posts(O)
    BY <1>1 DEF Posts
  <1>3. presses' \in [O -> Nat] /\ \A a \in O : presses'[a] \in {presses[a], presses[a] + 1}
    BY <1>1
  <1>4. presses'[o] = presses[o] + 1 /\ \A a \in O \ {o} : presses'[a] = presses[a]
    BY <1>1
  <1>5. Press(o, presses[o] + 1) \notin executed
    BY <1>1 DEF CallsMade, Press
  <1>6. \A p \in posts : p.order \in O /\ p.no \in Nat
    BY DEF CallsMade, Posts
  <1>7. \A p \in posts : p.order = o => p.no # presses[o] + 1
    BY <1>1, <1>6 DEF CallsMade
  <1>8. CallsMade(O)'
    <2>1. posts' \subseteq Posts(O) /\ presses' \in [O -> Nat]
      BY <1>1, <1>2, <1>3 DEF CallsMade
    <2>2. \A p \in posts' : p.no \in 1..presses'[p.order]
      BY <1>1, <1>3, <1>4, <1>6 DEF CallsMade
    <2>3. \A p \in posts' : p.state = "sent" => Press(p.order, p.no) \notin executed'
      BY <1>1, <1>5 DEF CallsMade
    <2>4. \A p, q \in posts' : p.order = q.order /\ p.no = q.no => p = q
      <3>1. \A p, q \in posts : p.order = q.order /\ p.no = q.no => p = q
        BY DEF CallsMade
      <3>2. new.order = o /\ new.no = presses[o] + 1
        OBVIOUS
      <3>3. posts' = posts \cup {new}
        BY <1>1
      <3> HIDE DEF new
      <3>4. \A q \in posts : ~(q.order = new.order /\ q.no = new.no)
        BY <1>7, <3>2
      <3> QED BY <3>1, <3>3, <3>4
    <2>5. executed' \subseteq [order : O, no : Nat] /\ \A x \in executed' : x.no \in 1..presses'[x.order]
      BY <1>1, <1>3, <1>4 DEF CallsMade
    <2> QED BY <2>1, <2>2, <2>3, <2>4, <2>5 DEF CallsMade
  <1> QED BY <1>1, <1>4, <1>8


\* A press keeps what is known of the calls.
LEMMA CallKeeps ==
  ASSUME NEW O, NEW o \in O, CallsInv(O), Call(o)
  PROVE  /\ CallsInv(O)'
         /\ presses' = [presses EXCEPT ![o] = @ + 1] /\ executed' = executed
         /\ \A p \in posts' : p \in posts \/ (p.order = o /\ p.no = presses'[o] /\ p.heard)
  <1>1. CallsMade(O)
    BY DEF CallsInv
  <1>2. /\ CallsMade(O)' /\ executed' = executed
        /\ \A p \in posts' : p.state = "ok" => p \in posts
    BY <1>1, CallMade
  <1> QED BY <1>1, <1>2, CallMade DEF CallsInv

\* An answer takes the place of the call, unless nobody hears it.
LEMMA AnswerKeeps ==
  ASSUME NEW O, NEW p \in posts, NEW state \in {"ok", "error"}, posts \subseteq Posts(O),
         Answer(p, state)
  PROVE  /\ posts' \subseteq Posts(O)
         /\ \A q \in posts' :
               \/ q \in posts \ {p}
               \/ p.heard /\ q = [p EXCEPT !.state = state] /\ q \in Posts(O)
                  /\ q.order = p.order /\ q.no = p.no /\ q.heard = p.heard /\ q.state = state
  BY DEF Answer, Posts

\* An answer changes the state of one call, and nothing else about it.
LEMMA AnswerMade ==
  ASSUME NEW O, CallsMade(O), NEW p \in posts, NEW state \in {"ok", "error"}, Answer(p, state),
         UNCHANGED <<presses, executed>>
  PROVE  /\ CallsMade(O)'
         /\ \A q \in posts' : \E r \in posts :
               /\ q.order = r.order /\ q.no = r.no /\ q.heard = r.heard
               /\ q.state = "ok" => r.state = "ok" \/ (r = p /\ state = "ok")
  <1>1. /\ posts' \subseteq Posts(O)
        /\ \A q \in posts' :
               \/ q \in posts \ {p}
               \/ p.heard /\ q = [p EXCEPT !.state = state] /\ q \in Posts(O)
                  /\ q.order = p.order /\ q.no = p.no /\ q.heard = p.heard /\ q.state = state
    BY AnswerKeeps DEF CallsMade
  <1>2. CallsMade(O)'
    <2>1. posts' \subseteq Posts(O) /\ presses' \in [O -> Nat]
      BY <1>1 DEF CallsMade
    <2>2. \A q \in posts' : q.no \in 1..presses'[q.order]
      BY <1>1 DEF CallsMade
    <2>3. \A q \in posts' : q.state = "sent" => Press(q.order, q.no) \notin executed'
      BY <1>1 DEF CallsMade
    <2>4. \A q, r \in posts' : q.order = r.order /\ q.no = r.no => q = r
      BY <1>1 DEF CallsMade
    <2>5. executed' \subseteq [order : O, no : Nat] /\ \A x \in executed' : x.no \in 1..presses'[x.order]
      BY DEF CallsMade
    <2> QED BY <2>1, <2>2, <2>3, <2>4, <2>5 DEF CallsMade
  <1> QED BY <1>1, <1>2

\* The backend carries out what was pressed and not carried out yet.
LEMMA ServeMade ==
  ASSUME NEW O, CallsMade(O), NEW p \in posts, Serve(p)
  PROVE  /\ CallsMade(O)' /\ presses' = presses
         /\ p.order \in O /\ p.no \in 1..presses[p.order] /\ Press(p.order, p.no) \notin executed
         /\ executed' = executed \cup {Press(p.order, p.no)}
         /\ \A q \in posts' : \E r \in posts :
               /\ q.order = r.order /\ q.no = r.no /\ q.heard = r.heard
               /\ q.state = "ok" => r.state = "ok" \/ r = p
  <1>1. PICK state \in {"ok", "error"} : Answer(p, state)
    BY DEF Serve
  <1>2. /\ p.state = "sent" /\ presses' = presses
        /\ executed' = executed \cup {Press(p.order, p.no)}
    BY DEF Serve
  <1>3. p \in Posts(O) /\ posts \subseteq Posts(O) /\ p.no \in 1..presses[p.order]
    BY DEF CallsMade
  <1>4. /\ posts' \subseteq Posts(O)
        /\ \A q \in posts' :
               \/ q \in posts \ {p}
               \/ p.heard /\ q = [p EXCEPT !.state = state] /\ q \in Posts(O)
                  /\ q.order = p.order /\ q.no = p.no /\ q.heard = p.heard /\ q.state = state
    BY <1>1, <1>3, AnswerKeeps
  <1>5. p.order \in O /\ p.no \in Nat /\ Press(p.order, p.no) \in [order : O, no : Nat]
    BY <1>3 DEF Posts, Press
  <1>6. CallsMade(O)'
    <2>1. posts' \subseteq Posts(O) /\ presses' \in [O -> Nat]
      BY <1>2, <1>4 DEF CallsMade
    <2>2. \A q \in posts' : q.no \in 1..presses'[q.order]
      BY <1>2, <1>3, <1>4 DEF CallsMade
    <2>3. ASSUME NEW q \in posts', q.state = "sent" PROVE Press(q.order, q.no) \notin executed'
      BY <2>3, <1>2, <1>4 DEF CallsMade, Press
    <2>4. \A q, r \in posts' : q.order = r.order /\ q.no = r.no => q = r
      BY <1>4 DEF CallsMade
    <2>5. executed' \subseteq [order : O, no : Nat] /\ \A x \in executed' : x.no \in 1..presses'[x.order]
      BY <1>2, <1>3, <1>5 DEF CallsMade, Press
    <2> QED BY <2>1, <2>2, <2>3, <2>4, <2>5 DEF CallsMade
  <1>7. Press(p.order, p.no) \notin executed
    BY <1>2 DEF CallsMade
  <1>8. \A q \in posts' : \E r \in posts :
           /\ q.order = r.order /\ q.no = r.no /\ q.heard = r.heard
           /\ q.state = "ok" => r.state = "ok" \/ r = p
    BY <1>4
  <1> QED BY <1>2, <1>3, <1>5, <1>6, <1>7, <1>8


\* What the backend carries out keeps what is known of the calls.
LEMMA ServeKeeps ==
  ASSUME NEW O, CallsInv(O), NEW p \in posts, Serve(p)
  PROVE  /\ CallsInv(O)' /\ presses' = presses
         /\ p.order \in O /\ p.no \in 1..presses[p.order] /\ Press(p.order, p.no) \notin executed
         /\ executed' = executed \cup {Press(p.order, p.no)}
         /\ \A q \in posts' : \E r \in posts :
               q.order = r.order /\ q.no = r.no /\ q.heard = r.heard
  <1>1. CallsMade(O)
    BY DEF CallsInv
  <1>2. /\ CallsMade(O)' /\ executed' = executed \cup {Press(p.order, p.no)}
        /\ \A q \in posts' : \E r \in posts :
               /\ q.order = r.order /\ q.no = r.no /\ q.heard = r.heard
               /\ q.state = "ok" => r.state = "ok" \/ r = p
    BY <1>1, ServeMade
  <1>3. \A q \in posts' : q.state = "ok" => Press(q.order, q.no) \in executed'
    BY <1>2 DEF CallsInv
  <1> QED BY <1>1, <1>2, <1>3, ServeMade DEF CallsInv

\* So does a refusal.
LEMMA RefuseMade ==
  ASSUME NEW O, CallsMade(O), NEW p \in posts, Refuse(p)
  PROVE  /\ CallsMade(O)' /\ presses' = presses /\ executed' = executed
         /\ \A q \in posts' : \E r \in posts :
               /\ q.order = r.order /\ q.no = r.no /\ q.heard = r.heard
               /\ q.state = "ok" => r.state = "ok"
  <1>1. Answer(p, "error") /\ UNCHANGED <<presses, executed>>
    BY DEF Refuse
  <1> QED BY <1>1, AnswerMade

\* So does what it refuses.
LEMMA RefuseKeeps ==
  ASSUME NEW O, CallsInv(O), NEW p \in posts, Refuse(p)
  PROVE  /\ CallsInv(O)' /\ presses' = presses /\ executed' = executed
         /\ \A q \in posts' : \E r \in posts :
               q.order = r.order /\ q.no = r.no /\ q.heard = r.heard
  <1>1. CallsMade(O)
    BY DEF CallsInv
  <1>2. /\ CallsMade(O)' /\ presses' = presses /\ executed' = executed
        /\ \A q \in posts' : \E r \in posts :
               /\ q.order = r.order /\ q.no = r.no /\ q.heard = r.heard
               /\ q.state = "ok" => r.state = "ok"
    BY <1>1, RefuseMade
  <1>3. \A q \in posts' : q.state = "ok" => Press(q.order, q.no) \in executed'
    BY <1>2 DEF CallsInv
  <1> QED BY <1>2, <1>3 DEF CallsInv

\* An answer that was heard is gone.
LEMMA HearMade ==
  ASSUME NEW O, CallsMade(O), NEW p, NEW state, Hear(p, state)
  PROVE  /\ CallsMade(O)' /\ presses' = presses /\ executed' = executed
         /\ p \in posts /\ p.heard /\ p.state = state /\ posts' = posts \ {p}
  BY DEF Hear, CallsMade

\* So does an answer that is heard.
LEMMA HearKeeps ==
  ASSUME NEW O, CallsInv(O), NEW p, NEW state, Hear(p, state)
  PROVE  /\ CallsInv(O)' /\ presses' = presses /\ executed' = executed
         /\ p \in posts /\ p.heard /\ p.state = state /\ posts' = posts \ {p}
  BY HearMade DEF CallsInv

\* Nobody hears the answers to calls whose screen was left; the other calls stay.
LEMMA UnhearMade ==
  ASSUME NEW O, CallsMade(O), NEW P, P \subseteq posts, Unhear(P)
  PROVE  /\ CallsMade(O)' /\ presses' = presses /\ executed' = executed
         /\ \A q \in posts' :
               \/ q \in posts \ P
               \/ ~q.heard /\ q.state = "sent" /\ \E r \in P : q.order = r.order /\ q.no = r.no
  <1>1. /\ posts' = (posts \ P) \cup {[p EXCEPT !.heard = FALSE] : p \in {q \in P : q.state = "sent"}}
        /\ presses' = presses /\ executed' = executed
    BY DEF Unhear
  <1>2. \A r \in P : [r EXCEPT !.heard = FALSE] \in Posts(O)
            /\ [r EXCEPT !.heard = FALSE].order = r.order /\ [r EXCEPT !.heard = FALSE].no = r.no
            /\ [r EXCEPT !.heard = FALSE].heard = FALSE /\ [r EXCEPT !.heard = FALSE].state = r.state
    BY DEF CallsMade, Posts
  <1>3. \A q \in posts' :
            \/ q \in posts \ P
            \/ \E r \in P : /\ q = [r EXCEPT !.heard = FALSE] /\ q \in Posts(O)
                             /\ q.order = r.order /\ q.no = r.no /\ q.heard = FALSE
                             /\ q.state = r.state /\ r.state = "sent"
    <2> TAKE q \in posts'
    <2>1. CASE q \in posts \ P
      BY <2>1
    <2>2. CASE q \notin posts \ P
      <3>1. PICK r \in P : r.state = "sent" /\ q = [r EXCEPT !.heard = FALSE]
        BY <1>1, <2>2
      <3> QED BY <1>2, <3>1
    <2> QED BY <2>1, <2>2
  <1>4. CallsMade(O)'
    <2>1. posts' \subseteq Posts(O) /\ presses' \in [O -> Nat]
      BY <1>1, <1>3 DEF CallsMade
    <2>2. \A q \in posts' : q.no \in 1..presses'[q.order]
      BY <1>1, <1>3 DEF CallsMade
    <2>3. \A q \in posts' : q.state = "sent" => Press(q.order, q.no) \notin executed'
      BY <1>1, <1>3 DEF CallsMade
    <2>4. \A q, r \in posts' : q.order = r.order /\ q.no = r.no => q = r
      <3> SUFFICES ASSUME NEW q \in posts', NEW r \in posts', q.order = r.order, q.no = r.no
                   PROVE  q = r
        OBVIOUS
      <3>1. \A a, b \in posts : a.order = b.order /\ a.no = b.no => a = b
        BY DEF CallsMade
      <3>2. CASE q \in posts \ P /\ r \in posts \ P
        BY <3>1, <3>2
      <3>3. CASE q \in posts \ P /\ r \notin posts \ P
        <4>1. PICK b \in P : r.order = b.order /\ r.no = b.no
          BY <1>3, <3>3
        <4>2. q = b
          BY <3>1, <3>3, <4>1
        <4> QED BY <3>3, <4>2
      <3>4. CASE q \notin posts \ P /\ r \in posts \ P
        <4>1. PICK a \in P : q.order = a.order /\ q.no = a.no
          BY <1>3, <3>4
        <4>2. r = a
          BY <3>1, <3>4, <4>1
        <4> QED BY <3>4, <4>2
      <3>5. CASE q \notin posts \ P /\ r \notin posts \ P
        <4>1. PICK a \in P : q = [a EXCEPT !.heard = FALSE] /\ q.order = a.order /\ q.no = a.no
          BY <1>3, <3>5
        <4>2. PICK b \in P : r = [b EXCEPT !.heard = FALSE] /\ r.order = b.order /\ r.no = b.no
          BY <1>3, <3>5
        <4>3. a = b
          BY <3>1, <4>1, <4>2
        <4> QED BY <4>1, <4>2, <4>3
      <3> QED BY <3>2, <3>3, <3>4, <3>5
    <2>5. executed' \subseteq [order : O, no : Nat] /\ \A x \in executed' : x.no \in 1..presses'[x.order]
      BY <1>1 DEF CallsMade
    <2> QED BY <2>1, <2>2, <2>3, <2>4, <2>5 DEF CallsMade
  <1>5. \A q \in posts' :
            \/ q \in posts \ P
            \/ ~q.heard /\ q.state = "sent" /\ \E r \in P : q.order = r.order /\ q.no = r.no
    BY <1>3
  <1> QED BY <1>1, <1>4, <1>5


\* So does a screen that is left.
LEMMA UnhearKeeps ==
  ASSUME NEW O, CallsInv(O), NEW P, P \subseteq posts, Unhear(P)
  PROVE  /\ CallsInv(O)' /\ presses' = presses /\ executed' = executed
         /\ \A q \in posts' :
               \/ q \in posts \ P
               \/ ~q.heard /\ \E r \in P : q.order = r.order /\ q.no = r.no
  <1>1. CallsMade(O)
    BY DEF CallsInv
  <1>2. /\ CallsMade(O)' /\ presses' = presses /\ executed' = executed
        /\ \A q \in posts' :
               \/ q \in posts \ P
               \/ ~q.heard /\ q.state = "sent" /\ \E r \in P : q.order = r.order /\ q.no = r.no
    BY <1>1, UnhearMade
  <1> QED BY <1>2 DEF CallsInv

-----------------------------------------------------------------------------
(* Amounts.                                                                *)

\* Rounding gives whole numbers.
LEMMA FromFloatType == ASSUME NEW n \in Nat PROVE FromFloat(n) \in Nat
  <1>1. 2 * n + Parts \in Nat /\ 2 * Parts \in Nat \ {0}
    BY AmountsAssumption
  <1>2. \A a \in Nat, b \in Nat \ {0} : a \div b \in Nat
    OBVIOUS
  <1> QED BY <1>1, <1>2 DEF FromFloat

\* An amount of a field is a number.
LEMMA ToFloatType == ASSUME NEW n \in Nat PROVE ToFloat(n) \in Nat
  BY AmountsAssumption DEF ToFloat

\* So is one computed from a price.
LEMMA PriceType == ASSUME NEW n \in Nat PROVE (FromFloat(n) * Coin * Parts) \div Rate \in Nat
  <1>1. FromFloat(n) * Coin * Parts \in Nat
    BY AmountsAssumption, FromFloatType
  <1>2. \A a \in Nat, b \in Nat \ {0} : a \div b \in Nat
    OBVIOUS
  <1> QED BY AmountsAssumption, <1>1, <1>2

\* And one rounded to the currency's digits.
LEMMA NormalizeType == ASSUME NEW n \in Nat PROVE Normalize(n) \in Nat
  BY FromFloatType, ToFloatType DEF Normalize
=============================================================================
