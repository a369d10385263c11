------------------------------ MODULE Listings -------------------------------
(***************************************************************************)
(* The lists of transactions that both clients display, and read again     *)
(* every three seconds: those of Home and of an account, and the one of    *)
(* the Transactions page, which the user filters and sorts.  A choice of   *)
(* filters begins another loop of reads.  In the web application the loop  *)
(* before it stops at its next turn.  The mobile app cancels the timer     *)
(* that was set last; a loop that waits for an answer then, or that has    *)
(* another timer, goes on.  A read that fails ends its loop.               *)
(***************************************************************************)
EXTENDS Naturals

CONSTANTS
    Filters,     \* currency, direction and sorting that a user can choose
    MaxLoops,    \* bound: loops that are begun
    MaxEntries,  \* bound: changes of the user's transactions
    MaxLost      \* bound: reads that fail

ASSUME ListingsAssumption == MaxLoops \in Nat /\ MaxEntries \in Nat /\ MaxLost \in Nat

VARIABLES
    entries,  \* backend: how often the user's transactions have changed
    place,    \* "none", a "fixed" list (Home, Account) or a "filtered" one (Transactions)
    chosen,   \* the filters of the list on display
    listed,   \* the list on display: for which filters, and as of when
    loops,    \* the loops of reads for it
    timer,    \* mobile: the loop that set fetchTransactionsTimeout last
    begun,    \* loops begun so far
    lost      \* reads that failed so far

lists == <<entries, place, chosen, listed, loops, timer, begun, lost>>

NoTimer == 0
List(f, n) == [filters |-> f, entries |-> n]
Loop(n, f) == [no |-> n, filters |-> f, on |-> TRUE, state |-> "sent", seen |-> 0]

ListsInit ==
    /\ entries = 0 /\ begun = 0 /\ lost = 0 /\ timer = NoTimer
    /\ place = "none" /\ loops = {}
    /\ chosen = (CHOOSE f \in Filters : TRUE) /\ listed = List(chosen, 0)

\* A loop becomes another, or ends.
Becomes(p, Q) == loops' = (loops \ {p}) \cup Q

(* Pages.                                                                  *)

\* A page opens with an empty list and reads at once.  A list that is gone is not seen
\* any more, whatever its loops do.
OpenList(at, f) ==
    /\ begun < MaxLoops /\ begun' = begun + 1
    /\ place' = at /\ chosen' = f /\ listed' = List(f, 0)
    /\ loops' = {Loop(begun + 1, f)} /\ timer' = NoTimer
    /\ UNCHANGED <<entries, lost>>

\* The user chooses other filters: rest are the loops that are left of those before.
Choose(f, rest) ==
    /\ place = "filtered" /\ f # chosen
    /\ begun < MaxLoops /\ begun' = begun + 1
    /\ chosen' = f /\ loops' = rest \cup {Loop(begun + 1, f)}
    /\ UNCHANGED <<entries, place, listed, timer, lost>>

\* Mutant: the loop before goes on.
WebChooseM(f) == Choose(f, loops)

WebChoose(f) == Choose(f, {[p EXCEPT !.on = FALSE] : p \in loops})

MobileChoose(f) == Choose(f, {p \in loops : ~(p.no = timer /\ p.state = "due")})

(* Loops.                                                                  *)

\* Three seconds are over.
WebTurn(p) ==
    /\ p.state = "due"
    /\ Becomes(p, IF p.on THEN {[p EXCEPT !.state = "sent"]} ELSE {})
    /\ UNCHANGED <<entries, place, chosen, listed, timer, begun, lost>>

MobileTurn(p) ==
    /\ p.state = "due"
    /\ Becomes(p, {[p EXCEPT !.state = "sent"]})
    /\ UNCHANGED <<entries, place, chosen, listed, timer, begun, lost>>

\* getTransactions
ServeList(p) ==
    /\ p.state = "sent"
    /\ \/ Becomes(p, {[p EXCEPT !.state = "ok", !.seen = entries]}) /\ UNCHANGED lost
       \/ lost < MaxLost /\ lost' = lost + 1 /\ Becomes(p, {[p EXCEPT !.state = "error"]})
    /\ UNCHANGED <<entries, place, chosen, listed, timer, begun>>

\* An answer is displayed whatever was chosen meanwhile.
ListRead(p) ==
    /\ p.state = "ok"
    /\ listed' = List(p.filters, p.seen)
    /\ Becomes(p, {[p EXCEPT !.state = "due"]})
    /\ UNCHANGED <<entries, place, chosen, begun, lost>>

ListFailed(p) ==
    /\ p.state = "error" /\ Becomes(p, {})
    /\ UNCHANGED <<entries, place, chosen, listed, timer, begun, lost>>

WebList(p) == ServeList(p) \/ WebTurn(p) \/ (ListRead(p) /\ UNCHANGED timer) \/ ListFailed(p)
MobileList(p) == ServeList(p) \/ MobileTurn(p) \/ (ListRead(p) /\ timer' = p.no) \/ ListFailed(p)

\* The user's transactions change.
Transacted ==
    /\ entries < MaxEntries /\ entries' = entries + 1
    /\ UNCHANGED <<place, chosen, listed, loops, timer, begun, lost>>

WebLists ==
    \/ \E at \in {"fixed", "filtered"}, f \in Filters : OpenList(at, f)
    \/ \E f \in Filters : WebChoose(f)
    \/ \E p \in loops : WebList(p)

MobileLists ==
    \/ \E at \in {"fixed", "filtered"}, f \in Filters : OpenList(at, f)
    \/ \E f \in Filters : MobileChoose(f)
    \/ \E p \in loops : MobileList(p)

\* The list on display is the one that was chosen, as the backend has it.
ListFits == listed = List(chosen, entries)
\* A failure ended the loop that the last choice began.
Unread == place = "none" \/ \A p \in loops : p.no # begun
=============================================================================
