------------------------------ MODULE Decisions ------------------------------
(***************************************************************************)
(* Those who decide with a few clicks: a user of the web application about *)
(* what others asked for, funds pull pre-approvals or the payment of a     *)
(* merchant's link, an administrator about others, and a user of either    *)
(* client who forgot the password.                                         *)
(***************************************************************************)
EXTENDS ApprovalDialogs, PaymentLink, AdminPages, PasswordReset

VARIABLE about  \* "approvals", "payment", "members" or "password"

approvalVars == <<approvalBackend, pageVars, dialogVars>>
linkVars == <<linkPage, linkBackend>>
adminVars == <<members, desk, tables, blocking, forms>>
resetVars == <<app, store, screens>>
decisions == <<about, approvalVars, linkVars, adminVars, resetVars, calls>>

Orders == ApprovalOrders \cup LinkOrders \cup AdminOrders \cup ResetOrders

\* The parts that are not decided about have one initial state.
DecisionsInit ==
    /\ about \in {"approvals", "payment", "members", "password"}
    /\ ApprovalsInit /\ LinkInit /\ AdminInit /\ ResetInit
    /\ about = "approvals" \/ status = [a \in Approvals |-> "pending"]
    /\ about = "payment" \/ url = [count |-> 3, valid |-> FALSE, demo |-> FALSE, action |-> "charge"]
    /\ about = "members" \/ roles = [u \in Members |-> "none"]
    /\ about = "password" \/ app = "web"
    /\ CallsInit(Orders)

OfApprovals(A) == about = "approvals" /\ A /\ UNCHANGED <<about, linkVars, adminVars, resetVars>>
OfLink(A) == about = "payment" /\ A /\ UNCHANGED <<about, approvalVars, adminVars, resetVars>>
OfMembers(A) == about = "members" /\ A /\ UNCHANGED <<about, approvalVars, linkVars, resetVars>>
OfPassword(A) == about = "password" /\ A /\ UNCHANGED <<about, approvalVars, linkVars, adminVars, app>>

DecisionsNext ==
    \/ OfApprovals(ApprovalClient) \/ OfApprovals(ApprovalBackend)
    \/ OfLink(LinkClient) \/ OfLink(LinkBackend)
    \/ OfMembers(AdminClient) \/ OfMembers(AdminBackend)
    \/ OfPassword(ResetClient) \/ OfPassword(ResetBackend)

DecisionsSpec == DecisionsInit /\ [][DecisionsNext]_decisions

-----------------------------------------------------------------------------
(* Properties.                                                             *)

OnDisplay ==
    {Order(d) : d \in {e \in Dialogs : modal[e].open /\ modal[e].status # "success"}}
        \cup {Decide(d) : d \in {e \in {"approve", "reject"} : Offers(e)}}
        \cup {Block(u) : u \in {blocking} \ {NoMember}}
        \cup {Create(u) : u \in IF form.status = "inactive" THEN {} ELSE {form.username} \ {NoMember}}
        \cup {NewPassword(t) : t \in IF resets = <<>> THEN {} ELSE {Front.token}}

\* Nothing is approved, rejected, revoked, blocked, created or reset but what a dialog
\* asked about when the user pressed its button, and once for every time that the user
\* pressed: Consent.
C == INSTANCE Consent WITH Orders <- Orders, shown <- OnDisplay
ImplementsConsent == C!ConsentSpec

\* Success is displayed only for a decision that the backend carried out, unless a dialog
\* was closed too early: then the answer counts for what it displays next.  What the
\* wallet calls a rejected payment, the merchant knows to be aborted; what the dialog of a
\* payment link says is left out, since it calls every rejection an approval, one that the
\* merchant did not take, too.  A form for a new administrator that closes by itself has
\* created the one it showed.
SuccessIsReal ==
    /\ ~left => \A d \in Dialogs :
         modal[d].status = "success" => \E x \in executed : x.order = Order(d)
    /\ row = "rejected" => merchant = "aborted"
    /\ hired = NoMember \/ slipped \/ (roles[hired] = "admin" /\ \E x \in executed : x.order = Create(hired))
    /\ \A i \in DOMAIN resets :
         resets[i].status = "success" => \E x \in executed : x.order = NewPassword(resets[i].token)

\* A pre-approval is decided once, however often the buttons of stale dialogs are
\* pressed: it is approved or rejected, not both, and nothing is done twice, unless two
\* changes of it overlapped and the later one did not see what the other one wrote.  A
\* user name is given once, and a token sets a password once unless two submissions with
\* it are checked before either is saved.
Once(o) ==
    \/ about = "approvals" /\ o.about \notin raced
    \/ o.decision = "create"
    \/ about = "password" /\ o.about \notin overlaps

DecidedOnce ==
    \A x, y \in executed :
        /\ Once(x.order) /\ x.order = y.order => x = y
        /\ about = "approvals" /\ x.order.about \notin raced =>
             (x.order.about = y.order.about /\ x.order.decision = "valid" => y.order.decision # "rejected")

-----------------------------------------------------------------------------
(* The inductive invariant behind the safety properties.                   *)

\* What can be ordered in the part that is looked at.
Mine ==
    CASE about = "approvals" -> ApprovalOrders
      [] about = "payment" -> LinkOrders
      [] about = "members" -> AdminOrders
      [] OTHER -> ResetOrders

\* The backend carried out an order.
Real(o) == \E x \in executed : x.order = o

\* "ok" is the answer to a creation, too, whose name another one took meanwhile, and to
\* what a payment link asks for in vain.
CallsReal ==
    /\ CallsMade(Orders)
    /\ \A p \in posts : p.order \in Mine /\ (p.state = "ok" => about = "payment" \/ Real(p.order))
    /\ \A x \in executed : x.order \in Mine

\* The answer that a dialog waits for is about what it displays, unless one was closed too
\* early; what was decided is final, and may be decided from what was read, unless a
\* change did not see another one.
ApprovalsInv ==
    /\ status \in [Approvals -> Statuses] /\ approvals \in [Approvals -> Statuses \cup {"none"}]
    /\ inModal \in [Sections -> Approvals \cup {NoApproval}] /\ left \in BOOLEAN
    /\ modal \in [Dialogs -> [open : BOOLEAN, status : {"edit", "success", "fail"}, error : BOOLEAN]]
    /\ \A d \in Dialogs : modal[d].open => inModal[SectionOf[d]] \in Approvals
    /\ ~left =>
         /\ \A p \in posts : p.heard => modal[p.order.decision].open /\ p.order = Order(p.order.decision)
         /\ \A d \in Dialogs : modal[d].status = "success" => modal[d].open /\ Real(Order(d))
    /\ deciding \subseteq [order : ApprovalOrders, no : Nat, read : Statuses]
    /\ \A x \in deciding : x.read \in ValidStatuses(x.order.decision)
    /\ raced \subseteq Approvals
    /\ \A x \in executed : x.order.about \notin raced =>
         status[x.order.about] \in IF x.order.decision = "valid" THEN {"valid", "closed"} ELSE {x.order.decision}
    /\ \A x, y \in executed : x.order.about \notin raced /\ x.order = y.order => x = y

\* The row says "rejected" only of what the merchant was told.
LinkInv == row = "rejected" => merchant = "aborted"

\* As long as the form did not slip, one thing is under way for it, about the name in it.
AfterCreate(r) == \E x \in r.after : x.order.decision = "create"
Awaits(p) == p.heard /\ p.order.decision = "create"
AdminReads ==
    [after : SUBSET [order : AdminOrders, no : Nat], state : {"sent", "ok", "error"},
     list : [Members -> {"absent", "open", "blocked"}]]
OneHiring ==
    /\ Hiring => form.status = "sending"
    /\ \A p \in posts : Awaits(p) => /\ p.order = Create(form.username)
                                     /\ \A q \in posts : Awaits(q) => p = q
                                     /\ \A r \in reads : ~AfterCreate(r)
    /\ \A r \in reads : AfterCreate(r) => \A q \in reads : AfterCreate(q) => r = q
    /\ \A r \in reads : \A x \in r.after : x.order.decision = "create" => x.order = Create(form.username)

\* Who was created is an administrator; a name that a creation found to be free is still
\* free, or another one created it.
AdminInv ==
    /\ roles \in [Members -> {"none", "user", "admin"}] /\ blocking \in Members \cup {NoMember}
    /\ form \in [status : {"inactive", "editing", "sending", "failed"}, username : Members \cup {NoMember}]
    /\ reads \subseteq AdminReads /\ slipped \in BOOLEAN
    /\ \A x \in hashing : /\ x.order \in AdminOrders /\ x.order.decision = "create"
                          /\ roles[x.order.about] = "none" \/ Real(x.order)
    /\ \A x \in executed : x.order.decision = "create" => roles[x.order.about] = "admin"
    /\ \A x, y \in executed : x.order.decision = "create" /\ x.order = y.order => x = y
    /\ \A r \in reads : \A x \in r.after : x.order.decision = "create" => Real(x.order)
    /\ hired = NoMember \/ slipped \/ (hired \in Members /\ Real(Create(hired)))
    /\ slipped \/ OneHiring

\* A token that set a password is no one's token any more.
ResetInv ==
    /\ owners \in Seq(Owners) /\ current \in [Owners -> Nat]
    /\ resets \in Seq([token : Tokens, status : {"edit", "sending", "success", "fail"}])
    /\ \A i \in DOMAIN resets : resets[i].status = "success" => Real(NewPassword(resets[i].token))
    /\ \A x \in checked : x.order \in ResetOrders /\ x.order.about \in DOMAIN owners
    /\ \A x \in executed : x.order.about \in DOMAIN owners /\ current[owners[x.order.about]] # x.order.about
    /\ \A x, y \in checked \cup executed : x.order = y.order /\ x.order.about \notin overlaps => x = y

\* Nothing is on display of the parts that are not looked at.
OthersQuiet ==
    /\ about # "approvals" => modal = [d \in Dialogs |-> NoDialog]
    /\ about # "payment" => dialog = "closed" /\ row = "none"
    /\ about # "members" => blocking = NoMember /\ form = NoForm /\ hired = NoMember
    /\ about # "password" => resets = <<>>

DecisionsInv ==
    /\ about \in {"approvals", "payment", "members", "password"}
    /\ CallsReal /\ OthersQuiet
    /\ about = "approvals" => ApprovalsInv
    /\ about = "payment" => LinkInv
    /\ about = "members" => AdminInv
    /\ about = "password" => ResetInv
=============================================================================
