------------------------------ MODULE AdminPages ------------------------------
(***************************************************************************)
(* The pages on which an administrator lists users or administrators,      *)
(* blocks them and creates administrators.  A list is read when its page   *)
(* opens and after a change, never otherwise.  The form for a new          *)
(* administrator is one status of its page: the answer to a call changes   *)
(* it whatever became of the form meanwhile.                               *)
(***************************************************************************)
EXTENDS ClientCalls, Functions

CONSTANTS
    Members,         \* user names, of accounts or to be given
    NoMember,
    MaxAdminPresses  \* bound: how often buttons are pressed

ASSUME AdminAssumption == NoMember \notin Members /\ MaxAdminPresses \in Nat

VARIABLES
    roles,     \* backend: [Members -> "none", "user" or "admin"]
    blocked,   \* backend: those who are blocked
    hashing,   \* backend: creations whose user name was found to be free
    desk,      \* the page: "none", "users" or "admins"
    listing,   \* its list: [Members -> "absent", "open" or "blocked"]
    reads,     \* reads of the list under way: after what, and their answers
    blocking,  \* whom the page asks about, or NoMember
    form,      \* the form for a new administrator: status, username
    hired,     \* for whom it closed by itself last (history)
    slipped    \* it was closed or reopened while something was under way (history)

members == <<roles, blocked, hashing>>
tables == <<listing, reads>>
forms == <<form, hired, slipped>>

Block(u) == [about |-> u, decision |-> "block"]
Create(u) == [about |-> u, decision |-> "create"]
AdminOrders == [about : Members, decision : {"block", "create"}]

NoForm == [status |-> "inactive", username |-> NoMember]
NoList == [u \in Members |-> "absent"]

\* A read of the list, after a press or, when the page opens, after none.
Read(after) == [after |-> after, state |-> "sent", list |-> NoList]

\* Whether something is under way that may change the form.
Hiring ==
    \/ \E p \in posts : p.heard /\ p.order.decision = "create"
    \/ \E r \in reads : \E x \in r.after : x.order.decision = "create"

(* The backend.                                                            *)

\* get_users, with the filter of the page.
Listed(u) == roles[u] = IF desk = "users" THEN "user" ELSE "admin"
Table ==
    [u \in Members |->
        CASE ~Listed(u) -> "absent"
          [] Listed(u) /\ u \in blocked -> "blocked"
          [] Listed(u) /\ u \notin blocked -> "open"]

GetUsers(r) ==
    /\ r.state = "sent"
    /\ \E answer \in {[r EXCEPT !.state = "ok", !.list = Table], [r EXCEPT !.state = "error"]} :
         reads' = (reads \ {r}) \cup {answer}
    /\ UNCHANGED <<members, desk, listing, blocking, forms, calls>>

\* Somebody who is blocked is blocked again.
BlockUser(p) ==
    /\ p.order.decision = "block" /\ Serve(p)
    /\ blocked' = blocked \cup {p.order.about}
    /\ UNCHANGED <<roles, hashing>>

\* create_new_user looks for the name, hashes the password, and looks again.
FindFree(p) ==
    LET x == Press(p.order, p.no) IN
    /\ p.order.decision = "create" /\ p.state = "sent" /\ x \notin hashing
    /\ IF roles[p.order.about] = "none"
       THEN hashing' = hashing \cup {x} /\ UNCHANGED calls
       ELSE Refuse(p) /\ UNCHANGED hashing
    /\ UNCHANGED <<roles, blocked>>

\* If another request took the name meanwhile, nothing is done, and success is answered.
AddUser(p) ==
    LET x == Press(p.order, p.no) IN
    /\ x \in hashing /\ hashing' = hashing \ {x}
    /\ IF roles[p.order.about] = "none"
       THEN Serve(p) /\ roles' = [roles EXCEPT ![p.order.about] = "admin"]
       ELSE /\ \E state \in {"ok", "error"} : Answer(p, state)
            /\ UNCHANGED <<roles, presses, executed>>
    /\ UNCHANGED blocked

LoseOrder(p) == Press(p.order, p.no) \notin hashing /\ Refuse(p) /\ UNCHANGED members

AdminBackend ==
    \/ /\ \E p \in posts : BlockUser(p) \/ FindFree(p) \/ AddUser(p) \/ LoseOrder(p)
       /\ UNCHANGED <<desk, tables, blocking, forms>>
    \/ \E r \in reads : GetUsers(r)

(* The pages.                                                              *)

OpenDesk(page) ==
    /\ desk = "none" /\ desk' = page
    /\ listing' = NoList /\ reads' = {Read({})}
    /\ UNCHANGED <<members, blocking, forms, calls>>

LeaveDesk ==
    /\ desk # "none" /\ desk' = "none"
    /\ listing' = NoList /\ reads' = {} /\ blocking' = NoMember
    /\ form' = NoForm /\ hired' = NoMember /\ slipped' = FALSE
    /\ Leave
    /\ UNCHANGED members

\* A list is displayed when it comes, after a change even if a later one came before it.
ListUsers(r) ==
    /\ r.state = "ok" /\ listing' = r.list /\ reads' = reads \ {r}
    /\ IF \E x \in r.after : x.order.decision = "create"
       THEN form' = NoForm /\ hired' = form.username
       ELSE UNCHANGED <<form, hired>>
    /\ UNCHANGED <<members, desk, blocking, slipped, calls>>

FormFails == form' = [form EXCEPT !.status = "failed"]

NotListed(r) ==
    /\ r.state = "error" /\ reads' = reads \ {r}
    /\ (IF \E x \in r.after : x.order.decision = "create" THEN FormFails ELSE UNCHANGED form)
    /\ UNCHANGED <<members, desk, listing, blocking, hired, slipped, calls>>

(* Blocking.                                                               *)

ConfirmBlock(u) ==
    /\ blocking = NoMember /\ form = NoForm /\ listing[u] = "open"
    /\ blocking' = u
    /\ UNCHANGED <<members, desk, tables, forms, calls>>

Pressable == FoldFunction(+, 0, presses) < MaxAdminPresses

\* The question is closed with either answer.
OnCloseConfirmation ==
    /\ blocking # NoMember /\ blocking' = NoMember
    /\ (Pressable /\ Call(Block(blocking))) \/ UNCHANGED calls
    /\ UNCHANGED <<members, desk, tables, forms>>

(* Creating.                                                               *)

OpenNewAdmin ==
    /\ desk = "admins" /\ blocking = NoMember /\ form.status = "inactive"
    /\ form' = [form EXCEPT !.status = "editing"] /\ slipped' = (slipped \/ Hiring)
    /\ UNCHANGED <<members, desk, tables, blocking, hired, calls>>

\* The fields can be edited while a call is under way.
EditNewAdmin(u) ==
    /\ form.status # "inactive" /\ u # form.username
    /\ form' = [form EXCEPT !.username = u] /\ slipped' = (slipped \/ Hiring)
    /\ UNCHANGED <<members, desk, tables, blocking, hired, calls>>

CreateNewAdmin ==
    /\ form.status \in {"editing", "failed"} /\ form.username # NoMember
    /\ Pressable /\ Call(Create(form.username))
    /\ form' = [form EXCEPT !.status = "sending"]
    /\ UNCHANGED <<members, desk, tables, blocking, hired, slipped>>

CloseNewAdmin ==
    /\ form.status # "inactive"
    /\ form' = NoForm /\ slipped' = (slipped \/ Hiring)
    /\ UNCHANGED <<members, desk, tables, blocking, hired, calls>>

\* An error of blocking is not displayed, one of creating is, if need be in a new form.
Ordered(p) ==
    /\ \/ Hear(p, "ok") /\ reads' = reads \cup {Read({Press(p.order, p.no)})} /\ UNCHANGED form
       \/ /\ Hear(p, "error") /\ UNCHANGED reads
          /\ (IF p.order.decision = "create" THEN FormFails ELSE UNCHANGED form)
    /\ UNCHANGED <<members, desk, listing, blocking, hired, slipped>>

AdminClient ==
    \/ \E page \in {"users", "admins"} : OpenDesk(page)
    \/ LeaveDesk
    \/ \E r \in reads : ListUsers(r) \/ NotListed(r)
    \/ \E u \in Members : ConfirmBlock(u) \/ EditNewAdmin(u)
    \/ OnCloseConfirmation \/ OpenNewAdmin \/ CreateNewAdmin \/ CloseNewAdmin
    \/ \E p \in posts : Ordered(p)

AdminInit ==
    /\ roles \in [Members -> {"none", "user", "admin"}] /\ blocked = {} /\ hashing = {}
    /\ desk = "none" /\ listing = NoList /\ reads = {}
    /\ blocking = NoMember /\ form = NoForm /\ hired = NoMember /\ slipped = FALSE
=============================================================================
