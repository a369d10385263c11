--------------------------- MODULE ApprovalDialogs ---------------------------
(***************************************************************************)
(* Funds pull pre-approvals in the web application: a page polls them and  *)
(* lists them in sections; every section has dialogs that approve, reject  *)
(* or revoke.  The buttons of a dialog stay enabled while its call is      *)
(* under way, and its state outlives it: a late answer changes the status  *)
(* of whatever the dialog shows then.  A section that becomes empty takes  *)
(* its dialogs with it.                                                    *)
(***************************************************************************)
EXTENDS ClientCalls, Functions

CONSTANTS
    Approvals,
    NoApproval,
    MaxPresses  \* bound: how often buttons are pressed

ASSUME ApprovalsAssumption == NoApproval \notin Approvals /\ MaxPresses \in Nat

VARIABLES
    status,      \* backend: [Approvals -> status]
    deciding,    \* backend: changes that were found acceptable and are not written yet
    raced,       \* approvals written over a status that the writer had not read (history)
    opened,      \* whether the page is open
    approvals,   \* the page's copy of status
    polls,       \* whether the page goes on polling
    inModal,     \* [section -> the approval its dialogs are about]
    modal,       \* [dialog -> open, status, error]
    refreshing,  \* [dialog -> refreshes of the user under way]
    left         \* a dialog was closed while something was under way (history)

approvalBackend == <<status, deciding, raced>>
pageVars == <<opened, approvals, polls>>
dialogVars == <<inModal, modal, refreshing, left>>

\* A dialog is named for the status that it gives.
Dialogs == {"valid", "rejected", "closed"}
Sections == {"new", "active"}
SectionOf == [d \in Dialogs |-> IF d = "closed" THEN "active" ELSE "new"]
Statuses == {"pending"} \cup Dialogs
ApprovalOrders == [about : Approvals, decision : Dialogs]

Order(d) == [about |-> inModal[SectionOf[d]], decision |-> d]

NoDialog == [open |-> FALSE, status |-> "edit", error |-> FALSE]

\* The section of the page that lists an approval; none of those here expires.
Section(list, a) ==
    CASE list[a] = "pending" -> "new" [] list[a] = "valid" -> "active" [] OTHER -> "history"
Shows(list, section) == \E a \in Approvals : Section(list, a) = section

(* The backend.                                                            *)

\* Mutant: nothing is checked.
ValidStatusesM(d) == Statuses

\* What approve, reject and close accept.
ValidStatuses(d) == IF d = "closed" THEN {"pending", "valid"} ELSE {"pending"}

Checks(o, no) ==
    deciding' = deciding \cup {[order |-> o, no |-> no, read |-> status[o.about]]}

\* update_status up to its check, and any time later what it writes.
CheckStatus(p) ==
    /\ p.state = "sent" /\ \A x \in deciding : Press(x.order, x.no) # Press(p.order, p.no)
    /\ IF status[p.order.about] \in ValidStatuses(p.order.decision)
       THEN Checks(p.order, p.no) /\ UNCHANGED calls
       ELSE Refuse(p) /\ UNCHANGED deciding
    /\ UNCHANGED <<status, raced, pageVars, dialogVars>>

WriteStatus(x) ==
    LET a == x.order.about
    IN  /\ deciding' = deciding \ {x}
        /\ status' = [status EXCEPT ![a] = x.order.decision]
        /\ raced' = IF status[a] = x.read THEN raced ELSE raced \cup {a}
        /\ UNCHANGED <<pageVars, dialogVars>>

UpdateStatus(p) ==
    \E x \in deciding : Press(x.order, x.no) = Press(p.order, p.no) /\ WriteStatus(x) /\ Serve(p)

\* The request is lost, or its thread stops before it writes.
LoseUpdate(p) ==
    /\ Refuse(p)
    /\ deciding' = {x \in deciding : Press(x.order, x.no) # Press(p.order, p.no)}
    /\ UNCHANGED <<status, raced, pageVars, dialogVars>>

\* The other side closes an approval, in two steps as well; it waits for the answer.
BillerCloses(a) ==
    /\ status[a] \in ValidStatuses("closed")
    /\ \A x \in deciding : x.no = 0 => x.order.about # a
    /\ Checks([about |-> a, decision |-> "closed"], 0)
    /\ UNCHANGED <<status, raced, pageVars, dialogVars, calls>>

ClosedByBiller == \E x \in deciding : x.no = 0 /\ WriteStatus(x) /\ UNCHANGED calls

ApprovalBackend ==
    \/ \E p \in posts : CheckStatus(p) \/ UpdateStatus(p) \/ LoseUpdate(p)
    \/ \E a \in Approvals : BillerCloses(a)
    \/ ClosedByBiller

(* The page.                                                               *)

\* The sections in S disappear, with their dialogs.
Gone(S) ==
    /\ inModal' = [s \in Sections |-> IF s \in S THEN NoApproval ELSE inModal[s]]
    /\ modal' = [d \in Dialogs |-> IF SectionOf[d] \in S THEN NoDialog ELSE modal[d]]
    /\ refreshing' = [d \in Dialogs |-> IF SectionOf[d] \in S THEN 0 ELSE refreshing[d]]
    /\ Unhear({p \in posts : SectionOf[p.order.decision] \in S})
    /\ UNCHANGED left

OpenPage ==
    /\ ~opened /\ opened' = TRUE /\ polls' = TRUE
    /\ UNCHANGED <<approvalBackend, approvals, dialogVars, calls>>

\* An answer to the poll comes, and the next poll is due in three seconds.  A section
\* without approvals disappears.
FetchApprovals ==
    /\ opened /\ polls
    /\ approvals' = status
    /\ Gone({s \in Sections : ~Shows(status, s)})
    /\ UNCHANGED <<approvalBackend, opened, polls>>

\* An error ends the polling.
FetchFailed ==
    /\ opened /\ polls /\ polls' = FALSE
    /\ UNCHANGED <<approvalBackend, opened, approvals, dialogVars, calls>>

LeavePage ==
    /\ opened /\ opened' = FALSE /\ polls' = FALSE
    /\ approvals' = [a \in Approvals |-> "none"]
    /\ Gone(Sections)
    /\ UNCHANGED approvalBackend

(* The dialogs.                                                            *)

\* A button of the list opens a dialog, which shows what it was left with.
OpenDialog(d, a) ==
    /\ opened /\ \A e \in Dialogs : ~modal[e].open
    /\ Section(approvals, a) = SectionOf[d]
    /\ inModal' = [inModal EXCEPT ![SectionOf[d]] = a]
    /\ modal' = [modal EXCEPT ![d].open = TRUE]
    /\ UNCHANGED <<approvalBackend, pageVars, refreshing, left, calls>>

\* Mutant: the dialog decides about every approval that is listed with it.
UpdateApprovalM(d) ==
    /\ modal[d].open /\ modal[d].status # "success"
    /\ FoldFunction(+, 0, presses) < MaxPresses
    /\ modal' = [modal EXCEPT ![d] = [@ EXCEPT !.status = "edit", !.error = FALSE]]
    /\ \E a \in Approvals :
         Section(approvals, a) = SectionOf[d] /\ Call([about |-> a, decision |-> d])
    /\ UNCHANGED <<approvalBackend, pageVars, inModal, refreshing, left>>

UpdateApproval(d) ==
    /\ modal[d].open /\ modal[d].status # "success"
    /\ FoldFunction(+, 0, presses) < MaxPresses
    /\ modal' = [modal EXCEPT ![d] = [@ EXCEPT !.status = "edit", !.error = FALSE]]
    /\ Call(Order(d))
    /\ UNCHANGED <<approvalBackend, pageVars, inModal, refreshing, left>>

Updated(p) ==
    /\ Hear(p, "ok")
    /\ modal' = [modal EXCEPT ![p.order.decision].status = "success"]
    /\ refreshing' = [refreshing EXCEPT ![p.order.decision] = @ + 1]
    /\ UNCHANGED <<approvalBackend, pageVars, inModal, left>>

Fails(d) == modal' = [modal EXCEPT ![d] = [@ EXCEPT !.status = "fail", !.error = TRUE]]

\* Mutant: an error is displayed under "success".
NotUpdatedM(p) ==
    /\ Hear(p, "error")
    /\ modal' = [modal EXCEPT ![p.order.decision] = [@ EXCEPT !.status = "success", !.error = TRUE]]
    /\ UNCHANGED <<approvalBackend, pageVars, inModal, refreshing, left>>

NotUpdated(p) ==
    /\ Hear(p, "error") /\ Fails(p.order.decision)
    /\ UNCHANGED <<approvalBackend, pageVars, inModal, refreshing, left>>

\* The refresh that follows an update ends, maybe with an error, which is displayed.
UserRefreshed(d) ==
    /\ refreshing[d] > 0
    /\ refreshing' = [refreshing EXCEPT ![d] = @ - 1]
    /\ Fails(d) \/ UNCHANGED modal
    /\ UNCHANGED <<approvalBackend, pageVars, inModal, left, calls>>

CloseDialog(d) ==
    /\ modal[d].open
    /\ modal' = [modal EXCEPT ![d] = NoDialog]
    /\ left' = (left \/ refreshing[d] > 0 \/ \E p \in posts : p.heard /\ p.order.decision = d)
    /\ UNCHANGED <<approvalBackend, pageVars, inModal, refreshing, calls>>

ApprovalAnswers ==
    \/ \E p \in posts : Updated(p) \/ NotUpdated(p)
    \/ \E d \in Dialogs : UserRefreshed(d)

ApprovalClient ==
    \/ OpenPage \/ FetchApprovals \/ FetchFailed \/ LeavePage \/ ApprovalAnswers
    \/ \E d \in Dialogs : UpdateApproval(d) \/ CloseDialog(d) \/ \E a \in Approvals : OpenDialog(d, a)

ApprovalsInit ==
    /\ status \in [Approvals -> {"pending", "valid"}]
    /\ deciding = {} /\ raced = {}
    /\ opened = FALSE /\ approvals = [a \in Approvals |-> "none"]
    /\ polls = FALSE
    /\ inModal = [s \in Sections |-> NoApproval]
    /\ modal = [d \in Dialogs |-> NoDialog]
    /\ refreshing = [d \in Dialogs |-> 0] /\ left = FALSE
=============================================================================
