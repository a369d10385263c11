---------------------------- MODULE PreApproval ----------------------------
(***************************************************************************)
(* Funds pull pre-approvals: a payee asks a payer for the permission to    *)
(* pull funds.  Each of the two VASPs keeps a row about it, changed by its *)
(* own user and by the other VASP's commands; what its user changed is     *)
(* sent by the task loop.  Payee and payer may belong to one VASP, which   *)
(* then holds both rows and sends its commands to itself.                  *)
(*                                                                         *)
(* No row is locked: web requests and inbound commands read a row, decide, *)
(* and write the columns that they changed.                                *)
(***************************************************************************)
EXTENDS Naturals

CONSTANTS
    Ids,        \* pre-approvals
    PayeeOps,   \* what a payee's user asks for: subset of Ops
    FaultKinds, \* subset of {"timeout", "crash", "expire"}
    MaxWeb,     \* bound: changes that users ask for
    MaxFaults   \* bound: requests that time out, restarts, expirations

Ops == {"valid", "rejected", "closed"}

ASSUME PreApprovalAssumption ==
    /\ PayeeOps \subseteq Ops
    /\ FaultKinds \subseteq {"timeout", "crash", "expire"}
    /\ MaxWeb \in Nat /\ MaxFaults \in Nat

VARIABLES
    local,      \* pre-approvals whose payee and payer have the same VASP
    rows,       \* [Keys -> row or NoRow]
    task,       \* [Vasps -> Idle or the round of its task loop]
    net,        \* commands that wait for a thread of the other VASP
    handlers,   \* commands that a thread has read its rows for
    web,        \* changes that a thread has read its row for
    late,       \* pre-approvals that have expired
    approved,   \* those whose payer's user approved (history)
    raced,      \* those of which a write did not see another (history)
    webs,       \* counters for the bounds
    faults

vars == <<local, rows, task, net, handlers, web, late, approved, raced, webs, faults>>

Roles == {"payee", "payer"}
Statuses == {"pending", "valid", "rejected", "closed"}
Keys == Ids \X Roles
Vasps == {"A", "B"}
\* sent is a nullable Boolean; known: the payer's address is known.
Rows == [status : Statuses, sent : {"yes", "no", "null"}, known : BOOLEAN]
NoRow == [status |-> "none"]
Commands == [key : Keys, status : Statuses, live : BOOLEAN]
Handlers == [cmd : Commands, key : Keys, read : Rows \cup {NoRow}]
Updates == [key : Keys, status : Ops, read : Rows]
Idle == [pc |-> "idle"]

\* The VASP that a row belongs to.
Home(k) == IF k[1] \in local \/ k[2] = "payee" THEN "A" ELSE "B"
Opponent(k) == <<k[1], IF k[2] = "payee" THEN "payer" ELSE "payee">>

Fault(kind) == kind \in FaultKinds /\ faults < MaxFaults /\ faults' = faults + 1

-----------------------------------------------------------------------------
(* The table of explicit states: which of its rows an inbound command is   *)
(* for.  In every other state the command is refused.                      *)

State(status, payeeMine, payerMine, asPayee, asPayer) ==
    <<status, payeeMine, payerMine, asPayee, asPayer>>

ForPayer ==
    {State("pending", TRUE, TRUE, "pending", s) : s \in {"none", "pending"}} \cup
    {State("pending", FALSE, TRUE, "none", s) : s \in {"none", "pending"}} \cup
    {State("closed", FALSE, TRUE, "none", s) : s \in {"pending", "valid", "closed"}} \cup
    {State("closed", TRUE, TRUE, "closed", s) : s \in {"pending", "valid"}}

ForPayee ==
    LET moves == {"valid", "rejected"} \X {"pending"} \cup {"closed"} \X {"pending", "valid"}
                   \cup {<<s, s>> : s \in {"valid", "rejected", "closed"}}
    IN  {State(m[1], TRUE, FALSE, m[2], "none") : m \in moves} \cup
        {State(m[1], TRUE, TRUE, m[2], m[1]) : m \in moves}

\* The status of the row that an address leads to, if the address is one of v's.
Existing(v, k) == IF Home(k) = v THEN rows[k].status ELSE "none"

StateOf(v, cmd) ==
    LET f == cmd.key[1]
    IN  State(cmd.status, Home(<<f, "payee">>) = v, Home(<<f, "payer">>) = v,
              Existing(v, <<f, "payee">>), Existing(v, <<f, "payer">>))

ReduceRole(v, cmd) ==
    IF StateOf(v, cmd) \in ForPayer THEN "payer"
    ELSE IF StateOf(v, cmd) \in ForPayee THEN "payee" ELSE "error"

-----------------------------------------------------------------------------
Init ==
    /\ local \in SUBSET Ids
    /\ rows = [k \in Keys |-> NoRow] /\ task = [v \in Vasps |-> Idle]
    /\ net = {} /\ handlers = {} /\ web = {} /\ late = {}
    /\ approved = {} /\ raced = {} /\ webs = 0 /\ faults = 0

history == <<approved, raced, webs, faults>>
threads == <<local, task, net, handlers, web, late>>

(* Users.                                                                  *)

\* The payee's VASP stores a request, for a payer whose address it knows or for
\* whoever gets hold of the link: then there is nobody to send it to yet.
CommitFundsPullPreApproval(f) ==
    /\ rows[<<f, "payee">>] = NoRow
    /\ \E known \in BOOLEAN :
          rows' = [rows EXCEPT ![<<f, "payee">>] =
                     [status |-> "pending", known |-> known,
                      sent |-> IF known THEN "no" ELSE "yes"]]
    /\ UNCHANGED <<threads, history>>

\* create_and_approve, from such a link.  A VASP that already has a row about it
\* refuses; so it always refuses the link of one of its own users.
CreateAndApprove(f) ==
    LET k == <<f, "payer">>
    IN  /\ rows[Opponent(k)] # NoRow /\ ~rows[Opponent(k)].known
        /\ f \notin late
        /\ \A j \in {k, Opponent(k)} : Home(j) = Home(k) => rows[j] = NoRow
        /\ rows' = [rows EXCEPT ![k] = [status |-> "valid", known |-> TRUE, sent |-> "no"]]
        /\ approved' = approved \cup {f}
        /\ UNCHANGED <<threads, raced, webs, faults>>

\* Mutant: the route takes a rejection for an approval.
SwappedStatusM(u, op) ==
    /\ webs < MaxWeb /\ (u[2] = "payee" => op \in PayeeOps)
    /\ \E k \in {u, Opponent(u)} :
          /\ Home(k) = Home(u) /\ rows[k] # NoRow
          /\ rows[k].status \in (IF op = "closed" THEN {"pending", "valid"} ELSE {"pending"})
          /\ web' = web \cup {[key |-> k, status |-> IF op = "rejected" THEN "valid" ELSE op, read |-> rows[k]]}
    /\ rows[u] # NoRow
    /\ webs' = webs + 1
    /\ approved' = IF u[2] = "payer" /\ op = "valid" THEN approved \cup {u[1]} ELSE approved
    /\ UNCHANGED <<local, rows, task, net, handlers, late, raced, faults>>

\* Mutant: the current status is not looked at.
UncheckedStatusM(u, op) ==
    /\ webs < MaxWeb /\ (u[2] = "payee" => op \in PayeeOps)
    /\ \E k \in {u, Opponent(u)} :
          /\ Home(k) = Home(u) /\ rows[k] # NoRow
          /\ web' = web \cup {[key |-> k, status |-> op, read |-> rows[k]]}
    /\ rows[u] # NoRow
    /\ webs' = webs + 1
    /\ approved' = IF u[2] = "payer" /\ op = "valid" THEN approved \cup {u[1]} ELSE approved
    /\ UNCHANGED <<local, rows, task, net, handlers, late, raced, faults>>

\* update_status up to its check, for the user of row u.  get_command_by_id takes
\* the first row with the id, which need not be the user's where there are two.
UpdateStatus(u, op) ==
    /\ webs < MaxWeb /\ (u[2] = "payee" => op \in PayeeOps)
    /\ \E k \in {u, Opponent(u)} :
          /\ Home(k) = Home(u) /\ rows[k] # NoRow
          /\ rows[k].status \in (IF op = "closed" THEN {"pending", "valid"} ELSE {"pending"})
          /\ web' = web \cup {[key |-> k, status |-> op, read |-> rows[k]]}
    /\ rows[u] # NoRow
    /\ webs' = webs + 1
    /\ approved' = IF u[2] = "payer" /\ op = "valid" THEN approved \cup {u[1]} ELSE approved
    /\ UNCHANGED <<local, rows, task, net, handlers, late, raced, faults>>

\* Mutant: offchain_sent is not reset.
UpdateCommandM(w) ==
    /\ w \in web
    /\ web' = web \ {w}
    /\ rows' = [rows EXCEPT ![w.key].status = w.status]
    /\ raced' = IF rows[w.key] = w.read THEN raced ELSE raced \cup {w.key[1]}
    /\ UNCHANGED <<local, task, net, handlers, late, approved, webs, faults>>

\* update_command writes the columns whose value differs from what was read.
UpdateCommand(w) ==
    /\ w \in web
    /\ web' = web \ {w}
    /\ rows' = [rows EXCEPT ![w.key].status = w.status,
                            ![w.key].sent = IF w.read.sent = "no" THEN @ ELSE "no"]
    /\ raced' = IF rows[w.key] = w.read THEN raced ELSE raced \cup {w.key[1]}
    /\ UNCHANGED <<local, task, net, handlers, late, approved, webs, faults>>

(* The task loop of a VASP.                                                *)

\* The rows of a round are read together, and read again after the first commit.
Round(todo, known) == [pc |-> "round", todo |-> todo, read |-> [k \in known |-> rows[k]]]
Rounds == [pc : {"round"}, todo : SUBSET Keys, read : UNION {[S -> Rows] : S \in SUBSET Keys}]
Sends == [pc : {"send"}, todo : SUBSET Keys, key : Keys, read : Rows,
          reply : {"waiting", "ok", "fail"}]

ProcessRequests(v) ==
    /\ task[v] = Idle
    /\ LET todo == {k \in Keys : Home(k) = v /\ rows[k] # NoRow /\ rows[k].sent = "no"}
       IN  /\ todo # {}
           /\ task' = [task EXCEPT ![v] = Round(todo, todo)]
    /\ UNCHANGED <<local, rows, net, handlers, web, late, history>>

\* In any order.  Without an address to send to the round ends.
SendCommand(v, k) ==
    /\ task[v].pc = "round" /\ k \in task[v].todo
    /\ LET row == IF k \in DOMAIN task[v].read THEN task[v].read[k] ELSE rows[k]
       IN  IF row.known
           THEN /\ net' = net \cup {[key |-> k, status |-> row.status, live |-> TRUE]}
                /\ task' = [task EXCEPT ![v] =
                     [pc |-> "send", todo |-> task[v].todo \ {k}, key |-> k, read |-> row,
                      reply |-> "waiting"]]
           ELSE task' = [task EXCEPT ![v] = Idle] /\ UNCHANGED net
    /\ UNCHANGED <<local, rows, handlers, web, late, history>>

CommandSent(v) ==
    /\ task[v].pc = "send" /\ task[v].reply = "ok"
    /\ LET k == task[v].key
       IN  /\ rows' = [rows EXCEPT ![k].sent = "yes"]
           /\ raced' = IF rows[k].status = task[v].read.status THEN raced
                       ELSE raced \cup {k[1]}
    /\ task' = [task EXCEPT ![v] = IF @.todo = {} THEN Idle ELSE Round(@.todo, {})]
    /\ UNCHANGED <<local, net, handlers, web, late, approved, webs, faults>>

\* Mutant: a command that was refused counts as sent.
CommandFailedM(v) ==
    /\ task[v].pc = "send" /\ task[v].reply = "fail"
    /\ task' = [task EXCEPT ![v] = Idle]
    /\ rows' = [rows EXCEPT ![task[v].key].sent = "yes"]
    /\ UNCHANGED <<local, net, handlers, web, late, history>>

\* The exception ends the round.
CommandFailed(v) ==
    /\ task[v].pc = "send" /\ task[v].reply = "fail"
    /\ task' = [task EXCEPT ![v] = Idle]
    /\ UNCHANGED <<local, rows, net, handlers, web, late, history>>

(* Inbound commands.                                                       *)

\* The reply reaches the sender if it still waits for it.
Reply(cmd, reply) ==
    task' = IF cmd.live THEN [task EXCEPT ![Home(cmd.key)].reply = reply] ELSE task

\* validate_status
ValidateStatus(cmd, row) ==
    row = NoRow \/ row.status = cmd.status \/ row.status \notin {"rejected", "closed"}

\* handle_fund_pull_pre_approval_command up to its checks.
HandleCommand(cmd) ==
    /\ cmd \in net /\ net' = net \ {cmd}
    /\ LET f == cmd.key[1]
           role == ReduceRole(Home(Opponent(cmd.key)), cmd)
           accepts == f \notin late /\ role # "error" /\ ValidateStatus(cmd, rows[<<f, role>>])
       IN  IF accepts
           THEN /\ handlers' = handlers \cup
                      {[cmd |-> cmd, key |-> <<f, role>>, read |-> rows[<<f, role>>]]}
                /\ UNCHANGED task
           ELSE Reply(cmd, "fail") /\ UNCHANGED handlers
    /\ UNCHANGED <<local, rows, web, late, history>>

\* A new row is not marked as sent; an updated one gets NULL, which is neither sent
\* nor to be sent.  Inserting a row that is there by now fails.
HandleCommit(h) ==
    /\ h \in handlers /\ handlers' = handlers \ {h}
    /\ IF h.read # NoRow
       THEN /\ rows' = [rows EXCEPT
                  ![h.key].status = IF h.read.status = h.cmd.status THEN @ ELSE h.cmd.status,
                  ![h.key].sent = IF h.read.sent = "null" THEN @ ELSE "null",
                  ![h.key].known = TRUE]
            /\ raced' = IF rows[h.key].status = h.read.status THEN raced
                        ELSE raced \cup {h.key[1]}
            /\ Reply(h.cmd, "ok")
       ELSE /\ rows' = IF rows[h.key] # NoRow THEN rows
                       ELSE [rows EXCEPT ![h.key] = [status |-> h.cmd.status, known |-> TRUE,
                                                     sent |-> "no"]]
            /\ Reply(h.cmd, IF rows[h.key] = NoRow THEN "ok" ELSE "fail")
            /\ UNCHANGED raced
    /\ UNCHANGED <<local, net, web, late, approved, webs, faults>>

(* Faults.                                                                 *)

Abandon(cmd, v) == IF cmd.live /\ Home(cmd.key) = v THEN [cmd EXCEPT !.live = FALSE] ELSE cmd
Abandoned(v) ==
    /\ net' = {Abandon(cmd, v) : cmd \in net}
    /\ handlers' = {[h EXCEPT !.cmd = Abandon(h.cmd, v)] : h \in handlers}

SendTimeout(v) ==
    /\ task[v].pc = "send" /\ task[v].reply = "waiting" /\ Fault("timeout")
    /\ task' = [task EXCEPT ![v] = Idle]
    /\ Abandoned(v)
    /\ UNCHANGED <<local, rows, web, late, approved, raced, webs>>

\* The web process of v stops and starts again; who waits for it gets an error.
Restart(v) ==
    /\ Fault("crash")
    /\ LET lost == {h \in handlers : Home(h.key) = v}
           waits(u) == \E h \in lost : h.cmd.live /\ Home(h.cmd.key) = u
       IN  /\ task' = [u \in Vasps |-> IF u = v THEN Idle
                                       ELSE IF waits(u) THEN [task[u] EXCEPT !.reply = "fail"]
                                       ELSE task[u]]
           /\ handlers' = {[h EXCEPT !.cmd = Abandon(h.cmd, v)] : h \in handlers \ lost}
    /\ net' = {Abandon(cmd, v) : cmd \in net}
    /\ web' = {w \in web : Home(w.key) # v}
    /\ UNCHANGED <<local, rows, late, approved, raced, webs>>

Expiration(f) ==
    /\ f \notin late /\ Fault("expire")
    /\ late' = late \cup {f}
    /\ UNCHANGED <<local, rows, task, net, handlers, web, approved, raced, webs>>

-----------------------------------------------------------------------------
TaskStep(v) ==
    \/ ProcessRequests(v) \/ CommandSent(v) \/ CommandFailed(v)
    \/ \E k \in Keys : SendCommand(v, k)

Next ==
    \/ \E f \in Ids : CommitFundsPullPreApproval(f) \/ CreateAndApprove(f) \/ Expiration(f)
    \/ \E u \in Keys, op \in Ops : UpdateStatus(u, op)
    \/ \E w \in web : UpdateCommand(w)
    \/ \E v \in Vasps : TaskStep(v) \/ SendTimeout(v) \/ Restart(v)
    \/ \E cmd \in net : HandleCommand(cmd)
    \/ \E h \in handlers : HandleCommit(h)

Spec == Init /\ [][Next]_vars

\* The loops go on for ever, and a request that somebody waits for is served.
FairSpec ==
    /\ Spec
    /\ \A v \in Vasps : WF_vars(TaskStep(v))
    /\ \A k \in Keys :
         /\ WF_vars(\E w \in web : w.key = k /\ UpdateCommand(w))
         /\ WF_vars(\E cmd \in net : cmd.key = k /\ cmd.live /\ HandleCommand(cmd))
         /\ WF_vars(\E h \in handlers : h.cmd.key = k /\ h.cmd.live /\ HandleCommit(h))

-----------------------------------------------------------------------------
(* Properties.                                                             *)

TypeOK ==
    /\ rows \in [Keys -> Rows \cup {NoRow}]
    /\ task \in [Vasps -> Rounds \cup Sends \cup {Idle}]
    /\ net \subseteq Commands /\ handlers \subseteq Handlers /\ web \subseteq Updates
    /\ local \subseteq Ids /\ late \subseteq Ids /\ approved \subseteq Ids /\ raced \subseteq Ids
    /\ webs \in Nat /\ faults \in Nat

\* The payee's VASP takes a pre-approval for valid only after the payer's user
\* approved it, whatever is late, repeated or overwritten; if the payee's user does
\* not approve it, which update_status allows.
ValidWasApproved ==
    "valid" \notin PayeeOps =>
        \A f \in Ids : rows[<<f, "payee">>].status = "valid" => f \in approved

\* Nothing about f is under way or waits to be sent.
Quiet(f) ==
    /\ \A k \in {f} \X Roles : rows[k] # NoRow => rows[k].sent # "no"
    /\ \A cmd \in net : cmd.key[1] # f
    /\ \A h \in handlers : h.key[1] # f
    /\ \A w \in web : w.key[1] # f
    /\ \A v \in Vasps : task[v].pc = "send" => task[v].key[1] # f

\* When both VASPs have a row and have sent what there is to send, they agree,
\* however commands crossed, were lost or came late; only a write that did not see
\* another one can part them.
Agreed ==
    \A f \in Ids \ raced :
        Quiet(f) /\ (\A k \in {f} \X Roles : rows[k] # NoRow) =>
            rows[<<f, "payee">>].status = rows[<<f, "payer">>].status

Final == {"rejected", "closed"}

\* What is rejected or closed stays so, unless a write did not see another one.
FinalStays ==
    [][\A k \in Keys :
          rows[k].status \in Final /\ k[1] \notin raced'
              => rows'[k].status = rows[k].status]_vars

\* The payer's answer, and the end that either user puts to it, does not wait for ever
\* at its VASP while the other one is in a state to take it, unless there is no address
\* to send it to or another row that is to be sent stands in its way.
Follows(status) == CASE status = "pending" -> {"valid", "rejected", "closed"}
                     [] status = "valid" -> {"closed"}
                     [] OTHER -> {}
Stuck(k) ==
    /\ rows[k].status \in Follows(rows[Opponent(k)].status)
    /\ k[2] = "payer" \/ (rows[k].status = "closed" /\ rows[k].known)
    /\ k[1] \notin raced \cup late
    /\ \A j \in Keys \ {k} : Home(j) = Home(k) /\ rows[j] # NoRow => rows[j].sent # "no"
AnswerArrives == \A k \in Keys : []<>~Stuck(k)

-----------------------------------------------------------------------------
(* The inductive invariant behind ValidWasApproved and FinalStays.         *)

Exists(k) == rows[k] # NoRow

\* What threads have read of a row is about a row that is still there.
RowsInv ==
    /\ \A h \in handlers : h.read # NoRow => Exists(h.key)
    /\ \A w \in web : Exists(w.key)
    /\ \A v \in Vasps : task[v].pc \in {"round", "send"} =>
          \A k \in task[v].todo : Home(k) = v /\ Exists(k)
    /\ \A v \in Vasps : task[v].pc = "send" => Home(task[v].key) = v /\ Exists(task[v].key)

\* Whoever waits for a reply waits for one command, which is in one place.
Waiting(cmd) ==
    LET t == task[Home(cmd.key)]
    IN  t.pc = "send" /\ t.key = cmd.key /\ t.reply = "waiting"
LiveInv ==
    /\ \A c \in net : c.live => Waiting(c)
    /\ \A h \in handlers : h.cmd.live => Waiting(h.cmd)
    /\ \A c, d \in net : c.live /\ d.live /\ Home(c.key) = Home(d.key) => c = d
    /\ \A h, i \in handlers :
          h.cmd.live /\ i.cmd.live /\ Home(h.cmd.key) = Home(i.cmd.key) => h = i
    /\ \A c \in net, h \in handlers :
          c.live /\ h.cmd.live => Home(c.key) # Home(h.cmd.key)

\* Nothing says "valid" about a pre-approval that the payer's user did not approve:
\* no row, no command, no change under way and nothing that was read.
Backed(f, status) == status = "valid" => f \in approved
BackedInv ==
    "valid" \notin PayeeOps =>
        /\ \A k \in Keys : Backed(k[1], rows[k].status)
        /\ \A cmd \in net : Backed(cmd.key[1], cmd.status)
        /\ \A h \in handlers : h.key[1] = h.cmd.key[1] /\ Backed(h.key[1], h.cmd.status)
        /\ \A w \in web : Backed(w.key[1], w.status)
        /\ \A v \in Vasps : task[v].pc = "round" =>
              \A k \in DOMAIN task[v].read : Backed(k[1], task[v].read[k].status)

\* What is about to change a row was decided on a status that it may change.
ReadInv ==
    /\ \A w \in web : w.read.status \notin Final
    /\ \A h \in handlers : ValidateStatus(h.cmd, h.read)

IInv == TypeOK /\ RowsInv /\ LiveInv /\ BackedInv /\ ReadInv

-----------------------------------------------------------------------------
(* The inductive invariant behind Agreed.                                  *)

\* Where update_status and the table of states let a status go.
Advances(s, t) == s = t \/ s = "pending" \/ (s = "valid" /\ t = "closed")

\* What a VASP does not have to send, the other one has, or has gone on from.
SentInv ==
    \A k \in Keys :
        Exists(k) /\ rows[k].sent # "no" /\ k[1] \notin raced =>
            IF Exists(Opponent(k)) THEN Advances(rows[k].status, rows[Opponent(k)].status)
            ELSE rows[k].status = "pending"

\* A command, however late, says nothing that its sender's row has not come to, and a
\* thread advances the row that it read to where the other one is.
CommandInv ==
    /\ \A c \in net :
          /\ Exists(c.key)
          /\ c.key[1] \notin raced => Advances(c.status, rows[c.key].status)
    /\ \A h \in handlers :
          /\ h.key[1] = h.cmd.key[1] /\ Exists(Opponent(h.key))
          /\ h.key[1] \notin raced => Advances(h.cmd.status, rows[Opponent(h.key)].status)
          /\ h.read # NoRow => Advances(h.read.status, h.cmd.status)
    /\ \A w \in web : Advances(w.read.status, w.status)

\* So does the task loop; and what it was told is accepted, the other VASP has.
TaskInv ==
    \A v \in Vasps :
        /\ task[v].pc = "round" =>
              \A k \in DOMAIN task[v].read :
                 /\ Exists(k)
                 /\ k[1] \notin raced => Advances(task[v].read[k].status, rows[k].status)
        /\ task[v].pc = "send" =>
              LET k == task[v].key
              IN  /\ task[v].reply = "ok" /\ k[1] \notin raced =>
                        /\ Exists(Opponent(k))
                        /\ Advances(task[v].read.status, rows[Opponent(k)].status)
                  /\ \A c \in net : c.live /\ Home(c.key) = v => c.status = task[v].read.status
                  /\ \A h \in handlers :
                        h.cmd.live /\ Home(h.cmd.key) = v => h.cmd.status = task[v].read.status

AgreeInv == IInv /\ SentInv /\ CommandInv /\ TaskInv
=============================================================================
