-------------------------- MODULE PreApprovalProofs --------------------------
(* On every instance of PreApproval, what the payee takes for valid was     *)
(* approved and a final row stays so (IInv is inductive), and two VASPs     *)
(* that have nothing more to send agree (AgreeInv is).                      *)
EXTENDS PreApproval, TLAPS

\* Everybody is at a VASP.
LEMMA HomeType == \A k : Home(k) \in Vasps
  BY DEF Home, Vasps

\* The other side of a pre-approval is a side of it.
LEMMA OpponentType == ASSUME NEW k \in Keys PROVE Opponent(k) \in Keys /\ Opponent(k)[1] = k[1]
  BY DEF Opponent, Keys, Roles

\* A key is an id and a role.
LEMMA KeyParts == ASSUME NEW k \in Keys PROVE k[1] \in Ids /\ k[2] \in Roles
  BY DEF Keys

\* No row and no task differ from the ones that are there.
LEMMA RowFacts ==
    /\ NoRow \notin Rows /\ NoRow.status = "none"
    /\ Idle.pc = "idle" /\ (\A t \in Rounds : t.pc = "round") /\ (\A t \in Sends : t.pc = "send")
    /\ "valid" \in Statuses /\ "pending" \in Statuses
    /\ Ops \subseteq Statuses
  BY DEF NoRow, Rows, Statuses, Idle, Rounds, Sends, Ops

\* A row of typed parts is typed.
LEMMA RowType ==
    ASSUME NEW s \in Statuses, NEW sent \in {"yes", "no", "null"}, NEW known \in BOOLEAN
    PROVE  [status |-> s, sent |-> sent, known |-> known] \in Rows
  BY DEF Rows

\* The parts of a row are typed.
LEMMA RowParts ==
    ASSUME NEW row \in Rows
    PROVE  row.status \in Statuses /\ row.sent \in {"yes", "no", "null"} /\ row.known \in BOOLEAN
  BY DEF Rows

\* Which VASP somebody belongs to never changes.
LEMMA LocalStep == [Next]_vars => /\ local' = local
                                  /\ \A k : Home(k)' = Home(k)
  <1>1. [Next]_vars => local' = local
    BY DEF Next, vars, threads, CommitFundsPullPreApproval, CreateAndApprove, Expiration,
           UpdateStatus, UpdateCommand, TaskStep, ProcessRequests, CommandFailed, SendCommand,
           CommandSent, SendTimeout, Restart, HandleCommand, HandleCommit
  <1> QED  BY <1>1 DEF Home

\* A field of a row that is there is written in place.
LEMMA WriteType ==
    ASSUME NEW k \in Keys, rows \in [Keys -> Rows \cup {NoRow}], NEW row \in Rows
    PROVE  /\ [rows EXCEPT ![k] = row] \in [Keys -> Rows \cup {NoRow}]
           /\ [rows EXCEPT ![k] = row][k] = row
           /\ \A j \in Keys \ {k} : [rows EXCEPT ![k] = row][j] = rows[j]
  OBVIOUS

\* A round over rows that are there is typed.
LEMMA RoundType ==
    ASSUME NEW todo \in SUBSET Keys, NEW known \in SUBSET Keys, \A k \in known : rows[k] \in Rows
    PROVE  Round(todo, known) \in Rounds
  <1>1. [k \in known |-> rows[k]] \in [known -> Rows]
    OBVIOUS
  <1>2. [k \in known |-> rows[k]] \in UNION {[S -> Rows] : S \in SUBSET Keys}
    BY <1>1
  <1> QED  BY <1>2 DEF Round, Rounds

\* What a round read is about keys and rows.
LEMMA RoundParts ==
    ASSUME NEW t \in Rounds
    PROVE  /\ t.todo \in SUBSET Keys /\ DOMAIN t.read \subseteq Keys
           /\ \A k \in DOMAIN t.read : t.read[k] \in Rows
  <1>1. t.read \in UNION {[S -> Rows] : S \in SUBSET Keys}
    BY DEF Rounds
  <1>2. PICK S \in SUBSET Keys : t.read \in [S -> Rows]
    BY <1>1
  <1> QED  BY <1>2 DEF Rounds

\* The task of a VASP by its place.
LEMMA TaskParts ==
    ASSUME TypeOK, NEW v \in Vasps
    PROVE  /\ task[v] \in Rounds \cup Sends \cup {Idle}
           /\ task[v].pc = "round" => task[v] \in Rounds
           /\ task[v].pc = "send" => task[v] \in Sends
  BY RowFacts DEF TypeOK

\* A command that got its reply is still a send.
LEMMA SendType ==
    ASSUME NEW t \in Sends, NEW r \in {"waiting", "ok", "fail"}
    PROVE  [t EXCEPT !.reply = r] \in Sends
  BY DEF Sends

\* A command nobody waits for keeps its content.
LEMMA AbandonType ==
    ASSUME NEW c \in Commands, NEW v
    PROVE  /\ Abandon(c, v) \in Commands /\ Abandon(c, v).key = c.key
           /\ Abandon(c, v).status = c.status
           /\ Abandon(c, v).live => c.live /\ Abandon(c, v) = c /\ Home(c.key) # v
  BY DEF Abandon, Commands

\* The parts of an inbound command's handler are typed.
LEMMA HandlerParts ==
    ASSUME NEW h \in Handlers
    PROVE  h.cmd \in Commands /\ h.key \in Keys /\ h.read \in Rows \cup {NoRow}
           /\ h.cmd.key \in Keys /\ h.cmd.status \in Statuses /\ h.cmd.live \in BOOLEAN
  BY DEF Handlers, Commands

\* The reply of a command that somebody waits for goes to the task that sends it.
LEMMA ReplyType ==
    ASSUME TypeOK, NEW cmd \in Commands, cmd.live => Waiting(cmd),
           NEW r \in {"ok", "fail"}, Reply(cmd, r)
    PROVE  /\ task' \in [Vasps -> Rounds \cup Sends \cup {Idle}]
           /\ \A v \in Vasps : task'[v] # task[v] =>
                 /\ cmd.live /\ v = Home(cmd.key) /\ task[v] \in Sends
                 /\ task'[v] = [task[v] EXCEPT !.reply = r]
  <1>1. CASE cmd.live
    <2>1. task[Home(cmd.key)] \in Sends /\ Home(cmd.key) \in Vasps
      BY <1>1, HomeType, TaskParts DEF Waiting
    <2>2. task' = [task EXCEPT ![Home(cmd.key)] = [task[Home(cmd.key)] EXCEPT !.reply = r]]
      BY <1>1 DEF Reply, TypeOK
    <2> QED  BY <1>1, <2>1, <2>2, SendType DEF TypeOK
  <1>2. CASE ~cmd.live
    BY <1>2 DEF Reply, TypeOK
  <1> QED  BY <1>1, <1>2

\* What an inbound command or a user's change writes to a row.
LEMMA HandleRow ==
    ASSUME TypeOK, RowsInv, NEW h \in handlers, HandleCommit(h)
    PROVE  \/ UNCHANGED rows
           \/ \E row \in Rows : /\ rows' = [rows EXCEPT ![h.key] = row]
                                /\ row.status \in {rows[h.key].status, h.cmd.status}
  <1>a. h \in Handlers /\ h.key \in Keys /\ h.cmd.status \in Statuses
    BY HandlerParts DEF TypeOK
  <1>1. CASE h.read # NoRow
    <2> DEFINE old == rows[h.key]
               row == [old EXCEPT
                  !.status = IF h.read.status = h.cmd.status THEN @ ELSE h.cmd.status,
                  !.sent = IF h.read.sent = "null" THEN @ ELSE "null",
                  !.known = TRUE]
    <2>1. old \in Rows
      BY <1>1, <1>a DEF TypeOK, RowsInv, Exists
    <2>2. row \in Rows /\ row.status \in {old.status, h.cmd.status}
      BY <2>1, <1>a DEF Rows
    <2>3. rows' = [rows EXCEPT ![h.key] = row]
      BY <1>1, <1>a, <2>1 DEF HandleCommit, TypeOK
    <2> QED  BY <2>2, <2>3
  <1>2. CASE h.read = NoRow
    <2> DEFINE row == [status |-> h.cmd.status, known |-> TRUE, sent |-> "no"]
    <2>1. row \in Rows
      BY <1>a DEF Rows
    <2>2. rows' = rows \/ rows' = [rows EXCEPT ![h.key] = row]
      BY <1>2 DEF HandleCommit
    <2> QED  BY <2>1, <2>2
  <1> QED  BY <1>1, <1>2

\* A user's change writes one row and gives it the chosen status.
LEMMA UpdateRow ==
    ASSUME TypeOK, RowsInv, NEW w \in web, UpdateCommand(w)
    PROVE  \E row \in Rows : rows' = [rows EXCEPT ![w.key] = row] /\ row.status = w.status
  <1>a. w.key \in Keys /\ w.status \in Statuses /\ rows[w.key] \in Rows
    BY RowFacts DEF TypeOK, RowsInv, Exists, Updates
  <1> DEFINE row == [rows[w.key] EXCEPT !.status = w.status,
                            !.sent = IF w.read.sent = "no" THEN @ ELSE "no"]
  <1>1. row \in Rows /\ row.status = w.status
    BY <1>a DEF Rows
  <1>2. rows' = [rows EXCEPT ![w.key] = row]
    BY <1>a DEF UpdateCommand, TypeOK
  <1> QED  BY <1>1, <1>2

\* An answer marks the sent row and keeps its status.
LEMMA SentRow ==
    ASSUME TypeOK, RowsInv, NEW v \in Vasps, CommandSent(v)
    PROVE  \E row \in Rows : /\ rows' = [rows EXCEPT ![task[v].key] = row]
                             /\ row.status = rows[task[v].key].status
  <1>a. task[v] \in Sends /\ task[v].key \in Keys /\ rows[task[v].key] \in Rows
    BY TaskParts DEF TypeOK, RowsInv, Exists, Sends, CommandSent
  <1> DEFINE row == [rows[task[v].key] EXCEPT !.sent = "yes"]
  <1>1. row \in Rows /\ row.status = rows[task[v].key].status
    BY <1>a DEF Rows
  <1>2. rows' = [rows EXCEPT ![task[v].key] = row]
    BY <1>a DEF CommandSent, TypeOK
  <1> QED  BY <1>1, <1>2

\* Rows keep their type and are never deleted.
LEMMA RowsKept ==
    ASSUME TypeOK, RowsInv, [Next]_vars
    PROVE  /\ rows' \in [Keys -> Rows \cup {NoRow}]
           /\ \A k \in Keys : Exists(k) => Exists(k)'
  <1> USE DEF Exists
  <1>w. ASSUME NEW k \in Keys, NEW row \in Rows, rows' = [rows EXCEPT ![k] = row]
        PROVE  /\ rows' \in [Keys -> Rows \cup {NoRow}]
               /\ \A j \in Keys : rows[j] # NoRow => rows'[j] # NoRow
    BY <1>w, WriteType, RowFacts DEF TypeOK
  <1>1. ASSUME NEW f \in Ids, CommitFundsPullPreApproval(f)
        PROVE  \E k \in Keys, row \in Rows : rows' = [rows EXCEPT ![k] = row]
    <2>1. PICK known \in BOOLEAN :
            rows' = [rows EXCEPT ![<<f, "payee">>] =
                       [status |-> "pending", known |-> known,
                        sent |-> IF known THEN "no" ELSE "yes"]]
      BY <1>1 DEF CommitFundsPullPreApproval
    <2>2. [status |-> "pending", known |-> known,
           sent |-> IF known THEN "no" ELSE "yes"] \in Rows
      BY DEF Rows, Statuses
    <2> QED  BY <2>1, <2>2 DEF Keys, Roles
  <1>2. ASSUME NEW f \in Ids, CreateAndApprove(f)
        PROVE  \E k \in Keys, row \in Rows : rows' = [rows EXCEPT ![k] = row]
    <2>1. [status |-> "valid", known |-> TRUE, sent |-> "no"] \in Rows
      BY DEF Rows, Statuses
    <2>2. <<f, "payer">> \in Keys
      BY DEF Keys, Roles
    <2> QED  BY <1>2, <2>1, <2>2 DEF CreateAndApprove
  <1>3. ASSUME NEW w \in web, UpdateCommand(w)
        PROVE  \E k \in Keys, row \in Rows : rows' = [rows EXCEPT ![k] = row]
    BY <1>3, UpdateRow DEF TypeOK, Updates
  <1>4. ASSUME NEW v \in Vasps, CommandSent(v)
        PROVE  \E k \in Keys, row \in Rows : rows' = [rows EXCEPT ![k] = row]
    <2>1. task[v].key \in Keys
      BY <1>4, TaskParts DEF Sends, CommandSent
    <2> QED  BY <1>4, <2>1, SentRow
  <1>5. ASSUME NEW h \in handlers, HandleCommit(h)
        PROVE  \/ UNCHANGED rows
               \/ \E k \in Keys, row \in Rows : rows' = [rows EXCEPT ![k] = row]
    BY <1>5, HandleRow, HandlerParts DEF TypeOK
  <1>6. \/ UNCHANGED rows
        \/ \E k \in Keys, row \in Rows : rows' = [rows EXCEPT ![k] = row]
    <2>1. \/ UNCHANGED rows
          \/ \E f \in Ids : CommitFundsPullPreApproval(f) \/ CreateAndApprove(f)
          \/ \E w \in web : UpdateCommand(w)
          \/ \E v \in Vasps : CommandSent(v)
          \/ \E h \in handlers : HandleCommit(h)
      BY DEF Next, vars, TaskStep, Expiration, UpdateStatus, ProcessRequests, CommandFailed,
             SendCommand, SendTimeout, Restart, HandleCommand
    <2> QED  BY <2>1, <1>1, <1>2, <1>3, <1>4, <1>5
  <1> QED  BY <1>6, <1>w DEF TypeOK

\* A round that goes on or starts is about rows that are there.
LEMMA TodoRows ==
    ASSUME TypeOK, RowsInv, NEW v \in Vasps, task[v].pc \in {"round", "send"}
    PROVE  /\ task[v].todo \in SUBSET Keys
           /\ \A k \in task[v].todo : rows[k] \in Rows
  <1>1. task[v].todo \in SUBSET Keys
    BY TaskParts, RoundParts DEF Sends
  <1> QED  BY <1>1 DEF TypeOK, RowsInv, Exists

\* The loop's steps keep the types of tasks and commands.
LEMMA TaskStepType ==
    ASSUME TypeOK, RowsInv, NEW v \in Vasps, TaskStep(v)
    PROVE  /\ task' \in [Vasps -> Rounds \cup Sends \cup {Idle}]
           /\ net' \subseteq Commands
  <1>1. CASE ProcessRequests(v)
    <2> DEFINE todo == {k \in Keys : Home(k) = v /\ rows[k] # NoRow /\ rows[k].sent = "no"}
    <2>1. Round(todo, todo) \in Rounds
      BY RoundType DEF TypeOK
    <2> QED  BY <1>1, <2>1 DEF ProcessRequests, TypeOK
  <1>2. CASE CommandSent(v)
    <2>1. task[v].todo \in SUBSET Keys
      BY <1>2, TodoRows DEF CommandSent
    <2>2. Round(task[v].todo, {}) \in Rounds
      BY <2>1, RoundType
    <2> QED  BY <1>2, <2>2 DEF CommandSent, TypeOK
  <1>3. CASE CommandFailed(v)
    BY <1>3 DEF CommandFailed, TypeOK
  <1>4. ASSUME NEW k \in Keys, SendCommand(v, k)
        PROVE  /\ task' \in [Vasps -> Rounds \cup Sends \cup {Idle}]
               /\ net' \subseteq Commands
    <2> DEFINE row == IF k \in DOMAIN task[v].read THEN task[v].read[k] ELSE rows[k]
    <2>1. row \in Rows
      BY <1>4, TodoRows, TaskParts, RoundParts DEF SendCommand
    <2>2. [key |-> k, status |-> row.status, live |-> TRUE] \in Commands
      BY <2>1, RowParts DEF Commands
    <2>3. [pc |-> "send", todo |-> task[v].todo \ {k}, key |-> k, read |-> row,
           reply |-> "waiting"] \in Sends
      BY <1>4, <2>1, TodoRows DEF SendCommand, Sends
    <2>4. CASE row.known
      BY <1>4, <2>2, <2>3, <2>4 DEF SendCommand, TypeOK
    <2>5. CASE ~row.known
      BY <1>4, <2>5 DEF SendCommand, TypeOK
    <2> QED  BY <2>4, <2>5
  <1> QED  BY <1>1, <1>2, <1>3, <1>4 DEF TaskStep, ProcessRequests, CommandSent, CommandFailed,
                TypeOK

\* So does giving up on an answer.
LEMMA AbandonedType ==
    ASSUME TypeOK, NEW v, Abandoned(v)
    PROVE  net' \subseteq Commands /\ handlers' \subseteq Handlers
  <1>1. net' \subseteq Commands
    BY AbandonType DEF Abandoned, TypeOK
  <1>2. ASSUME NEW h \in handlers PROVE [h EXCEPT !.cmd = Abandon(h.cmd, v)] \in Handlers
    BY HandlerParts, AbandonType DEF TypeOK, Handlers
  <1> QED  BY <1>1, <1>2 DEF Abandoned

\* Every step keeps the types.
LEMMA TypeStep == TypeOK /\ RowsInv /\ LiveInv /\ [Next]_vars => TypeOK'
  <1> SUFFICES ASSUME TypeOK, RowsInv, LiveInv, [Next]_vars PROVE TypeOK'
    OBVIOUS
  <1> USE DEF threads, history
  <1>a. rows' \in [Keys -> Rows \cup {NoRow}]
    BY RowsKept
  <1>1. ASSUME NEW f \in Ids, CommitFundsPullPreApproval(f) \/ CreateAndApprove(f) \/ Expiration(f)
        PROVE  TypeOK'
    BY <1>1, <1>a DEF TypeOK, CommitFundsPullPreApproval, CreateAndApprove, Expiration, Fault
  <1>2. ASSUME NEW u \in Keys, NEW op \in Ops, UpdateStatus(u, op) PROVE TypeOK'
    <2>1. PICK k \in {u, Opponent(u)} :
            /\ rows[k] # NoRow
            /\ web' = web \cup {[key |-> k, status |-> op, read |-> rows[k]]}
      BY <1>2 DEF UpdateStatus
    <2>2. [key |-> k, status |-> op, read |-> rows[k]] \in Updates
      BY <2>1, OpponentType DEF TypeOK, Updates
    <2>3. web' \subseteq Updates
      BY <2>1, <2>2 DEF TypeOK
    <2>4. approved' \subseteq Ids /\ webs' \in Nat
      BY <1>2, KeyParts DEF UpdateStatus, TypeOK
    <2> QED  BY <1>2, <1>a, <2>3, <2>4 DEF TypeOK, UpdateStatus
  <1>3. ASSUME NEW w \in web, UpdateCommand(w) PROVE TypeOK'
    <2>1. raced' \subseteq Ids /\ web' \subseteq Updates
      BY <1>3, KeyParts DEF UpdateCommand, TypeOK, Updates
    <2> QED  BY <1>3, <1>a, <2>1 DEF TypeOK, UpdateCommand
  <1>4. ASSUME NEW v \in Vasps, TaskStep(v) PROVE TypeOK'
    <2>1. raced' \subseteq Ids
      <3>1. CASE CommandSent(v)
        BY <3>1, TaskParts, KeyParts DEF CommandSent, TypeOK, Sends
      <3> QED  BY <1>4, <3>1 DEF TaskStep, TypeOK, ProcessRequests, CommandFailed, SendCommand
    <2>2. UNCHANGED <<local, handlers, web, late, approved, webs, faults>>
      BY <1>4 DEF TaskStep, ProcessRequests, CommandFailed, SendCommand, CommandSent
    <2> QED  BY <1>4, <1>a, <2>1, <2>2, TaskStepType DEF TypeOK
  <1>5. ASSUME NEW v \in Vasps, SendTimeout(v) PROVE TypeOK'
    <2>1. net' \subseteq Commands /\ handlers' \subseteq Handlers
      BY <1>5, AbandonedType DEF SendTimeout
    <2> QED  BY <1>5, <1>a, <2>1 DEF TypeOK, SendTimeout, Fault
  <1>6. ASSUME NEW v \in Vasps, Restart(v) PROVE TypeOK'
    <2> DEFINE lost == {h \in handlers : Home(h.key) = v}
               waits(u) == \E h \in lost : h.cmd.live /\ Home(h.cmd.key) = u
    <2>1. ASSUME NEW u \in Vasps, waits(u) PROVE task[u] \in Sends
      BY <2>1, TaskParts DEF LiveInv, Waiting
    <2>2. task' = [u \in Vasps |-> IF u = v THEN Idle
                                    ELSE IF waits(u) THEN [task[u] EXCEPT !.reply = "fail"]
                                    ELSE task[u]]
      BY <1>6 DEF Restart
    <2>3. ASSUME NEW u \in Vasps PROVE task'[u] \in Rounds \cup Sends \cup {Idle}
      <3>1. CASE u # v /\ waits(u)
        <4>1. [task[u] EXCEPT !.reply = "fail"] \in Sends
          BY <3>1, <2>1, SendType
        <4> QED  BY <3>1, <2>2, <4>1
      <3>2. CASE u = v \/ ~waits(u)
        BY <3>2, <2>2 DEF TypeOK
      <3> QED  BY <3>1, <3>2
    <2>4. task' \in [Vasps -> Rounds \cup Sends \cup {Idle}]
      BY <2>2, <2>3
    <2>5. net' \subseteq Commands
      BY <1>6, AbandonType DEF Restart, TypeOK
    <2>6. ASSUME NEW h \in handlers PROVE [h EXCEPT !.cmd = Abandon(h.cmd, v)] \in Handlers
      BY HandlerParts, AbandonType DEF TypeOK, Handlers
    <2>7. handlers' \subseteq Handlers
      BY <1>6, <2>6 DEF Restart
    <2> QED  BY <1>6, <1>a, <2>4, <2>5, <2>7 DEF TypeOK, Restart, Fault
  <1>7. ASSUME NEW cmd \in net, HandleCommand(cmd) PROVE TypeOK'
    <2> DEFINE f == cmd.key[1]
               role == ReduceRole(Home(Opponent(cmd.key)), cmd)
               h == [cmd |-> cmd, key |-> <<f, role>>, read |-> rows[<<f, role>>]]
               accepts == f \notin late /\ role # "error" /\ ValidateStatus(cmd, rows[<<f, role>>])
    <2>1. cmd \in Commands /\ cmd.key \in Keys /\ f \in Ids
      BY KeyParts DEF TypeOK, Commands
    <2>2. CASE accepts
      <3>1. role \in Roles
        BY <2>2 DEF ReduceRole, Roles
      <3>2. h \in Handlers
        BY <2>1, <3>1 DEF Handlers, Keys, TypeOK
      <3>3. handlers' = handlers \cup {h} /\ UNCHANGED task
        BY <1>7, <2>2 DEF HandleCommand
      <3> QED  BY <1>7, <1>a, <3>2, <3>3 DEF TypeOK, HandleCommand
    <2>3. CASE ~accepts
      <3>1. Reply(cmd, "fail") /\ UNCHANGED handlers
        BY <1>7, <2>3 DEF HandleCommand
      <3>2. task' \in [Vasps -> Rounds \cup Sends \cup {Idle}]
        BY <1>7, <2>1, <3>1, ReplyType DEF LiveInv
      <3> QED  BY <1>7, <1>a, <3>1, <3>2 DEF TypeOK, HandleCommand
    <2> QED  BY <2>2, <2>3
  <1>8. ASSUME NEW h \in handlers, HandleCommit(h) PROVE TypeOK'
    <2>1. h.cmd \in Commands /\ h.key \in Keys
      BY HandlerParts DEF TypeOK
    <2>2. \E r \in {"ok", "fail"} : Reply(h.cmd, r)
      BY <1>8 DEF HandleCommit
    <2>3. task' \in [Vasps -> Rounds \cup Sends \cup {Idle}]
      BY <2>1, <2>2, ReplyType DEF LiveInv
    <2>4. raced' \subseteq Ids
      BY <1>8, <2>1, KeyParts DEF HandleCommit, TypeOK
    <2> QED  BY <1>8, <1>a, <2>3, <2>4 DEF TypeOK, HandleCommit
  <1>9. CASE UNCHANGED vars
    BY <1>9 DEF TypeOK, vars
  <1> QED  BY <1>1, <1>2, <1>3, <1>4, <1>5, <1>6, <1>7, <1>8, <1>9 DEF Next

\* Every step keeps the rows that tasks, handlers and requests are about.
LEMMA RowsStep == TypeOK /\ RowsInv /\ LiveInv /\ [Next]_vars => RowsInv'
  <1> SUFFICES ASSUME TypeOK, RowsInv, LiveInv, [Next]_vars PROVE RowsInv'
    OBVIOUS
  <1> USE DEF threads, history
  <1>a. /\ \A k \in Keys : Exists(k) => Exists(k)'
        /\ \A h \in handlers : h.key \in Keys
        /\ \A w \in web : w.key \in Keys
    BY RowsKept, HandlerParts DEF TypeOK, Updates
  <1>h. ASSUME NEW h \in handlers', \/ h \in handlers
                                    \/ \E g \in handlers, c \in Commands : h = [g EXCEPT !.cmd = c]
                                    \/ h.read = rows[h.key] /\ UNCHANGED rows
        PROVE  h.read # NoRow => Exists(h.key)'
    BY <1>h, <1>a DEF RowsInv, Exists, TypeOK, Handlers
  <1>t. ASSUME NEW v \in Vasps, task'[v].pc \in {"round", "send"},
               task[v].pc \in {"round", "send"}, task'[v].todo \subseteq task[v].todo
        PROVE  \A k \in task'[v].todo : Home(k) = v /\ rows'[k] # NoRow
    BY <1>t, <1>a, TodoRows DEF RowsInv, Exists
  <1>s. ASSUME NEW v \in Vasps, task[v].pc = "send", task'[v].key = task[v].key
        PROVE  Home(task'[v].key) = v /\ rows'[task'[v].key] # NoRow
    BY <1>s, <1>a, TaskParts DEF RowsInv, Sends, Exists
  <1>r. ASSUME NEW v \in Vasps,
               task'[v] = task[v] \/ task'[v].pc = "idle"
                 \/ \E r : task[v] \in Sends /\ task'[v] = [task[v] EXCEPT !.reply = r]
        PROVE  /\ task'[v].pc \in {"round", "send"} =>
                     \A k \in task'[v].todo : Home(k) = v /\ rows'[k] # NoRow
               /\ task'[v].pc = "send" => Home(task'[v].key) = v /\ rows'[task'[v].key] # NoRow
    <2>1. CASE task'[v] = task[v]
      BY <2>1, <1>t, <1>s
    <2>2. ASSUME NEW r, task[v] \in Sends, task'[v] = [task[v] EXCEPT !.reply = r]
          PROVE  /\ task[v].pc = "send" /\ task'[v].pc = "send"
                 /\ task'[v].todo = task[v].todo /\ task'[v].key = task[v].key
      BY <2>2 DEF Sends
    <2> QED  BY <1>r, <2>1, <2>2, <1>t, <1>s
  <1>1. \A h \in handlers' : h.read # NoRow => Exists(h.key)'
    <2>1. ASSUME NEW v \in Vasps, NEW g \in handlers
          PROVE  \E c \in Commands : [g EXCEPT !.cmd = Abandon(g.cmd, v)] = [g EXCEPT !.cmd = c]
      BY HandlerParts, AbandonType DEF TypeOK
    <2>2. ASSUME NEW v \in Vasps, SendTimeout(v) \/ Restart(v), NEW h \in handlers'
          PROVE  \E g \in handlers, c \in Commands : h = [g EXCEPT !.cmd = c]
      <3>1. h \in {[g EXCEPT !.cmd = Abandon(g.cmd, v)] : g \in handlers}
        BY <2>2 DEF SendTimeout, Restart, Abandoned
      <3>2. PICK g \in handlers : h = [g EXCEPT !.cmd = Abandon(g.cmd, v)]
        BY <3>1
      <3> QED  BY <3>2, <2>1
    <2>3. ASSUME NEW cmd \in net, HandleCommand(cmd), NEW h \in handlers'
          PROVE  h \in handlers \/ (h.read = rows[h.key] /\ UNCHANGED rows)
      BY <2>3 DEF HandleCommand
    <2>4. \/ \E v \in Vasps : SendTimeout(v) \/ Restart(v)
          \/ \E cmd \in net : HandleCommand(cmd)
          \/ handlers' \subseteq handlers
      BY DEF Next, vars, CommitFundsPullPreApproval, CreateAndApprove, Expiration, UpdateStatus,
             UpdateCommand, TaskStep, ProcessRequests, CommandFailed, SendCommand, CommandSent,
             HandleCommit
    <2> QED  BY <2>2, <2>3, <2>4, <1>h
  <1>2. \A w \in web' : Exists(w.key)'
    <2>1. ASSUME NEW u \in Keys, NEW op \in Ops, UpdateStatus(u, op), NEW w \in web'
          PROVE  w \in web \/ (Exists(w.key) /\ w.key \in Keys)
      BY <2>1, OpponentType DEF UpdateStatus, Exists
    <2>2. \/ \E u \in Keys, op \in Ops : UpdateStatus(u, op)
          \/ web' \subseteq web
      BY DEF Next, vars, CommitFundsPullPreApproval, CreateAndApprove, Expiration, UpdateCommand,
             TaskStep, ProcessRequests, CommandFailed, SendCommand, CommandSent, SendTimeout,
             Restart, HandleCommand, HandleCommit
    <2> QED  BY <2>1, <2>2, <1>a DEF RowsInv
  <1>3. ASSUME NEW v \in Vasps
        PROVE  /\ task'[v].pc \in {"round", "send"} =>
                     \A k \in task'[v].todo : Home(k) = v /\ rows'[k] # NoRow
               /\ task'[v].pc = "send" => Home(task'[v].key) = v /\ rows'[task'[v].key] # NoRow
    <2>1. CASE ProcessRequests(v)
      <3> DEFINE todo == {k \in Keys : Home(k) = v /\ rows[k] # NoRow /\ rows[k].sent = "no"}
      <3>1. task'[v] = Round(todo, todo)
        BY <2>1 DEF ProcessRequests, TypeOK
      <3>2. task'[v].pc = "round" /\ task'[v].todo = todo
        BY <3>1 DEF Round
      <3> QED  BY <3>2, <1>a DEF Exists
    <2>2. ASSUME NEW k \in Keys, SendCommand(v, k) PROVE <1>3!2
      <3>1. \/ task'[v] = Idle
            \/ /\ task'[v].pc = "send" /\ task'[v].key = k
               /\ task'[v].todo = task[v].todo \ {k}
        BY <2>2 DEF SendCommand, TypeOK
      <3>2. Home(k) = v /\ rows'[k] # NoRow /\ task[v].pc = "round"
        BY <2>2, <1>a DEF SendCommand, RowsInv, Exists
      <3> QED  BY <3>1, <3>2, <1>t, RowFacts
    <2>3. CASE CommandSent(v)
      <3>1. task'[v] = IF task[v].todo = {} THEN Idle ELSE Round(task[v].todo, {})
        BY <2>3 DEF CommandSent, TypeOK
      <3>2. CASE task[v].todo = {}
        BY <3>1, <3>2, RowFacts
      <3>3. CASE task[v].todo # {}
        <4>1. task'[v].pc = "round" /\ task'[v].todo = task[v].todo /\ task[v].pc = "send"
          BY <2>3, <3>1, <3>3 DEF Round, CommandSent
        <4> QED  BY <4>1, <1>t
      <3> QED  BY <3>2, <3>3
    <2>4. ASSUME NEW cmd \in net, HandleCommand(cmd) PROVE <1>3!2
      <3>1. cmd \in Commands /\ (cmd.live => Waiting(cmd))
        BY DEF TypeOK, LiveInv
      <3>2. Reply(cmd, "fail") \/ UNCHANGED task
        BY <2>4 DEF HandleCommand
      <3> QED  BY <3>1, <3>2, ReplyType, <1>r
    <2>5. ASSUME NEW h \in handlers, HandleCommit(h) PROVE <1>3!2
      <3>1. h.cmd \in Commands /\ (h.cmd.live => Waiting(h.cmd))
        BY HandlerParts DEF TypeOK, LiveInv
      <3>2. \E r \in {"ok", "fail"} : Reply(h.cmd, r)
        BY <2>5 DEF HandleCommit
      <3> QED  BY <3>1, <3>2, ReplyType, <1>r
    <2>6. ASSUME NEW u \in Vasps, Restart(u) PROVE <1>3!2
      <3> DEFINE lost == {h \in handlers : Home(h.key) = u}
                 waits(x) == \E h \in lost : h.cmd.live /\ Home(h.cmd.key) = x
      <3>1. waits(v) => task[v] \in Sends
        BY TaskParts DEF LiveInv, Waiting
      <3>2. task'[v] = IF v = u THEN Idle ELSE IF waits(v) THEN [task[v] EXCEPT !.reply = "fail"]
                       ELSE task[v]
        BY <2>6 DEF Restart
      <3> QED  BY <3>1, <3>2, <1>r, RowFacts
    <2>7. CASE CommandFailed(v) \/ SendTimeout(v)
      BY <2>7, <1>r, RowFacts DEF CommandFailed, SendTimeout, TypeOK
    <2>8. \/ ProcessRequests(v) \/ CommandSent(v) \/ CommandFailed(v) \/ SendTimeout(v)
          \/ \E k \in Keys : SendCommand(v, k)
          \/ \E cmd \in net : HandleCommand(cmd)
          \/ \E h \in handlers : HandleCommit(h)
          \/ \E u \in Vasps : Restart(u)
          \/ task'[v] = task[v]
      <3>1. \/ \E u \in Vasps : TaskStep(u) \/ SendTimeout(u) \/ Restart(u)
            \/ \E cmd \in net : HandleCommand(cmd)
            \/ \E h \in handlers : HandleCommit(h)
            \/ UNCHANGED task
        BY DEF Next, vars, CommitFundsPullPreApproval, CreateAndApprove, Expiration,
               UpdateStatus, UpdateCommand
      <3>2. ASSUME NEW u \in Vasps, TaskStep(u) \/ SendTimeout(u), u # v
            PROVE  task'[v] = task[v]
        <4>1. CASE SendTimeout(u)
          BY <3>2, <4>1 DEF SendTimeout, TypeOK
        <4>2. CASE TaskStep(u)
          BY <3>2, <4>2 DEF TaskStep, TypeOK, ProcessRequests, CommandFailed, SendCommand,
                            CommandSent
        <4> QED  BY <3>2, <4>1, <4>2
      <3> QED  BY <3>1, <3>2 DEF TaskStep
    <2> QED  BY <2>1, <2>2, <2>3, <2>4, <2>5, <2>6, <2>7, <2>8, <1>r
  <1> QED  BY <1>1, <1>2, <1>3, LocalStep DEF RowsInv, Exists

\* A task that does not move waits for what it waited for.
LEMMA WaitingKept ==
    ASSUME [Next]_vars, NEW c, Waiting(c), task'[Home(c.key)] = task[Home(c.key)]
    PROVE  Waiting(c)'
  BY LocalStep DEF Waiting

\* Steps that add no command somebody waits for keep LiveInv.
LEMMA LiveKept ==
    ASSUME LiveInv, [Next]_vars,
           \A c \in net' : c.live => c \in net /\ Waiting(c)',
           \A h \in handlers' : h.cmd.live => h \in handlers /\ Waiting(h.cmd)'
    PROVE  LiveInv'
  BY LocalStep DEF LiveInv

\* Every step keeps LiveInv.
LEMMA LiveStep == TypeOK /\ RowsInv /\ LiveInv /\ [Next]_vars => LiveInv'
  <1> SUFFICES ASSUME TypeOK, RowsInv, LiveInv, [Next]_vars PROVE LiveInv'
    OBVIOUS
  <1> USE DEF threads, history
  <1>a. /\ \A c \in net : c \in Commands
        /\ \A h \in handlers : h \in Handlers /\ h.cmd \in Commands
        /\ \A c \in net : c.live => Waiting(c)
        /\ \A h \in handlers : h.cmd.live => Waiting(h.cmd)
    BY HandlerParts DEF TypeOK, LiveInv
  <1>1. ASSUME UNCHANGED <<task, net, handlers>> PROVE LiveInv'
    BY <1>1, LocalStep DEF LiveInv, Waiting
  \* Somebody whose task is not waiting waits for nothing.
  <1>2. ASSUME NEW v \in Vasps, net' = net, handlers' = handlers,
               ~(task[v].pc = "send" /\ task[v].reply = "waiting"),
               \A u \in Vasps \ {v} : task'[u] = task[u]
        PROVE  LiveInv'
    <2>1. \A c \in net : c.live => Waiting(c)'
      BY <1>2, <1>a, HomeType, WaitingKept DEF Waiting
    <2>2. \A h \in handlers : h.cmd.live => Waiting(h.cmd)'
      BY <1>2, <1>a, HomeType, WaitingKept DEF Waiting
    <2> QED  BY <1>2, <2>1, <2>2, LiveKept
  <1>3. ASSUME NEW v \in Vasps, NEW k \in Keys, SendCommand(v, k) PROVE LiveInv'
    <2>r. PICK row : row = IF k \in DOMAIN task[v].read THEN task[v].read[k] ELSE rows[k]
      OBVIOUS
    <2> DEFINE cmd == [key |-> k, status |-> row.status, live |-> TRUE]
    <2>0. task[v].pc = "round" /\ handlers' = handlers /\ \A u \in Vasps \ {v} : task'[u] = task[u]
      BY <1>3 DEF SendCommand, TypeOK
    <2>1. CASE ~row.known
      BY <1>3, <2>r, <2>0, <2>1, <1>2 DEF SendCommand
    <2>2. CASE row.known
      <3>1. net' = net \cup {cmd}
        BY <1>3, <2>r, <2>2 DEF SendCommand
      <3>2. Home(cmd.key) = v /\ Waiting(cmd)'
        <4>1. Home(k) = v
          BY <1>3 DEF SendCommand, RowsInv
        <4>2. task'[v].pc = "send" /\ task'[v].key = k /\ task'[v].reply = "waiting"
          BY <1>3, <2>r, <2>2 DEF SendCommand, TypeOK
        <4> QED  BY <4>1, <4>2, LocalStep DEF Waiting
      <3>3. /\ \A c \in net : c.live => Home(c.key) # v /\ Waiting(c)'
            /\ \A h \in handlers : h.cmd.live => Home(h.cmd.key) # v /\ Waiting(h.cmd)'
        BY <2>0, <1>a, HomeType, WaitingKept DEF Waiting
      <3>4. /\ \A c \in net' : c = cmd \/ c \in net
            /\ handlers' = handlers
        BY <2>0, <3>1
      <3>5. /\ \A c \in net' : c.live => Waiting(c)'
            /\ \A h \in handlers' : h.cmd.live => Waiting(h.cmd)'
        BY <3>2, <3>3, <3>4
      <3>6. \A c, d \in net' : c.live /\ d.live /\ Home(c.key) = Home(d.key) => c = d
        BY <3>2, <3>3, <3>4 DEF LiveInv
      <3>7. /\ \A h, i \in handlers' :
                   h.cmd.live /\ i.cmd.live /\ Home(h.cmd.key) = Home(i.cmd.key) => h = i
            /\ \A c \in net', h \in handlers' :
                   c.live /\ h.cmd.live => Home(c.key) # Home(h.cmd.key)
        BY <3>2, <3>3, <3>4 DEF LiveInv
      <3> QED  BY <3>5, <3>6, <3>7, LocalStep DEF LiveInv
    <2> QED  BY <2>1, <2>2
  <1>4. ASSUME NEW v \in Vasps, SendTimeout(v) \/ Restart(v) PROVE LiveInv'
    <2> DEFINE lost == {h \in handlers : Home(h.key) = v}
               waits(u) == \E h \in lost : h.cmd.live /\ Home(h.cmd.key) = u
    <2>1. ASSUME NEW c \in net', c.live
          PROVE  c \in net /\ Home(c.key) # v /\ Waiting(c)
      <3>1. c \in {Abandon(d, v) : d \in net}
        BY <1>4 DEF SendTimeout, Restart, Abandoned
      <3>2. PICK d \in net : c = Abandon(d, v)
        BY <3>1
      <3> QED  BY <2>1, <3>2, <1>a, AbandonType
    <2>2. ASSUME NEW h \in handlers', h.cmd.live
          PROVE  /\ h \in handlers /\ Home(h.cmd.key) # v /\ Waiting(h.cmd)
                 /\ Restart(v) => h \notin lost
      <3>1. h \in {[g EXCEPT !.cmd = Abandon(g.cmd, v)] : g \in handlers}
        BY <1>4 DEF SendTimeout, Restart, Abandoned
      <3>2. PICK g \in handlers : /\ h = [g EXCEPT !.cmd = Abandon(g.cmd, v)]
                                  /\ Restart(v) => g \notin lost
        <4>1. CASE Restart(v)
          <5>1. h \in {[g EXCEPT !.cmd = Abandon(g.cmd, v)] : g \in handlers \ lost}
            BY <4>1 DEF Restart
          <5> QED  BY <5>1
        <4> QED  BY <3>1, <4>1
      <3>3. h.cmd = Abandon(g.cmd, v)
        BY <3>2, <1>a DEF Handlers
      <3>4. g.cmd.live /\ h.cmd = g.cmd /\ Home(g.cmd.key) # v
        BY <2>2, <3>3, <1>a, AbandonType
      <3>5. h = g
        BY <3>2, <3>3, <3>4, <1>a DEF Handlers
      <3> QED  BY <3>2, <3>4, <3>5, <1>a
    <2>3. ASSUME NEW u \in Vasps, u # v,
                 Restart(v) => ~waits(u)
          PROVE  task'[u] = task[u]
      <3>1. CASE SendTimeout(v)
        BY <2>3, <3>1 DEF SendTimeout, TypeOK
      <3>2. CASE Restart(v)
        BY <2>3, <3>2 DEF Restart
      <3> QED  BY <1>4, <3>1, <3>2
    <2>4. ASSUME NEW c \in net', c.live PROVE c \in net /\ Waiting(c)'
      <3>1. ~waits(Home(c.key))
        BY <2>1, <2>4 DEF LiveInv
      <3> QED  BY <2>1, <2>3, <2>4, <3>1, HomeType, WaitingKept
    <2>5. ASSUME NEW h \in handlers', h.cmd.live PROVE h \in handlers /\ Waiting(h.cmd)'
      <3>1. Restart(v) => ~waits(Home(h.cmd.key))
        BY <2>2, <2>5 DEF LiveInv
      <3> QED  BY <2>2, <2>3, <2>5, <3>1, HomeType, WaitingKept
    <2> QED  BY <2>4, <2>5, LiveKept
  <1>5. ASSUME NEW cmd \in net, HandleCommand(cmd) PROVE LiveInv'
    <2>1. net' = net \ {cmd} /\ cmd.live => Waiting(cmd)
      BY <1>5, <1>a DEF HandleCommand
    <2>2. CASE Reply(cmd, "fail") /\ UNCHANGED handlers
      <3>1. \A u \in Vasps : ~(cmd.live /\ u = Home(cmd.key)) => task'[u] = task[u]
        BY <2>2, <1>a, ReplyType
      <3>2. ASSUME NEW c \in net', c.live PROVE c \in net /\ Waiting(c)'
        BY <1>5, <3>1, <3>2, <1>a, HomeType, WaitingKept DEF LiveInv, HandleCommand
      <3>3. ASSUME NEW h \in handlers', h.cmd.live PROVE h \in handlers /\ Waiting(h.cmd)'
        BY <2>2, <3>1, <3>3, <1>a, HomeType, WaitingKept DEF LiveInv
      <3> QED  BY <3>2, <3>3, LiveKept
    <2>3. CASE /\ UNCHANGED task
               /\ \E k, read :
                     handlers' = handlers \cup {[cmd |-> cmd, key |-> k, read |-> read]}
      <3>1. PICK k, read : handlers' = handlers \cup {[cmd |-> cmd, key |-> k, read |-> read]}
        BY <2>3
      <3> DEFINE new == [cmd |-> cmd, key |-> k, read |-> read]
      <3>2. /\ \A c \in net' : c \in net /\ c # cmd
            /\ \A h \in handlers' : h \in handlers \/ h = new
            /\ new.cmd = cmd
        BY <1>5, <3>1 DEF HandleCommand
      <3>3. \A c : Waiting(c) => Waiting(c)'
        BY <2>3, LocalStep DEF Waiting
      <3>4. /\ \A c \in net' : c.live => Waiting(c)'
            /\ \A h \in handlers' : h.cmd.live => Waiting(h.cmd)'
        BY <3>2, <3>3, <1>a
      <3>5. \A c, d \in net' : c.live /\ d.live /\ Home(c.key) = Home(d.key) => c = d
        BY <3>2 DEF LiveInv
      <3>6. \A h, i \in handlers' :
               h.cmd.live /\ i.cmd.live /\ Home(h.cmd.key) = Home(i.cmd.key) => h = i
        BY <3>2 DEF LiveInv
      <3>7. \A c \in net', h \in handlers' :
               c.live /\ h.cmd.live => Home(c.key) # Home(h.cmd.key)
        BY <3>2 DEF LiveInv
      <3> QED  BY <3>4, <3>5, <3>6, <3>7, LocalStep DEF LiveInv
    <2> QED  BY <1>5, <2>2, <2>3 DEF HandleCommand
  <1>6. ASSUME NEW h \in handlers, HandleCommit(h) PROVE LiveInv'
    <2>1. \E r \in {"ok", "fail"} : Reply(h.cmd, r)
      BY <1>6 DEF HandleCommit
    <2>2. \A u \in Vasps : ~(h.cmd.live /\ u = Home(h.cmd.key)) => task'[u] = task[u]
      BY <2>1, <1>a, ReplyType
    <2>3. ASSUME NEW c \in net', c.live PROVE c \in net /\ Waiting(c)'
      BY <1>6, <2>2, <2>3, <1>a, HomeType, WaitingKept DEF LiveInv, HandleCommit
    <2>4. ASSUME NEW g \in handlers', g.cmd.live PROVE g \in handlers /\ Waiting(g.cmd)'
      BY <1>6, <2>2, <2>4, <1>a, HomeType, WaitingKept DEF LiveInv, HandleCommit
    <2> QED  BY <2>3, <2>4, LiveKept
  <1>7. ASSUME NEW v \in Vasps, ProcessRequests(v) \/ CommandSent(v) \/ CommandFailed(v)
        PROVE  LiveInv'
    <2>1. \A u \in Vasps \ {v} : task'[u] = task[u]
      BY <1>7 DEF ProcessRequests, CommandSent, CommandFailed, TypeOK
    <2>2. ~(task[v].pc = "send" /\ task[v].reply = "waiting")
      BY <1>7, RowFacts DEF ProcessRequests, CommandSent, CommandFailed
    <2>3. net' = net /\ handlers' = handlers
      BY <1>7 DEF ProcessRequests, CommandSent, CommandFailed
    <2> QED  BY <2>1, <2>2, <2>3, <1>2
  <1>8. \/ UNCHANGED <<task, net, handlers>>
        \/ \E v \in Vasps : \/ ProcessRequests(v) \/ CommandSent(v) \/ CommandFailed(v)
                            \/ SendTimeout(v) \/ Restart(v)
                            \/ \E k \in Keys : SendCommand(v, k)
        \/ \E cmd \in net : HandleCommand(cmd)
        \/ \E h \in handlers : HandleCommit(h)
    BY DEF Next, vars, TaskStep, CommitFundsPullPreApproval, CreateAndApprove, Expiration,
           UpdateStatus, UpdateCommand
  <1> QED  BY <1>1, <1>3, <1>4, <1>5, <1>6, <1>7, <1>8

\* The invariant holds initially.
LEMMA InitIInv == Init => IInv
  <1> SUFFICES ASSUME Init PROVE IInv
    OBVIOUS
  <1>1. \A v \in Vasps : task[v] = Idle /\ task[v].pc = "idle"
    BY RowFacts DEF Init
  <1>2. TypeOK
    BY DEF Init, TypeOK
  <1>3. RowsInv /\ LiveInv
    BY <1>1 DEF Init, RowsInv, LiveInv
  <1>4. BackedInv
    BY <1>1, RowFacts DEF Init, BackedInv, Backed
  <1>5. ReadInv
    BY DEF Init, ReadInv
  <1> QED  BY <1>2, <1>3, <1>4, <1>5 DEF IInv

\* Approvals are not taken back.
LEMMA ApprovedGrows == [Next]_vars => approved \subseteq approved'
  BY DEF Next, vars, threads, history, CommitFundsPullPreApproval, CreateAndApprove, Expiration,
         UpdateStatus, UpdateCommand, TaskStep, ProcessRequests, CommandSent, CommandFailed,
         SendCommand, SendTimeout, Restart, HandleCommand, HandleCommit

\* A task is in a round because it was, or because it starts one or goes on with it.
LEMMA TaskChanges ==
    ASSUME TypeOK, RowsInv, LiveInv, [Next]_vars, NEW v \in Vasps, task'[v].pc = "round"
    PROVE  ProcessRequests(v) \/ CommandSent(v) \/ task'[v] = task[v]
  <1> USE DEF threads, history
  <1>1. ASSUME NEW r, task[v] \in Sends PROVE [task[v] EXCEPT !.reply = r].pc = "send"
    BY <1>1 DEF Sends
  <1>2. ASSUME NEW cmd \in net, HandleCommand(cmd) PROVE task'[v] = task[v]
    <2>1. cmd \in Commands /\ (cmd.live => Waiting(cmd))
      BY DEF TypeOK, LiveInv
    <2>2. Reply(cmd, "fail") \/ UNCHANGED task
      BY <1>2 DEF HandleCommand
    <2> QED  BY <2>1, <2>2, <1>1, ReplyType
  <1>3. ASSUME NEW h \in handlers, HandleCommit(h) PROVE task'[v] = task[v]
    <2>1. h.cmd \in Commands /\ (h.cmd.live => Waiting(h.cmd))
      BY HandlerParts DEF TypeOK, LiveInv
    <2>2. \E r \in {"ok", "fail"} : Reply(h.cmd, r)
      BY <1>3 DEF HandleCommit
    <2> QED  BY <2>1, <2>2, <1>1, ReplyType
  <1>4. ASSUME NEW u \in Vasps, Restart(u) PROVE task'[v] = task[v]
    <2> DEFINE lost == {h \in handlers : Home(h.key) = u}
               waits(x) == \E h \in lost : h.cmd.live /\ Home(h.cmd.key) = x
    <2>1. waits(v) => task[v] \in Sends
      BY TaskParts DEF LiveInv, Waiting
    <2>2. task'[v] = IF v = u THEN Idle ELSE IF waits(v) THEN [task[v] EXCEPT !.reply = "fail"]
                     ELSE task[v]
      BY <1>4 DEF Restart
    <2> QED  BY <2>1, <2>2, <1>1, RowFacts
  <1>5. ASSUME NEW u \in Vasps, SendTimeout(u) PROVE task'[v] = task[v]
    BY <1>5, RowFacts DEF SendTimeout, TypeOK
  <1>6. ASSUME NEW u \in Vasps, TaskStep(u)
        PROVE  ProcessRequests(v) \/ CommandSent(v) \/ task'[v] = task[v]
    <2>1. CASE u # v
      BY <1>6, <2>1 DEF TaskStep, TypeOK, ProcessRequests, CommandFailed, SendCommand, CommandSent
    <2>2. CASE u = v /\ CommandFailed(v)
      BY <2>2, RowFacts DEF CommandFailed, TypeOK
    <2>3. ASSUME NEW k \in Keys, SendCommand(v, k) PROVE task'[v].pc \in {"send", "idle"}
      BY <2>3, RowFacts DEF SendCommand, TypeOK
    <2> QED  BY <1>6, <2>1, <2>2, <2>3 DEF TaskStep
  <1>7. \/ \E u \in Vasps : TaskStep(u) \/ SendTimeout(u) \/ Restart(u)
        \/ \E cmd \in net : HandleCommand(cmd)
        \/ \E h \in handlers : HandleCommit(h)
        \/ UNCHANGED task
    BY DEF Next, vars, CommitFundsPullPreApproval, CreateAndApprove, Expiration, UpdateStatus,
           UpdateCommand
  <1> QED  BY <1>2, <1>3, <1>4, <1>5, <1>6, <1>7

\* Every step keeps valid states backed by an approval.
LEMMA BackedStep == TypeOK /\ RowsInv /\ LiveInv /\ BackedInv /\ [Next]_vars => BackedInv'
  <1> SUFFICES ASSUME TypeOK, RowsInv, LiveInv, BackedInv, [Next]_vars, "valid" \notin PayeeOps
               PROVE  BackedInv'
    BY DEF BackedInv
  <1> USE DEF threads, history
  <1> DEFINE Ok(f, s) == s = "valid" => f \in approved'
  <1>a. /\ \A f, s : Backed(f, s) => Ok(f, s)
        /\ \A k \in Keys : Backed(k[1], rows[k].status)
        /\ \A cmd \in net : Backed(cmd.key[1], cmd.status)
        /\ \A h \in handlers : h.key[1] = h.cmd.key[1] /\ Backed(h.key[1], h.cmd.status)
        /\ \A w \in web : Backed(w.key[1], w.status)
        /\ \A v \in Vasps : task[v].pc = "round" =>
              \A k \in DOMAIN task[v].read : Backed(k[1], task[v].read[k].status)
    BY ApprovedGrows DEF BackedInv, Backed
  <1>1. \A k \in Keys : Ok(k[1], rows'[k].status)
    <2>1. ASSUME NEW f \in Ids, CommitFundsPullPreApproval(f)
          PROVE  \A k \in Keys : rows'[k].status = rows[k].status \/ rows'[k].status = "pending"
      BY <2>1 DEF CommitFundsPullPreApproval, TypeOK
    <2>2. ASSUME NEW f \in Ids, CreateAndApprove(f)
          PROVE  \A k \in Keys : rows'[k].status = rows[k].status \/ k[1] \in approved'
      BY <2>2 DEF CreateAndApprove, TypeOK
    <2>3. ASSUME NEW w \in web, UpdateCommand(w)
          PROVE  \A k \in Keys : \/ rows'[k].status = rows[k].status
                                 \/ k = w.key /\ rows'[k].status = w.status
      <3>1. w.key \in Keys
        BY DEF TypeOK, Updates
      <3>2. PICK row \in Rows : rows' = [rows EXCEPT ![w.key] = row] /\ row.status = w.status
        BY <2>3, UpdateRow
      <3> QED  BY <3>1, <3>2 DEF TypeOK
    <2>4. ASSUME NEW v \in Vasps, CommandSent(v)
          PROVE  \A k \in Keys : rows'[k].status = rows[k].status
      <3>1. task[v].key \in Keys
        BY <2>4, TaskParts DEF Sends, CommandSent
      <3> QED  BY <2>4, <3>1, SentRow, WriteType DEF TypeOK
    <2>5. ASSUME NEW h \in handlers, HandleCommit(h)
          PROVE  \A k \in Keys : \/ rows'[k].status = rows[k].status
                                 \/ k = h.key /\ rows'[k].status = h.cmd.status
      <3>1. h.key \in Keys
        BY HandlerParts DEF TypeOK
      <3>2. CASE UNCHANGED rows
        BY <3>2
      <3>3. ASSUME NEW row \in Rows, rows' = [rows EXCEPT ![h.key] = row],
                   row.status \in {rows[h.key].status, h.cmd.status}
            PROVE  \A k \in Keys : \/ rows'[k].status = rows[k].status
                                   \/ k = h.key /\ rows'[k].status = h.cmd.status
        BY <3>1, <3>3 DEF TypeOK
      <3> QED  BY <2>5, <3>2, <3>3, HandleRow
    <2>6. \/ UNCHANGED rows
          \/ \E f \in Ids : CommitFundsPullPreApproval(f) \/ CreateAndApprove(f)
          \/ \E w \in web : UpdateCommand(w)
          \/ \E v \in Vasps : CommandSent(v)
          \/ \E h \in handlers : HandleCommit(h)
      BY DEF Next, vars, TaskStep, Expiration, UpdateStatus, ProcessRequests, CommandFailed,
             SendCommand, SendTimeout, Restart, HandleCommand
    <2> QED  BY <2>1, <2>2, <2>3, <2>4, <2>5, <2>6, <1>a DEF Backed
  <1>2. \A cmd \in net' : Ok(cmd.key[1], cmd.status)
    <2>1. ASSUME NEW v \in Vasps, NEW k \in Keys, SendCommand(v, k), NEW cmd \in net'
          PROVE  \/ cmd \in net
                 \/ /\ cmd.key = k
                    /\ cmd.status = (IF k \in DOMAIN task[v].read THEN task[v].read[k]
                                     ELSE rows[k]).status
      BY <2>1 DEF SendCommand
    <2>2. ASSUME NEW v \in Vasps, SendTimeout(v) \/ Restart(v), NEW cmd \in net'
          PROVE  \E d \in net : cmd.key = d.key /\ cmd.status = d.status
      <3>1. cmd \in {Abandon(d, v) : d \in net}
        BY <2>2 DEF SendTimeout, Restart, Abandoned
      <3>2. PICK d \in net : cmd = Abandon(d, v)
        BY <3>1
      <3> QED  BY <3>2, AbandonType DEF TypeOK
    <2>3. \/ \E v \in Vasps, k \in Keys : SendCommand(v, k)
          \/ \E v \in Vasps : SendTimeout(v) \/ Restart(v)
          \/ net' \subseteq net
      BY DEF Next, vars, CommitFundsPullPreApproval, CreateAndApprove, Expiration, UpdateStatus,
             UpdateCommand, TaskStep, ProcessRequests, CommandFailed, CommandSent, HandleCommand,
             HandleCommit
    <2>4. ASSUME NEW v \in Vasps, NEW k \in Keys, SendCommand(v, k)
          PROVE  Backed(k[1], (IF k \in DOMAIN task[v].read THEN task[v].read[k]
                               ELSE rows[k]).status)
      BY <2>4, <1>a DEF SendCommand
    <2> QED  BY <2>1, <2>2, <2>3, <2>4, <1>a
  <1>3. \A h \in handlers' : h.key[1] = h.cmd.key[1] /\ Ok(h.key[1], h.cmd.status)
    <2>1. ASSUME NEW cmd \in net, HandleCommand(cmd), NEW h \in handlers'
          PROVE  h \in handlers \/ (h.cmd = cmd /\ h.key[1] = cmd.key[1])
      BY <2>1 DEF HandleCommand
    <2>2. ASSUME NEW v \in Vasps, SendTimeout(v) \/ Restart(v), NEW h \in handlers'
          PROVE  \E g \in handlers : /\ h.key = g.key /\ h.cmd.key = g.cmd.key
                                     /\ h.cmd.status = g.cmd.status
      <3>1. h \in {[g EXCEPT !.cmd = Abandon(g.cmd, v)] : g \in handlers}
        BY <2>2 DEF SendTimeout, Restart, Abandoned
      <3>2. PICK g \in handlers : h = [g EXCEPT !.cmd = Abandon(g.cmd, v)]
        BY <3>1
      <3>3. g \in Handlers /\ g.cmd \in Commands
        BY HandlerParts DEF TypeOK
      <3>4. h.key = g.key /\ h.cmd = Abandon(g.cmd, v)
        BY <3>2, <3>3 DEF Handlers
      <3> QED  BY <3>3, <3>4, AbandonType
    <2>3. \/ \E cmd \in net : HandleCommand(cmd)
          \/ \E v \in Vasps : SendTimeout(v) \/ Restart(v)
          \/ handlers' \subseteq handlers
      BY DEF Next, vars, CommitFundsPullPreApproval, CreateAndApprove, Expiration, UpdateStatus,
             UpdateCommand, TaskStep, ProcessRequests, CommandFailed, SendCommand, CommandSent,
             HandleCommit
    <2> QED  BY <2>1, <2>2, <2>3, <1>a
  <1>4. \A w \in web' : Ok(w.key[1], w.status)
    <2>1. ASSUME NEW u \in Keys, NEW op \in Ops, UpdateStatus(u, op), NEW w \in web'
          PROVE  \/ w \in web
                 \/ w.status = op /\ w.key[1] = u[1]
                    /\ (op = "valid" => u[1] \in approved')
      <3>1. op = "valid" => u[1] \in approved'
        BY <2>1, KeyParts DEF UpdateStatus, Roles
      <3> QED  BY <2>1, <3>1, OpponentType DEF UpdateStatus
    <2>2. \/ \E u \in Keys, op \in Ops : UpdateStatus(u, op)
          \/ web' \subseteq web
      BY DEF Next, vars, CommitFundsPullPreApproval, CreateAndApprove, Expiration, UpdateCommand,
             TaskStep, ProcessRequests, CommandFailed, SendCommand, CommandSent, SendTimeout,
             Restart, HandleCommand, HandleCommit
    <2> QED  BY <2>1, <2>2, <1>a DEF Backed
  <1>5. ASSUME NEW v \in Vasps, task'[v].pc = "round", NEW k \in DOMAIN task'[v].read
        PROVE  Ok(k[1], task'[v].read[k].status)
    <2>1. CASE task'[v] = task[v]
      BY <1>5, <2>1, <1>a
    <2>2. ASSUME NEW todo \in SUBSET Keys, NEW known \in SUBSET Keys, task'[v] = Round(todo, known)
          PROVE  Ok(k[1], task'[v].read[k].status)
      <3>1. k \in known /\ task'[v].read[k] = rows[k]
        BY <1>5, <2>2 DEF Round
      <3> QED  BY <3>1, <1>a
    <2>3. CASE ProcessRequests(v)
      <3> DEFINE todo == {j \in Keys : Home(j) = v /\ rows[j] # NoRow /\ rows[j].sent = "no"}
      <3>1. task'[v] = Round(todo, todo)
        BY <2>3 DEF ProcessRequests, TypeOK
      <3> QED  BY <3>1, <2>2
    <2>4. CASE CommandSent(v)
      <3>1. task'[v] = Round(task[v].todo, {})
        BY <1>5, <2>4, RowFacts DEF CommandSent, TypeOK
      <3>2. task[v].todo \in SUBSET Keys
        BY <2>4, TodoRows DEF CommandSent
      <3> QED  BY <3>1, <3>2, <2>2
    <2>5. ProcessRequests(v) \/ CommandSent(v) \/ task'[v] = task[v]
      BY <1>5, TaskChanges
    <2> QED  BY <2>1, <2>3, <2>4, <2>5
  <1>6. \A f, s : Backed(f, s)' <=> Ok(f, s)
    BY DEF Backed
  <1> QED  BY <1>1, <1>2, <1>3, <1>4, <1>5, <1>6 DEF BackedInv, Backed

\* Every step keeps what a user's change has read from being final.
LEMMA ReadStep == TypeOK /\ ReadInv /\ [Next]_vars => ReadInv'
  <1> SUFFICES ASSUME TypeOK, ReadInv, [Next]_vars PROVE ReadInv'
    OBVIOUS
  <1> USE DEF threads, history
  <1>1. \A w \in web' : w.read.status \notin Final
    <2>1. ASSUME NEW u \in Keys, NEW op \in Ops, UpdateStatus(u, op), NEW w \in web'
          PROVE  w \in web \/ w.read.status \in {"pending", "valid"}
      BY <2>1 DEF UpdateStatus
    <2>2. \/ \E u \in Keys, op \in Ops : UpdateStatus(u, op)
          \/ web' \subseteq web
      BY DEF Next, vars, CommitFundsPullPreApproval, CreateAndApprove, Expiration, UpdateCommand,
             TaskStep, ProcessRequests, CommandFailed, SendCommand, CommandSent, SendTimeout,
             Restart, HandleCommand, HandleCommit
    <2> QED  BY <2>1, <2>2 DEF ReadInv, Final
  <1>2. \A h \in handlers' : ValidateStatus(h.cmd, h.read)
    <2>1. ASSUME NEW cmd \in net, HandleCommand(cmd), NEW h \in handlers'
          PROVE  h \in handlers \/ ValidateStatus(h.cmd, h.read)
      BY <2>1 DEF HandleCommand
    <2>2. ASSUME NEW v \in Vasps, SendTimeout(v) \/ Restart(v), NEW h \in handlers'
          PROVE  \E g \in handlers : h.cmd.status = g.cmd.status /\ h.read = g.read
      <3>1. h \in {[g EXCEPT !.cmd = Abandon(g.cmd, v)] : g \in handlers}
        BY <2>2 DEF SendTimeout, Restart, Abandoned
      <3>2. PICK g \in handlers : h = [g EXCEPT !.cmd = Abandon(g.cmd, v)]
        BY <3>1
      <3>3. g \in Handlers /\ g.cmd \in Commands
        BY HandlerParts DEF TypeOK
      <3>4. h.read = g.read /\ h.cmd = Abandon(g.cmd, v)
        BY <3>2, <3>3 DEF Handlers
      <3> QED  BY <3>3, <3>4, AbandonType
    <2>3. \/ \E cmd \in net : HandleCommand(cmd)
          \/ \E v \in Vasps : SendTimeout(v) \/ Restart(v)
          \/ handlers' \subseteq handlers
      BY DEF Next, vars, CommitFundsPullPreApproval, CreateAndApprove, Expiration, UpdateStatus,
             UpdateCommand, TaskStep, ProcessRequests, CommandFailed, SendCommand, CommandSent,
             HandleCommit
    <2> QED  BY <2>1, <2>2, <2>3 DEF ReadInv, ValidateStatus
  <1> QED  BY <1>1, <1>2 DEF ReadInv

\* A final row keeps its status unless a write raced with another one.
LEMMA FinalStep ==
    ASSUME TypeOK, RowsInv, ReadInv, [Next]_vars,
           NEW k \in Keys, rows[k].status \in Final, k[1] \notin raced'
    PROVE  rows'[k].status = rows[k].status
  <1> USE DEF threads, history
  <1>1. ASSUME NEW f \in Ids, CommitFundsPullPreApproval(f) \/ CreateAndApprove(f)
        PROVE  rows'[k].status = rows[k].status
    BY <1>1, RowFacts DEF CommitFundsPullPreApproval, CreateAndApprove, TypeOK, Final
  <1>2. ASSUME NEW w \in web, UpdateCommand(w) PROVE rows'[k].status = rows[k].status
    <2>1. CASE w.key = k
      BY <1>2, <2>1 DEF UpdateCommand, ReadInv
    <2>2. CASE w.key # k
      BY <1>2, <2>2 DEF UpdateCommand, TypeOK
    <2> QED  BY <2>1, <2>2
  <1>3. ASSUME NEW v \in Vasps, CommandSent(v) PROVE rows'[k].status = rows[k].status
    <2>1. PICK row \in Rows : /\ rows' = [rows EXCEPT ![task[v].key] = row]
                              /\ row.status = rows[task[v].key].status
      BY <1>3, SentRow
    <2> QED  BY <2>1 DEF TypeOK
  <1>4. ASSUME NEW h \in handlers, HandleCommit(h) PROVE rows'[k].status = rows[k].status
    <2>1. CASE h.key # k
      BY <1>4, <2>1 DEF HandleCommit, TypeOK
    <2>2. CASE h.key = k /\ h.read = NoRow
      BY <1>4, <2>2, RowFacts DEF HandleCommit, Final
    <2>3. CASE h.key = k /\ h.read # NoRow
      <3>1. rows[k] \in Rows
        BY <2>3 DEF TypeOK, RowsInv, Exists
      <3>2. rows[k].status = h.read.status
        BY <1>4, <2>3 DEF HandleCommit
      <3>3. h.read.status = h.cmd.status
        BY <2>3, <3>2 DEF ReadInv, ValidateStatus, Final
      <3> QED  BY <1>4, <2>3, <3>1, <3>3 DEF HandleCommit, TypeOK, Rows
    <2> QED  BY <2>1, <2>2, <2>3
  <1>5. \/ UNCHANGED rows
        \/ \E f \in Ids : CommitFundsPullPreApproval(f) \/ CreateAndApprove(f)
        \/ \E w \in web : UpdateCommand(w)
        \/ \E v \in Vasps : CommandSent(v)
        \/ \E h \in handlers : HandleCommit(h)
    BY DEF Next, vars, TaskStep, Expiration, UpdateStatus, ProcessRequests, CommandFailed,
           SendCommand, SendTimeout, Restart, HandleCommand
  <1> QED  BY <1>1, <1>2, <1>3, <1>4, <1>5

\* In every reachable state, for any pre-approvals, users and faults, whoever waits for
\* an answer waits for one command, and nothing says "valid" about a pre-approval that
\* the payer's user did not approve: no row, no command and nothing that was read.
THEOREM InvariantHolds == Spec => []IInv
  <1>1. IInv /\ [Next]_vars => IInv'
    BY TypeStep, RowsStep, LiveStep, BackedStep, ReadStep DEF IInv
  <1> QED  BY <1>1, InitIInv, PTL DEF Spec

\* A payee that cannot approve by itself never takes a pre-approval for valid that the
\* payer's user did not approve, however commands are lost, late, repeated or overwritten.
THEOREM Approved == Spec => []ValidWasApproved
  <1>1. IInv => ValidWasApproved
    <2> SUFFICES ASSUME IInv, "valid" \notin PayeeOps, NEW f \in Ids,
                        rows[<<f, "payee">>].status = "valid"
                 PROVE  f \in approved
      BY DEF ValidWasApproved
    <2>1. <<f, "payee">> \in Keys /\ <<f, "payee">>[1] = f
      BY DEF Keys, Roles
    <2> QED  BY <2>1 DEF IInv, BackedInv, Backed
  <1> QED  BY <1>1, InvariantHolds, PTL

\* A row that is rejected or closed keeps its status in every step, whatever arrives for
\* it, unless some write about its pre-approval did not see another one.
THEOREM Finality == Spec => FinalStays
  <1>1. IInv /\ [Next]_vars =>
          [\A k \in Keys : rows[k].status \in Final /\ k[1] \notin raced'
              => rows'[k].status = rows[k].status]_vars
    BY FinalStep DEF IInv
  <1> QED  BY <1>1, InvariantHolds, PTL DEF Spec, FinalStays

\* Advancing is a partial order of the statuses, from pending on.
LEMMA AdvanceFacts ==
    ASSUME NEW s, NEW t, NEW u
    PROVE  /\ Advances(s, s) /\ Advances("pending", s)
           /\ Advances(s, t) /\ Advances(t, u) => Advances(s, u)
           /\ Advances(s, t) /\ Advances(t, s) => s = t
  BY DEF Advances

\* A user's row is not the other side's.
LEMMA Opposite ==
    ASSUME NEW k \in Keys
    PROVE  /\ Opponent(k) \in Keys /\ Opponent(k)[1] = k[1] /\ Opponent(k) # k
           /\ Opponent(Opponent(k)) = k
           /\ \A j \in Keys : j[1] = k[1] => j = k \/ j = Opponent(k)
  <1>1. PICK f \in Ids, r \in Roles : k = <<f, r>>
    BY DEF Keys
  <1>2. /\ Opponent(k) = <<f, IF r = "payee" THEN "payer" ELSE "payee">>
        /\ r \in {"payee", "payer"}
    BY <1>1 DEF Opponent, Roles
  <1>3. ASSUME NEW j \in Keys, j[1] = k[1] PROVE j = k \/ j = Opponent(k)
    <2>1. PICK g \in Ids, q \in Roles : j = <<g, q>>
      BY DEF Keys
    <2> QED  BY <1>1, <1>2, <1>3, <2>1 DEF Roles
  <1> QED  BY <1>1, <1>2, <1>3 DEF Opponent, Keys, Roles

\* What raced stays so.
LEMMA RacedGrows == [Next]_vars => raced \subseteq raced'
  BY DEF Next, vars, threads, history, CommitFundsPullPreApproval, CreateAndApprove, Expiration,
         UpdateStatus, UpdateCommand, TaskStep, ProcessRequests, CommandSent, CommandFailed,
         SendCommand, SendTimeout, Restart, HandleCommand, HandleCommit

\* What a step makes of a row of k that it changes, if all writes saw one another: a new
\* row, one with something to send, or one that the other side has gone at least as far as.
Appears(k) ==
    /\ ~Exists(k)
    /\ rows'[k].sent = "no" \/ rows'[k].status = "pending"
Changes(k) ==
    /\ Exists(k) /\ Advances(rows[k].status, rows'[k].status)
    /\ \/ rows'[k].sent = "no"
       \/ Exists(Opponent(k)) /\ Advances(rows'[k].status, rows[Opponent(k)].status)

\* A step changes one row, and changes it so.
LEMMA RowFate ==
    ASSUME IInv, SentInv, CommandInv, TaskInv, [Next]_vars, NEW k \in Keys, k[1] \notin raced',
           rows'[k] # rows[k]
    PROVE  rows'[Opponent(k)] = rows[Opponent(k)] /\ (Appears(k) \/ Changes(k))
  <1> USE DEF threads, history
  <1> DEFINE o == Opponent(k)
             Goal == rows'[o] = rows[o] /\ (Appears(k) \/ Changes(k))
  <1>a. TypeOK /\ RowsInv /\ ReadInv /\ k[1] \notin raced
    BY RacedGrows DEF IInv
  <1>k. o \in Keys /\ o # k
    BY Opposite
  <1>r. rows \in [Keys -> Rows \cup {NoRow}]
    BY <1>a DEF TypeOK
  <1>1. ASSUME NEW f \in Ids, CommitFundsPullPreApproval(f) PROVE Goal
    <2>1. PICK known \in BOOLEAN :
            rows' = [rows EXCEPT ![<<f, "payee">>] =
                       [status |-> "pending", known |-> known,
                        sent |-> IF known THEN "no" ELSE "yes"]]
      BY <1>1 DEF CommitFundsPullPreApproval
    <2>2. k = <<f, "payee">> /\ rows[k] = NoRow /\ rows'[o] = rows[o]
      BY <1>1, <2>1, <1>k, <1>r DEF CommitFundsPullPreApproval
    <2>3. rows'[k].status = "pending" /\ (rows'[k].sent = "no" \/ ~known)
      BY <2>1, <2>2, <1>r
    <2> QED  BY <2>2, <2>3 DEF Appears, Exists
  <1>2. ASSUME NEW f \in Ids, CreateAndApprove(f) PROVE Goal
    <2>1. k = <<f, "payer">> /\ rows[k] = NoRow /\ rows'[o] = rows[o]
      BY <1>2, <1>k, <1>r DEF CreateAndApprove
    <2>2. rows'[k] = [status |-> "valid", known |-> TRUE, sent |-> "no"]
      BY <1>2, <2>1, <1>r DEF CreateAndApprove
    <2> QED  BY <2>1, <2>2 DEF Appears, Exists
  <1>3. ASSUME NEW w \in web, UpdateCommand(w) PROVE Goal
    <2>1. w.key \in Keys /\ rows[w.key] \in Rows /\ w \in Updates
      BY <1>a, RowFacts DEF TypeOK, RowsInv, Exists, Updates
    <2> DEFINE row == [rows[w.key] EXCEPT !.status = w.status,
                              !.sent = IF w.read.sent = "no" THEN @ ELSE "no"]
    <2>2. rows' = [rows EXCEPT ![w.key] = row]
      BY <1>3, <2>1, <1>r DEF UpdateCommand
    <2>3. w.key = k /\ rows'[k] = row /\ rows'[o] = rows[o]
      BY <2>2, <2>1, <1>k, <1>r
    <2>4. rows[k] = w.read
      BY <1>3, <2>3 DEF UpdateCommand
    <2>5. row.status = w.status /\ row.sent = "no"
      BY <2>1, <2>3, <2>4 DEF Rows
    <2>6. Advances(w.read.status, w.status)
      BY DEF CommandInv
    <2> HIDE DEF row
    <2> QED  BY <2>1, <2>3, <2>4, <2>5, <2>6, RowFacts DEF Changes, Exists
  <1>4. ASSUME NEW v \in Vasps, CommandSent(v) PROVE Goal
    <2>1. task[v] \in Sends /\ task[v].key \in Keys /\ rows[task[v].key] \in Rows
      BY <1>4, <1>a, TaskParts DEF TypeOK, RowsInv, Exists, Sends, CommandSent
    <2>2. rows' = [rows EXCEPT ![task[v].key] = [rows[task[v].key] EXCEPT !.sent = "yes"]]
      BY <1>4, <2>1, <1>r DEF CommandSent
    <2>3. /\ task[v].key = k /\ rows'[k] = [rows[k] EXCEPT !.sent = "yes"]
          /\ rows'[o] = rows[o]
      BY <2>2, <2>1, <1>k, <1>r
    <2>4. rows[k].status = task[v].read.status
      BY <1>4, <2>3 DEF CommandSent
    <2>5. Exists(o) /\ Advances(task[v].read.status, rows[o].status)
      BY <1>4, <1>a, <2>3 DEF TaskInv, CommandSent
    <2>6. rows'[k].status = rows[k].status
      BY <2>1, <2>3 DEF Rows
    <2> QED  BY <2>1, <2>3, <2>4, <2>5, <2>6, RowFacts, AdvanceFacts DEF Changes, Exists
  <1>5. ASSUME NEW h \in handlers, HandleCommit(h) PROVE Goal
    <2>1. /\ h \in Handlers /\ h.key \in Keys
          /\ h.read # NoRow => rows[h.key] \in Rows
      BY <1>a, HandlerParts DEF TypeOK, RowsInv, Exists
    <2>2. /\ Exists(Opponent(h.key))
          /\ h.key[1] \notin raced => Advances(h.cmd.status, rows[Opponent(h.key)].status)
          /\ h.read # NoRow => Advances(h.read.status, h.cmd.status)
      BY DEF CommandInv
    <2>3. CASE h.read = NoRow
      <3>1. /\ rows[h.key] = NoRow
            /\ rows' = [rows EXCEPT ![h.key] = [status |-> h.cmd.status, known |-> TRUE,
                                                sent |-> "no"]]
        BY <1>5, <2>3 DEF HandleCommit
      <3>2. h.key = k /\ rows'[k].sent = "no" /\ rows'[o] = rows[o]
        BY <3>1, <2>1, <1>k, <1>r
      <3> QED  BY <3>1, <3>2 DEF Appears, Exists
    <2>4. CASE h.read # NoRow
      <3> DEFINE old == rows[h.key]
                 row == [old EXCEPT
                    !.status = IF h.read.status = h.cmd.status THEN @ ELSE h.cmd.status,
                    !.sent = IF h.read.sent = "null" THEN @ ELSE "null",
                    !.known = TRUE]
      <3>1. rows' = [rows EXCEPT ![h.key] = row]
        BY <1>5, <2>4, <2>1, <1>r DEF HandleCommit
      <3>2. h.key = k /\ rows'[k] = row /\ rows'[o] = rows[o]
        BY <3>1, <2>1, <1>k, <1>r
      <3>3. old.status = h.read.status
        BY <1>5, <2>4, <3>2 DEF HandleCommit
      <3>4. row.status = h.cmd.status
        BY <2>1, <2>4, <3>3 DEF Rows
      <3> HIDE DEF row
      <3> QED  BY <2>1, <2>2, <2>4, <3>2, <3>3, <3>4, <1>a, RowFacts DEF Changes, Exists
    <2> QED  BY <2>3, <2>4
  <1>6. \/ UNCHANGED rows
        \/ \E f \in Ids : CommitFundsPullPreApproval(f) \/ CreateAndApprove(f)
        \/ \E w \in web : UpdateCommand(w)
        \/ \E v \in Vasps : CommandSent(v)
        \/ \E h \in handlers : HandleCommit(h)
    BY DEF Next, vars, TaskStep, Expiration, UpdateStatus, ProcessRequests, CommandFailed,
           SendCommand, SendTimeout, Restart, HandleCommand
  <1> QED  BY <1>1, <1>2, <1>3, <1>4, <1>5, <1>6

\* A row only advances, if all writes saw one another.
LEMMA Forward ==
    ASSUME IInv, SentInv, CommandInv, TaskInv, [Next]_vars, NEW k \in Keys, k[1] \notin raced',
           Exists(k)
    PROVE  Exists(k)' /\ Advances(rows[k].status, rows'[k].status)
  <1>1. Exists(k)'
    BY RowsKept DEF IInv
  <1> QED  BY <1>1, RowFate, AdvanceFacts DEF Appears, Changes

\* Every step keeps what does not have to be sent.
LEMMA SentStep == IInv /\ SentInv /\ CommandInv /\ TaskInv /\ [Next]_vars => SentInv'
  <1> SUFFICES ASSUME IInv, SentInv, CommandInv, TaskInv, [Next]_vars,
                      NEW k \in Keys, rows'[k] # NoRow, rows'[k].sent # "no", k[1] \notin raced'
               PROVE  IF rows'[Opponent(k)] # NoRow
                      THEN Advances(rows'[k].status, rows'[Opponent(k)].status)
                      ELSE rows'[k].status = "pending"
    BY DEF SentInv, Exists
  <1> DEFINE o == Opponent(k)
  <1>1. o \in Keys /\ o[1] = k[1] /\ k[1] \notin raced
    BY Opposite, RacedGrows
  <1>2. CASE rows'[k] = rows[k]
    <2>1. IF Exists(o) THEN Advances(rows[k].status, rows[o].status)
          ELSE rows[k].status = "pending"
      BY <1>1, <1>2 DEF SentInv, Exists
    <2>2. Exists(o) => rows'[o] # NoRow /\ Advances(rows[o].status, rows'[o].status)
      BY <1>1, Forward DEF Exists
    <2> HIDE DEF o
    <2> QED  BY <1>2, <2>1, <2>2, AdvanceFacts DEF o
  <1>3. CASE rows'[k] # rows[k]
    <2>1. rows'[o] = rows[o] /\ (Appears(k) \/ Changes(k))
      BY <1>3, RowFate
    <2> QED  BY <2>1, AdvanceFacts DEF Appears, Changes, Exists
  <1> QED  BY <1>2, <1>3

\* A state of the table that is for the payer's row: what came is not less than what that
\* row says, and the payee has come to it, if the payee is there.
LEMMA PayerStates ==
    ASSUME NEW s, NEW mineE, NEW mineR, NEW p, NEW q, State(s, mineE, mineR, p, q) \in ForPayer
    PROVE  /\ mineR = TRUE /\ (q = "none" \/ Advances(q, s))
           /\ mineE = FALSE \/ p = s
           /\ s # "none"
  BY DEF ForPayer, State, Advances

\* So for the payee's row.
LEMMA PayeeStates ==
    ASSUME NEW s, NEW mineE, NEW mineR, NEW p, NEW q, State(s, mineE, mineR, p, q) \in ForPayee
    PROVE  /\ mineE = TRUE /\ (p = "none" \/ Advances(p, s))
           /\ mineR = FALSE \/ q = s
           /\ s # "none"
  <1> DEFINE moves == {"valid", "rejected"} \X {"pending"} \cup {"closed"} \X {"pending", "valid"}
                        \cup {<<x, x>> : x \in {"valid", "rejected", "closed"}}
  <1>1. \A m \in moves : m[1] # "none" /\ Advances(m[2], m[1])
    BY DEF Advances
  <1>2. \E m \in moves : \/ State(s, mineE, mineR, p, q) = State(m[1], TRUE, FALSE, m[2], "none")
                         \/ State(s, mineE, mineR, p, q) = State(m[1], TRUE, TRUE, m[2], m[1])
    BY DEF ForPayee
  <1> HIDE DEF moves
  <1>3. PICK m \in moves : s = m[1] /\ mineE = TRUE /\ p = m[2]
                           /\ (mineR = FALSE \/ q = m[1])
    BY <1>2 DEF State
  <1> QED  BY <1>1, <1>3

\* The row that a command is for, and its other side: the command is for a row that it
\* advances, about which the other side has come to what the command says.
LEMMA TableFacts ==
    ASSUME TypeOK, CommandInv, NEW c \in net, NEW role,
           role = ReduceRole(Home(Opponent(c.key)), c), role # "error"
    PROVE  LET j == <<c.key[1], role>>
           IN  /\ j \in Keys
               /\ Exists(Opponent(j))
               /\ c.key[1] \notin raced => Advances(c.status, rows[Opponent(j)].status)
               /\ rows[j] # NoRow => Advances(rows[j].status, c.status)
  <1> DEFINE f == c.key[1]
             v == Home(Opponent(c.key))
             payee == <<f, "payee">>
             payer == <<f, "payer">>
  <1>a. /\ c.key \in Keys /\ f \in Ids /\ payee \in Keys /\ payer \in Keys
        /\ Opponent(payee) = payer /\ Opponent(payer) = payee
        /\ c.key = payee \/ c.key = payer
    <2>1. c.key \in Keys
      BY DEF TypeOK, Commands
    <2> QED  BY <2>1 DEF Keys, Roles, Opponent
  <1>b. /\ Exists(c.key)
        /\ f \notin raced => Advances(c.status, rows[c.key].status)
    BY DEF CommandInv
  <1>c. \A k \in Keys : rows[k] \in Rows => rows[k].status # "none"
    BY RowParts DEF Statuses
  <1>d. \A k \in Keys : rows[k] # NoRow => rows[k] \in Rows
    BY DEF TypeOK
  <1>e. StateOf(v, c) = State(c.status, Home(payee) = v, Home(payer) = v,
                              IF Home(payee) = v THEN rows[payee].status ELSE "none",
                              IF Home(payer) = v THEN rows[payer].status ELSE "none")
    BY DEF StateOf, Existing
  <1> DEFINE p == IF Home(payee) = v THEN rows[payee].status ELSE "none"
             q == IF Home(payer) = v THEN rows[payer].status ELSE "none"
             mineE == Home(payee) = v
             mineR == Home(payer) = v
  <1>f. StateOf(v, c) = State(c.status, mineE, mineR, p, q)
    BY <1>e
  <1>g. /\ p = IF Home(payee) = v THEN rows[payee].status ELSE "none"
        /\ q = IF Home(payer) = v THEN rows[payer].status ELSE "none"
        /\ (mineE = TRUE) <=> Home(payee) = v
        /\ (mineR = TRUE) <=> Home(payer) = v
        /\ mineE \in BOOLEAN /\ mineR \in BOOLEAN
    OBVIOUS
  <1> HIDE DEF p, q, mineE, mineR
  <1>1. CASE role = "payer"
    <2>1. State(c.status, mineE, mineR, p, q) \in ForPayer
      BY <1>1, <1>f DEF ReduceRole
    <2>p. /\ mineR = TRUE /\ (q = "none" \/ Advances(q, c.status))
          /\ mineE = FALSE \/ p = c.status
          /\ c.status # "none"
      BY <2>1, PayerStates
    <2>2. /\ Home(payer) = v
          /\ Home(payee) # v \/ rows[payee].status = c.status
          /\ rows[payer].status = "none" \/ Advances(rows[payer].status, c.status)
          /\ c.status # "none"
      BY <2>p, <1>g
    <2>3. CASE Home(payee) = v
      <3>1. rows[payee].status = c.status /\ rows[payee] # NoRow
        BY <2>2, <2>3, RowFacts
      <3> QED  BY <3>1, <2>2, <1>1, <1>a, <1>c, <1>d, AdvanceFacts DEF Exists
    <2>4. CASE Home(payee) # v
      <3>1. c.key = payee
        BY <2>4, <1>a
      <3> QED  BY <3>1, <2>2, <1>1, <1>a, <1>b, <1>c, <1>d
    <2> QED  BY <2>3, <2>4
  <1>2. CASE role = "payee"
    <2>1. State(c.status, mineE, mineR, p, q) \in ForPayee
      BY <1>2, <1>f DEF ReduceRole
    <2>p. /\ mineE = TRUE /\ (p = "none" \/ Advances(p, c.status))
          /\ mineR = FALSE \/ q = c.status
          /\ c.status # "none"
      BY <2>1, PayeeStates
    <2>2. /\ Home(payee) = v
          /\ Home(payer) # v \/ rows[payer].status = c.status
          /\ rows[payee].status = "none" \/ Advances(rows[payee].status, c.status)
          /\ c.status # "none"
      BY <2>p, <1>g
    <2>3. CASE Home(payer) = v
      <3>1. rows[payer].status = c.status /\ rows[payer] # NoRow
        BY <2>2, <2>3, RowFacts
      <3> QED  BY <3>1, <2>2, <1>2, <1>a, <1>c, <1>d, AdvanceFacts DEF Exists
    <2>4. CASE Home(payer) # v
      <3>1. c.key = payer
        BY <2>4, <1>a
      <3> QED  BY <3>1, <2>2, <1>2, <1>a, <1>b, <1>c, <1>d
    <2> QED  BY <2>3, <2>4
  <1>3. role = "payer" \/ role = "payee"
    BY DEF ReduceRole
  <1> QED  BY <1>1, <1>2, <1>3

\* A command says what its sender's row has come to.
Behind(k, status) == k[1] \notin raced => Advances(status, rows[k].status)

\* What holds of a command goes on to hold.
LEMMA BehindKept ==
    ASSUME IInv, SentInv, CommandInv, TaskInv, [Next]_vars, NEW k \in Keys, Exists(k),
           NEW s, Behind(k, s)
    PROVE  Exists(k)' /\ (k[1] \notin raced' => Advances(s, rows'[k].status))
  <1>1. Exists(k)'
    BY RowsKept DEF IInv
  <1>2. ASSUME k[1] \notin raced' PROVE Advances(s, rows'[k].status)
    <2>1. Advances(s, rows[k].status) /\ Advances(rows[k].status, rows'[k].status)
      BY <1>2, RacedGrows, Forward DEF Behind
    <2> QED  BY <2>1, AdvanceFacts
  <1> QED  BY <1>1, <1>2

\* A command is as before, or says what the loop that sends it has read.
LEMMA NetChanges ==
    ASSUME TypeOK, [Next]_vars, NEW c \in net'
    PROVE  \/ \E d \in net : c.key = d.key /\ c.status = d.status /\ (c.live => c = d)
           \/ \E v \in Vasps, k \in Keys :
                 /\ SendCommand(v, k) /\ c.key = k
                 /\ c.status = (IF k \in DOMAIN task[v].read THEN task[v].read[k]
                                ELSE rows[k]).status
  <1> USE DEF threads, history
  <1>1. ASSUME NEW v \in Vasps, NEW k \in Keys, SendCommand(v, k)
        PROVE  \/ c \in net
               \/ /\ c.key = k
                  /\ c.status = (IF k \in DOMAIN task[v].read THEN task[v].read[k]
                                 ELSE rows[k]).status
    BY <1>1 DEF SendCommand
  <1>2. ASSUME NEW v \in Vasps, SendTimeout(v) \/ Restart(v)
        PROVE  \E d \in net : c.key = d.key /\ c.status = d.status /\ (c.live => c = d)
    <2>1. c \in {Abandon(d, v) : d \in net}
      BY <1>2 DEF SendTimeout, Restart, Abandoned
    <2>2. PICK d \in net : c = Abandon(d, v)
      BY <2>1
    <2> QED  BY <2>2, AbandonType DEF TypeOK
  <1>3. \/ \E v \in Vasps, k \in Keys : SendCommand(v, k)
        \/ \E v \in Vasps : SendTimeout(v) \/ Restart(v)
        \/ net' \subseteq net
    BY DEF Next, vars, CommitFundsPullPreApproval, CreateAndApprove, Expiration, UpdateStatus,
           UpdateCommand, TaskStep, ProcessRequests, CommandFailed, CommandSent, HandleCommand,
           HandleCommit
  <1> QED  BY <1>1, <1>2, <1>3

\* A handler is as before, or works on a command that has just been taken.
LEMMA HandlerChanges ==
    ASSUME TypeOK, [Next]_vars, NEW h \in handlers'
    PROVE  \/ \E g \in handlers : /\ h.key = g.key /\ h.read = g.read /\ h.cmd.key = g.cmd.key
                                  /\ h.cmd.status = g.cmd.status /\ (h.cmd.live => h = g)
           \/ \E c \in net : LET role == ReduceRole(Home(Opponent(c.key)), c)
                             IN  /\ HandleCommand(c) /\ role # "error"
                                 /\ h.cmd = c /\ h.key = <<c.key[1], role>>
                                 /\ h.read = rows[h.key]
  <1> USE DEF threads, history
  <1>1. ASSUME NEW c \in net, HandleCommand(c)
        PROVE  \/ h \in handlers
               \/ LET role == ReduceRole(Home(Opponent(c.key)), c)
                  IN  /\ role # "error"
                      /\ h.cmd = c /\ h.key = <<c.key[1], role>> /\ h.read = rows[h.key]
    BY <1>1 DEF HandleCommand
  <1>2. ASSUME NEW v \in Vasps, SendTimeout(v) \/ Restart(v)
        PROVE  \E g \in handlers : /\ h.key = g.key /\ h.read = g.read /\ h.cmd.key = g.cmd.key
                                   /\ h.cmd.status = g.cmd.status /\ (h.cmd.live => h = g)
    <2>1. h \in {[g EXCEPT !.cmd = Abandon(g.cmd, v)] : g \in handlers}
      BY <1>2 DEF SendTimeout, Restart, Abandoned
    <2>2. PICK g \in handlers : h = [g EXCEPT !.cmd = Abandon(g.cmd, v)]
      BY <2>1
    <2>3. g \in Handlers /\ g.cmd \in Commands
      BY HandlerParts DEF TypeOK
    <2>4. h.key = g.key /\ h.read = g.read /\ h.cmd = Abandon(g.cmd, v)
      BY <2>2, <2>3 DEF Handlers
    <2>5. h.cmd = g.cmd => h = g
      BY <2>2, <2>3, <2>4 DEF Handlers
    <2> QED  BY <2>3, <2>4, <2>5, AbandonType
  <1>3. \/ \E c \in net : HandleCommand(c)
        \/ \E v \in Vasps : SendTimeout(v) \/ Restart(v)
        \/ handlers' \subseteq handlers
    BY DEF Next, vars, CommitFundsPullPreApproval, CreateAndApprove, Expiration, UpdateStatus,
           UpdateCommand, TaskStep, ProcessRequests, CommandFailed, SendCommand, CommandSent,
           HandleCommit
  <1> QED  BY <1>1, <1>2, <1>3

\* Every step keeps what commands, handlers and users' changes say of rows.
LEMMA CommandStep == IInv /\ SentInv /\ CommandInv /\ TaskInv /\ [Next]_vars => CommandInv'
  <1> SUFFICES ASSUME IInv, SentInv, CommandInv, TaskInv, [Next]_vars PROVE CommandInv'
    OBVIOUS
  <1> USE DEF threads, history
  <1>a. TypeOK /\ RowsInv /\ LiveInv
    BY DEF IInv
  <1>1. ASSUME NEW c \in net'
        PROVE  Exists(c.key)' /\ (c.key[1] \notin raced' => Advances(c.status, rows'[c.key].status))
    <2>1. ASSUME NEW d \in net, c.key = d.key, c.status = d.status
          PROVE  c.key \in Keys /\ Exists(c.key) /\ Behind(c.key, c.status)
      BY <2>1, <1>a DEF CommandInv, Behind, TypeOK, Commands
    <2>2. ASSUME NEW v \in Vasps, NEW k \in Keys, SendCommand(v, k), c.key = k,
                 c.status = (IF k \in DOMAIN task[v].read THEN task[v].read[k] ELSE rows[k]).status
          PROVE  c.key \in Keys /\ Exists(c.key) /\ Behind(c.key, c.status)
      <3>1. task[v].pc = "round" /\ k \in task[v].todo /\ Exists(k)
        BY <2>2, <1>a DEF SendCommand, RowsInv
      <3>2. k \in DOMAIN task[v].read /\ k[1] \notin raced =>
              Advances(task[v].read[k].status, rows[k].status)
        BY <3>1 DEF TaskInv
      <3> QED  BY <2>2, <3>1, <3>2, AdvanceFacts DEF Behind
    <2>3. c.key \in Keys /\ Exists(c.key) /\ Behind(c.key, c.status)
      BY <2>1, <2>2, <1>a, NetChanges
    <2> QED  BY <2>3, BehindKept
  <1>2. ASSUME NEW h \in handlers'
        PROVE  /\ h.key[1] = h.cmd.key[1] /\ Exists(Opponent(h.key))'
               /\ h.key[1] \notin raced' => Advances(h.cmd.status, rows'[Opponent(h.key)].status)
               /\ h.read # NoRow => Advances(h.read.status, h.cmd.status)
    <2> DEFINE o == Opponent(h.key)
               Fine == /\ h.key \in Keys /\ h.key[1] = h.cmd.key[1]
                       /\ Exists(o) /\ Behind(o, h.cmd.status)
                       /\ h.read # NoRow => Advances(h.read.status, h.cmd.status)
    <2>1. ASSUME NEW g \in handlers, h.key = g.key, h.read = g.read, h.cmd.key = g.cmd.key,
                 h.cmd.status = g.cmd.status
          PROVE  Fine
      <3>1. g.key \in Keys
        BY <1>a, HandlerParts DEF TypeOK
      <3> QED  BY <2>1, <3>1, Opposite DEF CommandInv, Behind
    <2>2. ASSUME NEW c \in net, NEW role, role = ReduceRole(Home(Opponent(c.key)), c),
                 role # "error", h.cmd = c, h.key = <<c.key[1], role>>, h.read = rows[h.key]
          PROVE  Fine
      <3>1. /\ h.key \in Keys /\ Exists(o)
            /\ c.key[1] \notin raced => Advances(c.status, rows[o].status)
            /\ rows[h.key] # NoRow => Advances(rows[h.key].status, c.status)
        BY <2>2, <1>a, TableFacts
      <3> QED  BY <2>2, <3>1, Opposite DEF Behind
    <2>3. Fine
      BY <2>1, <2>2, <1>a, HandlerChanges
    <2>4. o \in Keys /\ o[1] = h.key[1]
      BY <2>3, Opposite
    <2>5. Exists(o)' /\ (o[1] \notin raced' => Advances(h.cmd.status, rows'[o].status))
      BY <2>3, <2>4, BehindKept
    <2> QED  BY <2>3, <2>4, <2>5 DEF Exists
  <1>3. \A w \in web' : Advances(w.read.status, w.status)
    <2>1. ASSUME NEW u \in Keys, NEW op \in Ops, UpdateStatus(u, op), NEW w \in web'
          PROVE  \/ w \in web
                 \/ /\ w.status = op
                    /\ w.read.status \in (IF op = "closed" THEN {"pending", "valid"}
                                          ELSE {"pending"})
      BY <2>1 DEF UpdateStatus
    <2>2. \/ \E u \in Keys, op \in Ops : UpdateStatus(u, op)
          \/ web' \subseteq web
      BY DEF Next, vars, CommitFundsPullPreApproval, CreateAndApprove, Expiration, UpdateCommand,
             TaskStep, ProcessRequests, CommandFailed, SendCommand, CommandSent, SendTimeout,
             Restart, HandleCommand, HandleCommit
    <2> QED  BY <2>1, <2>2 DEF CommandInv, Advances
  <1> QED  BY <1>1, <1>2, <1>3 DEF CommandInv, Exists

\* A loop waits for an answer because it did, or because it has just sent a command; its
\* answer stays what it was, or is a failure, or is that of a command that was committed.
LEMMA SendChanges ==
    ASSUME TypeOK, RowsInv, LiveInv, [Next]_vars, NEW v \in Vasps, task'[v].pc = "send"
    PROVE  \/ \E k \in Keys :
                 /\ SendCommand(v, k) /\ task'[v].key = k /\ task'[v].reply = "waiting"
                 /\ task'[v].read = IF k \in DOMAIN task[v].read THEN task[v].read[k] ELSE rows[k]
           \/ /\ task[v].pc = "send" /\ task'[v].key = task[v].key /\ task'[v].read = task[v].read
              /\ \/ task'[v].reply \in {task[v].reply, "fail"}
                 \/ \E h \in handlers : HandleCommit(h) /\ h.cmd.live /\ Home(h.cmd.key) = v
  <1> USE DEF threads, history
  <1> DEFINE Same == /\ task[v].pc = "send" /\ task'[v].key = task[v].key
                     /\ task'[v].read = task[v].read
  <1>1. ASSUME NEW r, task[v] \in Sends, task'[v] = [task[v] EXCEPT !.reply = r]
        PROVE  Same /\ task'[v].reply = r
    BY <1>1, RowFacts DEF Sends
  <1>2. ASSUME NEW cmd \in net, HandleCommand(cmd)
        PROVE  Same /\ task'[v].reply \in {task[v].reply, "fail"}
    <2>1. cmd \in Commands /\ (cmd.live => Waiting(cmd))
      BY DEF TypeOK, LiveInv
    <2>2. Reply(cmd, "fail") \/ UNCHANGED task
      BY <1>2 DEF HandleCommand
    <2>3. \/ task'[v] = task[v]
          \/ task[v] \in Sends /\ task'[v] = [task[v] EXCEPT !.reply = "fail"]
      BY <2>1, <2>2, ReplyType
    <2> QED  BY <2>3, <1>1
  <1>3. ASSUME NEW h \in handlers, HandleCommit(h)
        PROVE  /\ Same
               /\ \/ task'[v].reply = task[v].reply
                  \/ h.cmd.live /\ Home(h.cmd.key) = v
    <2>1. h.cmd \in Commands /\ (h.cmd.live => Waiting(h.cmd))
      BY HandlerParts DEF TypeOK, LiveInv
    <2>2. PICK r \in {"ok", "fail"} : Reply(h.cmd, r)
      BY <1>3 DEF HandleCommit
    <2>3. \/ task'[v] = task[v]
          \/ /\ task[v] \in Sends /\ task'[v] = [task[v] EXCEPT !.reply = r]
             /\ h.cmd.live /\ Home(h.cmd.key) = v
      BY <2>1, <2>2, ReplyType
    <2> QED  BY <2>3, <1>1
  <1>4. ASSUME NEW u \in Vasps, Restart(u)
        PROVE  Same /\ task'[v].reply \in {task[v].reply, "fail"}
    <2> DEFINE lost == {h \in handlers : Home(h.key) = u}
               waits(x) == \E h \in lost : h.cmd.live /\ Home(h.cmd.key) = x
    <2>1. waits(v) => task[v] \in Sends
      BY TaskParts DEF LiveInv, Waiting
    <2>2. task'[v] = IF v = u THEN Idle ELSE IF waits(v) THEN [task[v] EXCEPT !.reply = "fail"]
                     ELSE task[v]
      BY <1>4 DEF Restart
    <2> QED  BY <2>1, <2>2, <1>1, RowFacts
  <1>5. ASSUME NEW u \in Vasps, SendTimeout(u) PROVE task'[v] = task[v]
    BY <1>5, RowFacts DEF SendTimeout, TypeOK
  <1>6. ASSUME NEW u \in Vasps, TaskStep(u)
        PROVE  \/ task'[v] = task[v]
               \/ \E k \in Keys :
                     /\ SendCommand(v, k) /\ task'[v].key = k /\ task'[v].reply = "waiting"
                     /\ task'[v].read =
                          IF k \in DOMAIN task[v].read THEN task[v].read[k] ELSE rows[k]
    <2>1. CASE u # v
      BY <1>6, <2>1 DEF TaskStep, TypeOK, ProcessRequests, CommandFailed, SendCommand, CommandSent
    <2>2. ASSUME CommandFailed(v) \/ CommandSent(v) \/ ProcessRequests(v)
          PROVE  task'[v].pc \in {"idle", "round"}
      BY <2>2, RowFacts DEF CommandFailed, CommandSent, ProcessRequests, Round, TypeOK
    <2>3. ASSUME NEW k \in Keys, SendCommand(v, k)
          PROVE  /\ task'[v].key = k /\ task'[v].reply = "waiting"
                 /\ task'[v].read = IF k \in DOMAIN task[v].read THEN task[v].read[k] ELSE rows[k]
      BY <2>3, RowFacts DEF SendCommand, TypeOK
    <2> QED  BY <1>6, <2>1, <2>2, <2>3 DEF TaskStep
  <1>7. \/ \E u \in Vasps : TaskStep(u) \/ SendTimeout(u) \/ Restart(u)
        \/ \E cmd \in net : HandleCommand(cmd)
        \/ \E h \in handlers : HandleCommit(h)
        \/ UNCHANGED task
    BY DEF Next, vars, CommitFundsPullPreApproval, CreateAndApprove, Expiration, UpdateStatus,
           UpdateCommand
  <1> QED  BY <1>2, <1>3, <1>4, <1>5, <1>6, <1>7

\* A command that was accepted leaves the other side's row where it says, or further on.
LEMMA Accepted ==
    ASSUME IInv, SentInv, CommandInv, TaskInv, [Next]_vars,
           NEW h \in handlers, HandleCommit(h), h.cmd.live, task'[Home(h.cmd.key)].reply = "ok",
           h.cmd.key[1] \notin raced'
    PROVE  LET o == Opponent(h.cmd.key)
           IN  Exists(o)' /\ Advances(h.cmd.status, rows'[o].status)
  <1> USE DEF threads, history
  <1> DEFINE o == Opponent(h.cmd.key)
             v == Home(h.cmd.key)
  <1>a. /\ TypeOK /\ RowsInv /\ h \in Handlers /\ h.key \in Keys /\ h.cmd.key \in Keys
        /\ h.cmd \in Commands /\ rows \in [Keys -> Rows \cup {NoRow}] /\ v \in Vasps
        /\ h.cmd.live => Waiting(h.cmd)
    BY HandlerParts, HomeType DEF IInv, TypeOK, LiveInv
  <1>b. /\ h.key[1] = h.cmd.key[1] /\ Exists(Opponent(h.key))
        /\ h.key[1] \notin raced => Advances(h.cmd.status, rows[Opponent(h.key)].status)
    BY DEF CommandInv
  <1>c. /\ o \in Keys /\ o[1] = h.cmd.key[1] /\ h.cmd.key[1] \notin raced
        /\ h.key = o \/ h.key = h.cmd.key
    BY <1>a, <1>b, Opposite, RacedGrows
  <1>1. CASE h.key = h.cmd.key
    <2>1. Exists(o) /\ Advances(h.cmd.status, rows[o].status)
      BY <1>1, <1>b, <1>c
    <2>2. Behind(o, h.cmd.status)
      BY <2>1 DEF Behind
    <2> QED  BY <1>c, <2>1, <2>2, BehindKept
  <1>2. CASE h.key = o /\ h.read = NoRow
    <2>1. Reply(h.cmd, IF rows[h.key] = NoRow THEN "ok" ELSE "fail")
      BY <1>2 DEF HandleCommit
    <2>2. task[v] \in Sends /\ v \in DOMAIN task
      BY <1>a, TaskParts DEF Waiting, TypeOK
    <2>3. ASSUME rows[h.key] # NoRow PROVE task'[v].reply = "fail"
      <3>1. task' = [task EXCEPT ![v] = [task[v] EXCEPT !.reply = "fail"]]
        BY <2>1, <2>3 DEF Reply
      <3>2. task'[v] = [task[v] EXCEPT !.reply = "fail"]
        BY <2>2, <3>1
      <3> QED  BY <2>2, <3>2 DEF Sends
    <2>4. rows[h.key] = NoRow
      BY <2>3
    <2>5. rows' = [rows EXCEPT ![h.key] = [status |-> h.cmd.status, known |-> TRUE,
                                           sent |-> "no"]]
      BY <1>2, <2>4 DEF HandleCommit
    <2>6. rows'[o] = [status |-> h.cmd.status, known |-> TRUE, sent |-> "no"]
      BY <1>2, <1>c, <2>5, <1>a
    <2>7. rows'[o].status = h.cmd.status /\ rows'[o] # NoRow
      BY <2>6 DEF NoRow
    <2> QED  BY <2>7, AdvanceFacts DEF Exists
  <1>3. CASE h.key = o /\ h.read # NoRow
    <2> DEFINE old == rows[h.key]
               row == [old EXCEPT
                  !.status = IF h.read.status = h.cmd.status THEN @ ELSE h.cmd.status,
                  !.sent = IF h.read.sent = "null" THEN @ ELSE "null",
                  !.known = TRUE]
    <2>1. old \in Rows
      BY <1>3, <1>a DEF RowsInv, Exists
    <2>2. rows' = [rows EXCEPT ![h.key] = row]
      BY <1>3, <1>a, <2>1 DEF HandleCommit
    <2>3. rows'[o] = row
      BY <1>3, <1>c, <2>2, <1>a
    <2>4. old.status = h.read.status
      BY <1>3, <1>c DEF HandleCommit
    <2>5. row.status = h.cmd.status /\ row \in Rows
      <3>1. h.cmd.status \in Statuses
        BY <1>a, HandlerParts
      <3> QED  BY <2>1, <2>4, <3>1 DEF Rows
    <2> HIDE DEF row
    <2> QED  BY <2>3, <2>5, RowFacts, AdvanceFacts DEF Exists
  <1> QED  BY <1>1, <1>2, <1>3, <1>c

\* Every step keeps what the loops have read and were told.
LEMMA TasksStep == IInv /\ SentInv /\ CommandInv /\ TaskInv /\ [Next]_vars => TaskInv'
  <1> SUFFICES ASSUME IInv, SentInv, CommandInv, TaskInv, [Next]_vars, NEW v \in Vasps
               PROVE  /\ task'[v].pc = "round" =>
                            \A k \in DOMAIN task'[v].read :
                               /\ rows'[k] # NoRow
                               /\ k[1] \notin raced' =>
                                     Advances(task'[v].read[k].status, rows'[k].status)
                      /\ task'[v].pc = "send" =>
                            LET k == task'[v].key
                            IN  /\ task'[v].reply = "ok" /\ k[1] \notin raced' =>
                                      /\ rows'[Opponent(k)] # NoRow
                                      /\ Advances(task'[v].read.status, rows'[Opponent(k)].status)
                                /\ \A c \in net' : c.live /\ Home(c.key)' = v =>
                                      c.status = task'[v].read.status
                                /\ \A h \in handlers' : h.cmd.live /\ Home(h.cmd.key)' = v =>
                                      h.cmd.status = task'[v].read.status
    BY DEF TaskInv, Exists
  <1> USE DEF threads, history
  <1>a. TypeOK /\ RowsInv /\ LiveInv /\ LiveInv'
    BY LiveStep DEF IInv
  <1>l. \A k : Home(k)' = Home(k)
    BY LocalStep
  <1>1. ASSUME task'[v].pc = "round", NEW k \in DOMAIN task'[v].read
        PROVE  /\ rows'[k] # NoRow
               /\ k[1] \notin raced' => Advances(task'[v].read[k].status, rows'[k].status)
    <2>1. CASE task'[v] = task[v]
      <3>1. /\ k \in Keys /\ Exists(k)
            /\ k[1] \notin raced => Advances(task[v].read[k].status, rows[k].status)
        BY <1>1, <2>1, <1>a, TaskParts, RoundParts DEF TaskInv
      <3>2. Behind(k, task[v].read[k].status)
        BY <3>1 DEF Behind
      <3> QED  BY <2>1, <3>1, <3>2, BehindKept DEF Exists
    <2>2. CASE ProcessRequests(v)
      <3> DEFINE todo == {j \in Keys : Home(j) = v /\ rows[j] # NoRow /\ rows[j].sent = "no"}
      <3>1. task'[v] = Round(todo, todo) /\ rows' = rows
        BY <2>2, <1>a DEF ProcessRequests, TypeOK
      <3>2. k \in todo /\ task'[v].read[k] = rows[k]
        BY <1>1, <3>1 DEF Round
      <3> QED  BY <3>1, <3>2, AdvanceFacts
    <2>3. CASE CommandSent(v)
      <3>1. task'[v] = Round(task[v].todo, {})
        BY <1>1, <2>3, <1>a, RowFacts DEF CommandSent, TypeOK
      <3> QED  BY <1>1, <3>1 DEF Round
    <2> QED  BY <1>1, <1>a, <2>1, <2>2, <2>3, TaskChanges
  <1>2. ASSUME NEW k \in Keys, SendCommand(v, k), task'[v].pc = "send", task'[v].key = k,
               task'[v].reply = "waiting",
               task'[v].read = IF k \in DOMAIN task[v].read THEN task[v].read[k] ELSE rows[k]
        PROVE  /\ task'[v].reply # "ok"
               /\ \A c \in net' : c.live /\ Home(c.key) = v => c.status = task'[v].read.status
               /\ \A h \in handlers' : h.cmd.live /\ Home(h.cmd.key) = v =>
                     h.cmd.status = task'[v].read.status
    <2>1. task[v].pc = "round"
      BY <1>2 DEF SendCommand
    <2>2. handlers' = handlers /\ \A c \in net' : c \in net \/ c.status = task'[v].read.status
      BY <1>2 DEF SendCommand
    <2>3. /\ \A c \in net : c.live => Home(c.key) # v
          /\ \A h \in handlers : h.cmd.live => Home(h.cmd.key) # v
      BY <2>1, <1>a DEF LiveInv, Waiting
    <2> QED  BY <1>2, <2>2, <2>3
  <1>3. ASSUME task'[v].pc = "send", task[v].pc = "send",
               task'[v].key = task[v].key, task'[v].read = task[v].read
        PROVE  /\ \A c \in net' : c.live /\ Home(c.key) = v => c.status = task'[v].read.status
               /\ \A h \in handlers' : h.cmd.live /\ Home(h.cmd.key) = v =>
                     h.cmd.status = task'[v].read.status
    <2>0. /\ \A c \in net : c.live /\ Home(c.key) = v => c.status = task[v].read.status
          /\ \A h \in handlers : h.cmd.live /\ Home(h.cmd.key) = v =>
                h.cmd.status = task[v].read.status
      BY <1>3 DEF TaskInv
    <2>1. ASSUME NEW c \in net', c.live, Home(c.key) = v PROVE c.status = task[v].read.status
      <3>1. ASSUME NEW u \in Vasps, NEW k \in Keys, SendCommand(u, k), c.key = k PROVE FALSE
        <4>1. Home(k) = u
          BY <3>1, <1>a DEF SendCommand, RowsInv
        <4>2. task[v].pc = "round"
          BY <2>1, <3>1, <4>1 DEF SendCommand
        <4> QED  BY <4>2, <1>3
      <3> QED  BY <2>0, <2>1, <3>1, <1>a, NetChanges
    <2>2. ASSUME NEW h \in handlers', h.cmd.live, Home(h.cmd.key) = v
          PROVE  h.cmd.status = task[v].read.status
      BY <2>0, <2>2, <1>a, HandlerChanges
    <2> QED  BY <1>3, <2>1, <2>2
  <1>4. ASSUME task'[v].pc = "send", task[v].pc = "send",
               task'[v].key = task[v].key, task'[v].read = task[v].read, task'[v].reply = "ok",
               \/ task'[v].reply \in {task[v].reply, "fail"}
               \/ \E h \in handlers : HandleCommit(h) /\ h.cmd.live /\ Home(h.cmd.key) = v,
               task'[v].key[1] \notin raced'
        PROVE  /\ rows'[Opponent(task'[v].key)] # NoRow
               /\ Advances(task'[v].read.status, rows'[Opponent(task'[v].key)].status)
    <2> DEFINE k == task[v].key
               o == Opponent(k)
    <2>1. k \in Keys /\ o \in Keys /\ o[1] = k[1] /\ k[1] \notin raced
      BY <1>4, <1>a, TaskParts, Opposite, RacedGrows DEF Sends
    <2>2. CASE task[v].reply = "ok"
      <3>1. Exists(o) /\ Advances(task[v].read.status, rows[o].status)
        BY <1>4, <2>1, <2>2 DEF TaskInv
      <3>2. Behind(o, task[v].read.status)
        BY <3>1 DEF Behind
      <3>3. rows'[o] # NoRow /\ Advances(task[v].read.status, rows'[o].status)
        <4> HIDE DEF o
        <4>1. \A j \in Keys : \A s : Exists(j) /\ Behind(j, s) /\ j[1] \notin raced'
                     => rows'[j] # NoRow /\ Advances(s, rows'[j].status)
          BY BehindKept DEF Exists
        <4> QED  BY <1>4, <2>1, <3>1, <3>2, <4>1
      <3> QED  BY <1>4, <3>3
    <2>3. ASSUME NEW h \in handlers, HandleCommit(h), h.cmd.live, Home(h.cmd.key) = v
          PROVE  rows'[o] # NoRow /\ Advances(task[v].read.status, rows'[o].status)
      <3>1. h.cmd.key = k /\ h.cmd.status = task[v].read.status
        BY <1>4, <2>3, <1>a DEF LiveInv, Waiting, TaskInv
      <3>2. task'[Home(h.cmd.key)].reply = "ok" /\ h.cmd.key[1] \notin raced'
        BY <1>4, <2>3, <3>1
      <3>3. /\ rows'[Opponent(h.cmd.key)] # NoRow
            /\ Advances(h.cmd.status, rows'[Opponent(h.cmd.key)].status)
        BY <2>3, <3>2, Accepted DEF Exists
      <3> QED  BY <1>4, <3>1, <3>3
    <2> QED  BY <1>4, <2>2, <2>3
  <1>5. CASE task'[v].pc = "send"
    <2>1. ASSUME NEW k \in Keys, SendCommand(v, k), task'[v].key = k, task'[v].reply = "waiting",
                 task'[v].read = IF k \in DOMAIN task[v].read THEN task[v].read[k] ELSE rows[k]
          PROVE  /\ task'[v].reply # "ok"
                 /\ \A c \in net' : c.live /\ Home(c.key) = v => c.status = task'[v].read.status
                 /\ \A h \in handlers' : h.cmd.live /\ Home(h.cmd.key) = v =>
                       h.cmd.status = task'[v].read.status
      BY <1>2, <1>5, <2>1
    <2> QED  BY <1>5, <2>1, <1>3, <1>4, <1>a, <1>l, SendChanges
  <1> QED  BY <1>1, <1>5, <1>l, RowFacts

\* In every reachable state, for any pre-approvals, users and faults: a row only advances,
\* what one VASP does not have to send the other one has, and no command, however late,
\* says more than its sender's row, as long as all writes saw one another.
THEOREM AgreeInvariant == Spec => []AgreeInv
  <1>1. Init => SentInv /\ CommandInv /\ TaskInv
    <2> SUFFICES ASSUME Init PROVE SentInv /\ CommandInv /\ TaskInv
      OBVIOUS
    <2>1. \A v \in Vasps : task[v].pc = "idle"
      BY RowFacts DEF Init
    <2> QED  BY <2>1 DEF Init, SentInv, CommandInv, TaskInv, Exists
  <1>2. IInv /\ [Next]_vars => IInv'
    BY TypeStep, RowsStep, LiveStep, BackedStep, ReadStep DEF IInv
  <1>3. AgreeInv /\ [Next]_vars => AgreeInv'
    BY <1>2, SentStep, CommandStep, TasksStep DEF AgreeInv
  <1>4. Init => AgreeInv
    BY <1>1, InitIInv DEF AgreeInv
  <1> QED  BY <1>3, <1>4, PTL DEF Spec

\* When both VASPs have a row about a pre-approval and have sent what there is to send, the
\* two rows say the same, however commands crossed, were lost, repeated or came late, unless
\* some write about it did not see another one.
THEOREM Agreement == Spec => []Agreed
  <1>1. AgreeInv => Agreed
    <2> SUFFICES ASSUME AgreeInv, NEW f \in Ids \ raced, Quiet(f),
                        \A k \in {f} \X Roles : rows[k] # NoRow
                 PROVE  rows[<<f, "payee">>].status = rows[<<f, "payer">>].status
      BY DEF Agreed
    <2> DEFINE payee == <<f, "payee">>
               payer == <<f, "payer">>
    <2>1. /\ payee \in Keys /\ payer \in Keys /\ payee[1] = f /\ payer[1] = f
          /\ payee \in {f} \X Roles /\ payer \in {f} \X Roles
          /\ Opponent(payee) = payer /\ Opponent(payer) = payee
      BY DEF Keys, Roles, Opponent
    <2>2. \A k \in {payee, payer} : Exists(k) /\ rows[k].sent # "no"
      BY <2>1 DEF Quiet, Exists
    <2>3. /\ Advances(rows[payee].status, rows[payer].status)
          /\ Advances(rows[payer].status, rows[payee].status)
      BY <2>1, <2>2 DEF AgreeInv, SentInv
    <2> QED  BY <2>3, AdvanceFacts
  <1> QED  BY <1>1, AgreeInvariant, PTL
=============================================================================
