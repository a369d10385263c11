---------------------------- MODULE Transactions ----------------------------
(***************************************************************************)
(* The wallet's ledger: the transaction table, from which every balance is *)
(* computed; the web threads that serve send_transaction; the broker's     *)
(* jobs and the worker threads that submit withdrawals to the chain and    *)
(* book what arrives there.  A balance is read first and the row that uses *)
(* it is committed later, a job is acknowledged after its last commit, and *)
(* a job whose worker dies is given to another one.                        *)
(***************************************************************************)
EXTENDS Integers, Sequences, FiniteSets

CONSTANTS
    Accounts, Inventory,    \* the customers' accounts and the wallet's own
    Amounts,                \* amounts of transfers and deposits
    Threshold,              \* TX_AMOUNT_THRESHOLD: more needs the travel rule
    Threads, Workers,       \* of the web process, of the worker processes
    Tries,                  \* attempts of process_incoming_txn
    None,                   \* outside of the wallet, unknown subaddress, no worker
    MaxSends, MaxDeposits,  \* bounds: users' transfers, transfers from outside
    FaultKinds,             \* subset of {"resend", "timeout", "web"}
    CrashAt,                \* where a worker may die: subset of WorkerPcs
    MaxFaults               \* bound: faults

WorkerPcs == {"book", "retry", "refund", "refund_write", "refund_enqueue", "wait", "ack"}

ASSUME TransactionsAssumption ==
    /\ Inventory \in Accounts /\ None \notin Accounts \cup Workers
    /\ Amounts \subseteq Nat \ {0} /\ \E n \in Amounts : \A m \in Amounts : m <= n
    /\ IsFiniteSet(Threads) /\ Threads # {} /\ Threshold \in Nat /\ Tries \in Nat \ {0}
    /\ MaxSends \in Nat /\ MaxDeposits \in Nat /\ MaxFaults \in Nat
    /\ FaultKinds \subseteq {"resend", "timeout", "web"} /\ CrashAt \subseteq WorkerPcs

VARIABLES
    txs,        \* the transaction table: a sequence of rows, a row's id is its place
    web,        \* [Threads -> a request between its balance check and its end, or Idle]
    commands,   \* payment commands saved for transfers above the threshold
    jobs,       \* the broker's queue
    worker,     \* [Workers -> a job in progress, or Idle]
    pool,       \* transactions submitted to the chain, not yet executed
    seqno,      \* sequence number of the wallet's chain account
    chain,      \* the transfers the chain executed; a version is a place in it
    sends, faults   \* counters for the bounds

vars == <<txs, web, commands, jobs, worker, pool, seqno, chain, sends, faults>>
onchain == <<pool, seqno, chain>>

-----------------------------------------------------------------------------
Parties == Accounts \cup {None}
Rows == [type : {"internal", "external", "refund", "offchain"},
         status : {"pending", "completed", "canceled", "need_refund"},
         amount : Amounts, source : Parties, destination : Parties,
         version : Nat,         \* blockchain_version, 0 for null
         original : Nat]        \* original_txn_id, 0 for null
Events == [kind : {"deposit"}, amount : Amounts, to : Parties, from_subaddress : BOOLEAN]
     \cup [kind : {"plain"}, amount : Amounts]
     \cup [kind : {"refund"}, amount : Amounts, of : Nat \ {0}]
     \cup [kind : {"out"}, amount : Amounts, row : Nat \ {0}, seq : Nat,
           by : Workers \cup {None}]
Jobs == [actor : {"process_incoming_txn", "async_external_transaction"}, of : Nat \ {0}]

Idle == [pc |-> "idle"]
WebRequests == [pc : {"write"}, from : Accounts, to : Parties, amount : Amounts]
          \cup [pc : {"enqueue"}, row : Nat \ {0}]
\* arg is the number of failed attempts, the row of the table or the sequence
\* number the step after pc needs.
Attempts == [pc : WorkerPcs, job : Jobs, arg : Nat]
Submissions == [row : Nat \ {0}, seq : Nat, amount : Amounts, by : Workers \cup {None}]
At(pc, job, arg) == [pc |-> pc, job |-> job, arg |-> arg]

Row(type, status, amount, source, destination, version, original) ==
    [type |-> type, status |-> status, amount |-> amount, source |-> source,
     destination |-> destination, version |-> version, original |-> original]

Largest == CHOOSE n \in Amounts : \A m \in Amounts : m <= n
\* What the entries I of a table add up to: the number of units in them.
Total(table, I) == Cardinality({u \in I \X (1..Largest) : u[2] <= table[u[1]].amount})

\* Mutant: a recorded deposit counts whatever its status.
CreditsM(S) == {i \in DOMAIN txs : txs[i].destination \in S}

\* Credits count once completed, debits unless canceled.
Credits(S) == {i \in DOMAIN txs : txs[i].destination \in S /\ txs[i].status = "completed"}
Debits(S) == {i \in DOMAIN txs : txs[i].source \in S /\ txs[i].status # "canceled"}
BalanceOf(S) == Total(txs, Credits(S)) - Total(txs, Debits(S))
CalcAccountBalance(a) == BalanceOf({a})

\* Mutant: funds already reserved for a withdrawal may be spent again.
ValidateBalanceM(a, amount) == amount <= Total(txs, Credits({a}))

ValidateBalance(a, amount) == amount <= CalcAccountBalance(a)

Incoming(v) == [actor |-> "process_incoming_txn", of |-> v]
External(i) == [actor |-> "async_external_transaction", of |-> i]
\* get_transaction_by_details
Recorded(v) == \E i \in DOMAIN txs : txs[i].version = v /\ txs[i].destination # None
\* get_transaction_by_blockchain_version
RowsOfVersion(v) == {i \in DOMAIN txs : txs[i].version = v}

Fault(kind) == kind \in FaultKinds /\ faults < MaxFaults /\ faults' = faults + 1

Init ==
    /\ txs = << >> /\ commands = {} /\ jobs = {} /\ pool = {} /\ seqno = 0 /\ chain = << >>
    /\ web = [t \in Threads |-> Idle] /\ worker = [w \in Workers |-> Idle]
    /\ sends = 0 /\ faults = 0

-----------------------------------------------------------------------------
(* The web threads.                                                        *)

\* send_transaction up to its last balance check.
SendTransaction(t, from, to, amount) ==
    /\ web[t] = Idle /\ from # to /\ sends < MaxSends
    /\ ValidateBalance(from, amount)
    /\ sends' = sends + 1
    /\ IF to = None /\ amount > Threshold
       THEN /\ commands' = commands \cup {[from |-> from, amount |-> amount, n |-> sends]}
            /\ UNCHANGED web
       ELSE /\ web' = [web EXCEPT ![t] = [pc |-> "write", from |-> from, to |-> to,
                                          amount |-> amount]]
            /\ UNCHANGED commands
    /\ UNCHANGED <<txs, jobs, worker, onchain, faults>>

\* internal_transaction, external_transaction: the commit of the row.
AddTransaction(t) ==
    /\ web[t].pc = "write"
    /\ LET r == web[t]
           new == IF r.to = None
                  THEN Row("external", "pending", r.amount, r.from, None, 0, 0)
                  ELSE Row("internal", "completed", r.amount, r.from, r.to, 0, 0)
       IN  /\ txs' = Append(txs, new)
           /\ web' = [web EXCEPT ![t] = IF r.to = None
                                        THEN [pc |-> "enqueue", row |-> Len(txs) + 1]
                                        ELSE Idle]
    /\ UNCHANGED <<commands, jobs, worker, onchain, sends, faults>>

\* async_external_transaction.send
Enqueue(t) ==
    /\ web[t].pc = "enqueue"
    /\ jobs' = jobs \cup {External(web[t].row)}
    /\ web' = [web EXCEPT ![t] = Idle]
    /\ UNCHANGED <<txs, commands, worker, onchain, sends, faults>>

\* The web process restarts.
WebRestart ==
    /\ Fault("web") /\ \E t \in Threads : web[t] # Idle
    /\ web' = [t \in Threads |-> Idle]
    /\ UNCHANGED <<txs, commands, jobs, worker, onchain, sends>>

\* A payment command's way through the travel rule flow, see P2PPayment: it is
\* paid and then booked, without another look at the balance.
SettleCommand(c) ==
    /\ c \in commands
    /\ commands' = commands \ {c}
    /\ chain' = Append(chain, [kind |-> "out", amount |-> c.amount, row |-> Len(txs) + 1,
                               seq |-> seqno, by |-> None])
    /\ seqno' = seqno + 1
    /\ txs' = Append(txs, Row("offchain", "completed", c.amount, c.from, None,
                              Len(chain) + 1, 0))
    /\ UNCHANGED <<web, jobs, worker, pool, sends, faults>>

-----------------------------------------------------------------------------
(* The chain and the delivery of its events.                               *)

Arrivals == {v \in DOMAIN chain : chain[v].kind # "out"}

\* A transfer arrives.  PubSub hands its event to the broker at least once.
Arrive(event) ==
    /\ Cardinality(Arrivals) < MaxDeposits
    /\ chain' = Append(chain, event)
    /\ jobs' = jobs \cup {Incoming(Len(chain) + 1)}
    /\ UNCHANGED <<txs, web, commands, worker, pool, seqno, sends, faults>>

Deposit(to, amount, from_subaddress) ==
    Arrive([kind |-> "deposit", amount |-> amount, to |-> to,
            from_subaddress |-> from_subaddress])

\* Without metadata, or with metadata of another kind.
PlainDeposit(amount) == Arrive([kind |-> "plain", amount |-> amount])

\* The other VASP knows no such subaddress and sends a withdrawal back.
RefundByPeer(v) ==
    /\ chain[v].kind = "out" /\ chain[v].row \in DOMAIN txs
    /\ txs[chain[v].row].type = "external"
    /\ \A u \in Arrivals : chain[u].kind = "refund" => chain[u].of # v
    /\ Arrive([kind |-> "refund", amount |-> chain[v].amount, of |-> v])

\* PubSub sends an event again, see PubSub.
Resend(v) ==
    /\ v \in Arrivals /\ Fault("resend")
    /\ jobs' = jobs \cup {Incoming(v)}
    /\ UNCHANGED <<txs, web, commands, worker, onchain, sends>>

Payouts == DOMAIN chain \ Arrivals
Holdings == Total(chain, Arrivals) - Total(chain, Payouts)

\* A submitted transaction is executed when its sequence number is next; without
\* the funds it fails and uses the number up.
Execute(p) ==
    /\ p \in pool /\ p.seq = seqno
    /\ pool' = pool \ {p} /\ seqno' = seqno + 1
    /\ chain' = IF p.amount <= Holdings
                THEN Append(chain, [kind |-> "out", amount |-> p.amount, row |-> p.row,
                                    seq |-> p.seq, by |-> p.by])
                ELSE chain
    /\ UNCHANGED <<txs, web, commands, jobs, worker, sends, faults>>

\* The transaction that the worker w submitted for its job.
Executed(w) ==
    {v \in DOMAIN chain : /\ chain[v].kind = "out" /\ chain[v].by = w
                          /\ chain[v].row = worker[w].job.of /\ chain[v].seq = worker[w].arg}
\* Nobody waits any more for what w submitted.
Abandoned(w) ==
    {p \in pool : p.by # w}
    \cup {[p EXCEPT !.by = None] : p \in {q \in pool : q.by = w}}
Submission(w, job) ==
    [row |-> job.of, seq |-> seqno, amount |-> txs[job.of].amount, by |-> w]

-----------------------------------------------------------------------------
(* The worker threads.                                                     *)

Rest == <<web, commands, sends>>

\* Mutant: an event that is recorded already is booked again.
AttemptM(w, job, failed) ==
    LET event == chain[job.of] IN
    worker' = [worker EXCEPT ![w] =
        IF event.kind = "refund" /\ RowsOfVersion(event.of) = {} /\ failed + 1 < Tries
        THEN At("retry", job, failed + 1)
        ELSE IF \/ event.kind = "plain"
                \/ event.kind = "refund" /\ RowsOfVersion(event.of) = {}
             THEN At("ack", job, 0)
             ELSE At("book", job, 0)]

\* process_incoming_transaction up to its first commit.  It does nothing with a
\* transfer without general, travel rule or refund metadata.  A refund of an
\* unknown transaction fails; process_incoming_txn tries again, then the job is
\* lost.
Attempt(w, job, failed) ==
    LET event == chain[job.of] IN
    worker' = [worker EXCEPT ![w] =
        IF event.kind = "refund" /\ RowsOfVersion(event.of) = {} /\ failed + 1 < Tries
        THEN At("retry", job, failed + 1)
        ELSE IF \/ event.kind = "plain" \/ Recorded(job.of)
                \/ event.kind = "refund" /\ RowsOfVersion(event.of) = {}
             THEN At("ack", job, 0)
             ELSE At("book", job, 0)]

ProcessIncomingTxn(w, job) ==
    /\ worker[w] = Idle /\ job \in jobs /\ job.actor = "process_incoming_txn"
    /\ jobs' = jobs \ {job}
    /\ Attempt(w, job, 0)
    /\ UNCHANGED <<txs, onchain, Rest, faults>>

Retry(w) ==
    /\ worker[w].pc = "retry"
    /\ Attempt(w, worker[w].job, worker[w].arg)
    /\ UNCHANGED <<txs, jobs, onchain, Rest, faults>>

\* What is recorded of an event.  No subaddress stands for the inventory account.
IncomingRow(v) ==
    LET event == chain[v] IN
    CASE event.kind = "refund" ->
           LET i == CHOOSE i \in RowsOfVersion(event.of) : TRUE
           IN  Row("refund", "completed", event.amount, None, txs[i].source, v, i)
      [] event.kind = "deposit" /\ event.to = None ->
           Row("external", "need_refund", event.amount, None, Inventory, v, 0)
      [] OTHER -> Row("external", "completed", event.amount, None, event.to, v, 0)

\* Its commit.
Book(w) ==
    /\ worker[w].pc = "book"
    /\ LET job == worker[w].job
           row == IncomingRow(job.of)
       IN  /\ txs' = Append(txs, row)
           /\ worker' = [worker EXCEPT ![w] =
                 IF row.status = "need_refund" THEN At("refund", job, Len(txs) + 1)
                                               ELSE At("ack", job, 0)]
    /\ UNCHANGED <<jobs, onchain, Rest, faults>>

\* send_transaction from the inventory account.  Without a sender's subaddress it
\* does nothing; without the funds it fails, and the next attempt finds the event
\* recorded.
Refund(w) ==
    /\ worker[w].pc = "refund"
    /\ LET job == worker[w].job
           amount == chain[job.of].amount
           able == /\ chain[job.of].from_subaddress
                   /\ ValidateBalance(Inventory, amount)
       IN  /\ worker' = [worker EXCEPT ![w] =
                 IF able /\ amount <= Threshold THEN At("refund_write", job, worker[w].arg)
                                                ELSE At("ack", job, 0)]
           /\ commands' = IF able /\ amount > Threshold
                          THEN commands \cup {[from |-> Inventory, amount |-> amount,
                                               n |-> MaxSends + job.of]}
                          ELSE commands
    /\ UNCHANGED <<txs, web, jobs, onchain, sends, faults>>

RefundWrite(w) ==
    /\ worker[w].pc = "refund_write"
    /\ LET job == worker[w].job IN
       /\ txs' = Append(txs, Row("refund", "pending", chain[job.of].amount, Inventory, None,
                                 0, worker[w].arg))
       /\ worker' = [worker EXCEPT ![w] = At("refund_enqueue", job, Len(txs) + 1)]
    /\ UNCHANGED <<jobs, onchain, Rest, faults>>

RefundEnqueue(w) ==
    /\ worker[w].pc = "refund_enqueue"
    /\ jobs' = jobs \cup {External(worker[w].arg)}
    /\ worker' = [worker EXCEPT ![w] = At("ack", worker[w].job, 0)]
    /\ UNCHANGED <<txs, onchain, Rest, faults>>

\* Mutant: the row's status is not looked at.
SubmitOnchainM(w, job) ==
    /\ worker[w] = Idle /\ job \in jobs /\ job.actor = "async_external_transaction"
    /\ jobs' = jobs \ {job}
    /\ pool' = pool \cup {Submission(w, job)}
    /\ worker' = [worker EXCEPT ![w] = At("wait", job, seqno)]
    /\ UNCHANGED <<txs, seqno, chain, Rest, faults>>

\* submit_onchain up to the wait for the transaction.
SubmitOnchain(w, job) ==
    /\ worker[w] = Idle /\ job \in jobs /\ job.actor = "async_external_transaction"
    /\ jobs' = jobs \ {job}
    /\ IF txs[job.of].status = "pending"
       THEN /\ pool' = pool \cup {Submission(w, job)}
            /\ worker' = [worker EXCEPT ![w] = At("wait", job, seqno)]
       ELSE /\ UNCHANGED pool
            /\ worker' = [worker EXCEPT ![w] = At("ack", job, 0)]
    /\ UNCHANGED <<txs, seqno, chain, Rest, faults>>

\* It was executed: the commit of its version.
SubmitDone(w) ==
    /\ worker[w].pc = "wait"
    /\ \E v \in Executed(w) :
          txs' = [txs EXCEPT ![worker[w].job.of].status = "completed",
                             ![worker[w].job.of].version = v]
    /\ worker' = [worker EXCEPT ![w] = At("ack", worker[w].job, 0)]
    /\ UNCHANGED <<jobs, onchain, Rest, faults>>

\* The exception handler of submit_onchain.
Cancel(w) ==
    /\ txs' = [txs EXCEPT ![worker[w].job.of].status = "canceled"]
    /\ worker' = [worker EXCEPT ![w] = At("ack", worker[w].job, 0)]
    /\ pool' = Abandoned(w)
    /\ UNCHANGED <<jobs, seqno, chain, Rest>>

\* Mutant: a failed submission leaves the row as it is.
SubmitFailedM(w) ==
    /\ worker[w].pc = "wait" /\ worker[w].arg < seqno
    /\ Executed(w) = {}
    /\ worker' = [worker EXCEPT ![w] = At("ack", worker[w].job, 0)]
    /\ UNCHANGED <<txs, jobs, onchain, Rest, faults>>

\* Its sequence number was used up, by itself or by another one.
SubmitFailed(w) ==
    /\ worker[w].pc = "wait" /\ worker[w].arg < seqno
    /\ Executed(w) = {}
    /\ Cancel(w)
    /\ UNCHANGED faults

\* wait_for_transaction gives up, but the transaction may still be executed.
SubmitTimeout(w) ==
    /\ worker[w].pc = "wait" /\ Fault("timeout")
    /\ Cancel(w)

Acknowledge(w) ==
    /\ worker[w].pc = "ack"
    /\ worker' = [worker EXCEPT ![w] = Idle]
    /\ UNCHANGED <<txs, jobs, onchain, Rest, faults>>

\* Mutant: a job is acknowledged when a worker takes it.
WorkerCrashM(w) ==
    /\ worker[w] # Idle /\ worker[w].pc \in CrashAt
    /\ faults < MaxFaults /\ faults' = faults + 1
    /\ worker' = [worker EXCEPT ![w] = Idle]
    /\ pool' = Abandoned(w)
    /\ UNCHANGED <<txs, jobs, seqno, chain, Rest>>

\* The worker dies; the broker gives its job to another one.
WorkerCrash(w) ==
    /\ worker[w] # Idle /\ worker[w].pc \in CrashAt
    /\ faults < MaxFaults /\ faults' = faults + 1
    /\ jobs' = jobs \cup {worker[w].job}
    /\ worker' = [worker EXCEPT ![w] = Idle]
    /\ pool' = Abandoned(w)
    /\ UNCHANGED <<txs, seqno, chain, Rest>>

-----------------------------------------------------------------------------
WebStep(t) == AddTransaction(t) \/ Enqueue(t)

WorkerStep(w) ==
    \/ \E job \in jobs : ProcessIncomingTxn(w, job) \/ SubmitOnchain(w, job)
    \/ Retry(w) \/ Book(w) \/ Refund(w) \/ RefundWrite(w) \/ RefundEnqueue(w)
    \/ SubmitDone(w) \/ SubmitFailed(w) \/ Acknowledge(w)

UserStep ==
    \/ \E t \in Threads, from \in Accounts \ {Inventory}, to \in Parties, n \in Amounts :
          SendTransaction(t, from, to, n)
    \/ \E to \in Parties, n \in Amounts, b \in BOOLEAN : Deposit(to, n, b)
    \/ \E n \in Amounts : PlainDeposit(n)
    \/ \E v \in DOMAIN chain : RefundByPeer(v)

FaultStep ==
    \/ WebRestart
    \/ \E v \in DOMAIN chain : Resend(v)
    \/ \E w \in Workers : SubmitTimeout(w) \/ WorkerCrash(w)

Next ==
    \/ UserStep \/ FaultStep
    \/ \E t \in Threads : WebStep(t)
    \/ \E c \in commands : SettleCommand(c)
    \/ \E p \in pool : Execute(p)
    \/ \E w \in Workers : WorkerStep(w)

Spec == Init /\ [][Next]_vars

\* Threads and workers do not stop for ever, and the chain executes what is next.
Fairness ==
    /\ \A t \in Threads : WF_vars(WebStep(t))
    /\ \A w \in Workers : WF_vars(WorkerStep(w))
    /\ WF_vars(\E p \in pool : Execute(p))

FairSpec == Spec /\ Fairness

-----------------------------------------------------------------------------
(* Properties.                                                             *)

TypeOK ==
    /\ txs \in Seq(Rows) /\ web \in [Threads -> WebRequests \cup {Idle}]
    /\ commands \subseteq [from : Accounts, amount : Amounts, n : Nat]
    /\ jobs \subseteq Jobs /\ worker \in [Workers -> Attempts \cup {Idle}]
    /\ pool \subseteq Submissions
    /\ seqno \in Nat /\ chain \in Seq(Events) /\ sends \in Nat /\ faults \in Nat

\* The ledger is a custody of the customers' money: see Custody.  A deposit is
\* due until its row is committed; a withdrawal is paid once the chain executed
\* it, whatever its row says, and released once its row is canceled.
AccountOf(event) ==
    CASE event.kind = "refund" -> txs[chain[event.of].row].source
      [] event.kind = "deposit" -> event.to
      [] event.kind = "plain" -> None
DepositState(v) ==
    [state |-> IF \E i \in DOMAIN txs : txs[i].version = v /\ txs[i].status = "completed"
               THEN "credited"
               ELSE IF Recorded(v) THEN "parked" ELSE "due",
     to |-> AccountOf(chain[v]), amount |-> chain[v].amount]
Paid(i) == \E v \in Payouts : chain[v].row = i
WithdrawalState(i) ==
    [state |-> IF txs[i].status = "canceled" THEN "released"
               ELSE IF Paid(i) THEN "paid" ELSE "reserved",
     from |-> txs[i].source, amount |-> txs[i].amount]
Withdrawals == {i \in DOMAIN txs : txs[i].source # None /\ txs[i].type # "internal"}

Balances == [a \in Accounts |-> CalcAccountBalance(a)]
DepositStates == [v \in Arrivals |-> DepositState(v)]
WithdrawalStates == [i \in Withdrawals |-> WithdrawalState(i)]

C == INSTANCE Custody WITH Nobody <- None, balance <- Balances, deposits <- DepositStates,
                           withdrawals <- WithdrawalStates
ImplementsCustody == C!CustodySpec

\* The books balance: what the wallet's chain account holds is what it owes to
\* the accounts, has reserved for withdrawals, has not booked yet or keeps
\* without owing it.
Unsettled == {i \in DOMAIN txs : /\ txs[i].type \in {"external", "refund"}
                                 /\ txs[i].source # None /\ txs[i].status = "pending"
                                 /\ ~Paid(i)}
Unbooked == {v \in Arrivals : ~Recorded(v)}
Parked == {i \in DOMAIN txs : txs[i].status = "need_refund"}
Reconciled ==
    Holdings = BalanceOf(Accounts) + Total(txs, Unsettled) + Total(txs, Parked)
               + Total(chain, Unbooked)

\* An account is overdrawn by at most what the other web threads can spend
\* between a balance check and the commit that relies on it, and by travel rule
\* payments, which reserve nothing.
OffchainDebits(a) == {i \in DOMAIN txs : txs[i].type = "offchain" /\ txs[i].source = a}
OverdraftBounded ==
    \A a \in Accounts \ {Inventory} :
        CalcAccountBalance(a) + Total(txs, OffchainDebits(a))
            >= -((Cardinality(Threads) - 1) * Largest)

\* A transfer that arrived is recorded once, however often its event is sent and
\* its job is run again.  Needs that no two workers have the event at once.
RecordedOnce ==
    \A i, j \in DOMAIN txs :
        /\ txs[i].destination # None /\ txs[i].version # 0
        /\ txs[j].destination # None /\ txs[j].version = txs[i].version
        => i = j

\* A withdrawal does not stay pending and a deposit does not stay unrecorded,
\* also when workers die.  Needs that no process stops between the commit of a
\* pending row and the sending of its job, which nothing sends later.
Ids == 1..(2 * (MaxSends + MaxDeposits))
Settles == \A i \in Ids :
    (i \in DOMAIN txs /\ txs[i].status = "pending") ~>
        (i \in DOMAIN txs /\ txs[i].status \in {"completed", "canceled"})
Books == \A v \in Ids :
    (v \in DOMAIN chain /\ chain[v].kind = "deposit") ~> Recorded(v)

-----------------------------------------------------------------------------
(* The inductive invariant behind RecordedOnce.                            *)

Busy(w) == worker[w].pc # "idle"

\* What RecordedOnce needs.
Alone == "resend" \notin FaultKinds \/ \A w, x \in Workers : w = x

\* A job is about a transfer that arrived, or about a row that takes money out.
JobInv(job) ==
    IF job.actor = "process_incoming_txn"
    THEN job.of \in DOMAIN chain /\ chain[job.of].kind # "out"
    ELSE job.of \in DOMAIN txs /\ txs[job.of].destination = None
JobsInv ==
    /\ \A job \in jobs : JobInv(job)
    /\ \A w \in Workers : Busy(w) => JobInv(worker[w].job)

\* Nobody else has the job, unless events may be sent again.
Exclusive(job) == job.actor = "async_external_transaction" \/ "resend" \notin FaultKinds
HoldersInv ==
    /\ \A w \in Workers : Busy(w) /\ Exclusive(worker[w].job) => worker[w].job \notin jobs
    /\ \A w, x \in Workers :
          Busy(w) /\ Busy(x) /\ worker[w].job = worker[x].job /\ Exclusive(worker[w].job) => w = x

\* The job of a row that was just committed exists nowhere yet.
Unsent(i) ==
    /\ i \in DOMAIN txs /\ txs[i].destination = None /\ External(i) \notin jobs
    /\ \A w \in Workers : Busy(w) => worker[w].job # External(i)
UnsentInv ==
    /\ \A t \in Threads : web[t].pc = "enqueue" => Unsent(web[t].row)
    /\ \A w \in Workers : worker[w].pc = "refund_enqueue" => Unsent(worker[w].arg)
    /\ \A t, u \in Threads :
          web[t].pc = "enqueue" /\ web[u].pc = "enqueue" /\ web[t].row = web[u].row => t = u
    /\ \A w, x \in Workers :
          /\ worker[w].pc = "refund_enqueue" /\ worker[x].pc = "refund_enqueue"
          /\ worker[w].arg = worker[x].arg
          => w = x
    /\ \A t \in Threads, w \in Workers :
          web[t].pc = "enqueue" /\ worker[w].pc = "refund_enqueue" => web[t].row # worker[w].arg

\* Where a worker is in a job.  What it is about to book is not recorded.
WorkerInv(w) ==
    /\ worker[w].pc \in {"book", "retry", "refund", "refund_write", "refund_enqueue"}
          => worker[w].job.actor = "process_incoming_txn"
    /\ worker[w].pc = "wait"
          => /\ worker[w].job.actor = "async_external_transaction"
             /\ txs[worker[w].job.of].status = "pending"
    /\ worker[w].pc = "book"
          => LET event == chain[worker[w].job.of] IN
             /\ event.kind \in {"deposit", "refund"}
             /\ event.kind = "refund" => RowsOfVersion(event.of) # {}
             /\ Alone => ~Recorded(worker[w].job.of)
WorkersInv == \A w \in Workers : WorkerInv(w)

\* A version, once written, stays.
RowsInv == \A i \in DOMAIN txs : txs[i].status = "pending" => txs[i].version = 0

IInv ==
    /\ TypeOK /\ RowsInv /\ JobsInv /\ HoldersInv /\ UnsentInv /\ WorkersInv
    /\ Alone => RecordedOnce

-----------------------------------------------------------------------------
(* The inductive invariant behind OverdraftBounded.                        *)

\* Who is about to take money from an account, on a balance that was checked.
Writing(a) == {t \in Threads : web[t].pc = "write" /\ web[t].from = a}

\* The bound holds as if they had all done so.
OverdraftInv ==
    \A a \in Accounts \ {Inventory} :
        CalcAccountBalance(a) + Total(txs, OffchainDebits(a))
            >= Total(web, Writing(a)) - (Cardinality(Threads) - 1) * Largest

-----------------------------------------------------------------------------
(* The inductive invariant behind Reconciled and ImplementsCustody.        *)

\* What they need: a worker hears what became of its submission, and RecordedOnce.
Heard == Alone /\ "timeout" \notin FaultKinds /\ "wait" \notin CrashAt

Waiting(w, row, seq) ==
    w \in Workers /\ worker[w].pc = "wait" /\ worker[w].job.of = row /\ worker[w].arg = seq

\* A pending row takes money out.  The version of a row is that of the payment
\* for it or of the transfer it records.
RowInv(i) ==
    LET row == txs[i] IN
    /\ row.status = "pending" => /\ row.source \in Accounts /\ row.destination = None
                                 /\ row.type \in {"external", "refund"}
    /\ row.version # 0 =>
          /\ row.version \in DOMAIN chain
          /\ IF row.version \in Payouts THEN chain[row.version].row = i ELSE row.destination # None
\* A payment is for a row, which says so or will say so.  A refund is of a payment.
EventInv(v) ==
    LET event == chain[v] IN
    /\ event.kind = "refund" => event.of \in Payouts
    /\ event.kind = "out" =>
          /\ event.row \in DOMAIN txs /\ txs[event.row].source \in Accounts
          /\ txs[event.row].type # "internal"
          /\ txs[event.row].status # "completed" => Waiting(event.by, event.row, event.seq)
\* What can still be executed is waited for, and pays a row for the first time.
PoolInv(p) ==
    p.seq >= seqno => /\ Waiting(p.by, p.row, p.seq)
                      /\ p.amount = txs[p.row].amount /\ ~Paid(p.row)
BooksInv ==
    /\ \A i \in DOMAIN txs : RowInv(i)
    /\ \A v \in DOMAIN chain : EventInv(v)
    /\ \A p \in pool : PoolInv(p)
    /\ \A t \in Threads : web[t].pc = "write" => web[t].from # web[t].to
=============================================================================
