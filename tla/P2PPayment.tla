----------------------------- MODULE P2PPayment -----------------------------
(***************************************************************************)
(* Travel rule payments between two instances of the wallet: the payment   *)
(* command rows of the two VASPs' databases, their off-chain task threads  *)
(* (one per VASP, polling every half second), the threads that serve       *)
(* inbound commands and the sender's web requests, the HTTP requests       *)
(* between the VASPs, the chain, and the receiver's worker that books      *)
(* incoming transactions.                                                  *)
(*                                                                         *)
(* A request is sent while the task thread holds the row lock, and the     *)
(* row's new contents are committed only after a good reply.  A request    *)
(* that timed out, or whose sender restarted, may still be delivered.      *)
(***************************************************************************)
EXTENDS PaymentState

CONSTANTS
    Refs,           \* reference ids
    WebStatuses,    \* what the sender's user asks for: needs_kyc_data approves, abort rejects
    MaxWeb,         \* bound: web requests
    FaultKinds,     \* which faults occur: subset of AllFaults
    MaxFaults,      \* bound: faults
    MaxSubmit       \* bound: sequence numbers of the sender's on-chain account

AllFaults == {"timeout", "crash", "chain"}

ASSUME P2PAssumption ==
    /\ Values # {} /\ WebStatuses \subseteq {"needs_kyc_data", "abort"}
    /\ MaxWeb \in Nat /\ FaultKinds \subseteq AllFaults /\ MaxFaults \in Nat
    /\ MaxSubmit \in Nat

VARIABLES
    sdb,        \* [Refs -> row or NoRow]: the sender VASP's payment commands
    rdb,        \* the same of the receiver VASP
    stask,      \* the sender's task thread
    rtask,      \* the receiver's task thread
    net,        \* requests in flight
    web,        \* [Refs -> web request that read the row and has not written, or NoWeb]
    pool,       \* transactions submitted to the chain, not yet executed
    seqno,      \* next sequence number of the sender's on-chain account
    wrk,        \* receiver's worker threads inside process_incoming_transaction
    signed, paid, debits, credits,      \* see Settlement; signed is history only
    webs, faults                        \* counters for the bounds

ghosts == <<webs, faults>>
money == <<paid, debits, credits>>
chain == <<pool, seqno>>
vars == <<sdb, rdb, stask, rtask, net, web, pool, seqno, wrk, signed, paid, debits,
          credits, webs, faults>>

-----------------------------------------------------------------------------
(* Rows and messages.                                                      *)

RowStatuses == {"PENDING", "COMPLETED", "CANCELED", "READY", "OUTBOUND", "INBOUND",
                "WAIT", "RECEIVER_OUTBOUND"}
Rows == [status : RowStatuses, inbound : BOOLEAN, pay : PaymentObjects]
NoRow == [status |-> "absent"]
Messages == [to : Actors, ref : Refs, pay : PaymentObjects, live : BOOLEAN]
NoWeb == [new |-> "none"]
WebRequests == [new : WebStatuses, status : RowStatuses]

Idle == [pc |-> "idle"]
Replies == {"waiting", "ok", "fail"}
SenderTasks == [pc : {"send", "ready", "wait_txn", "record", "finish"}, ref : Refs,
                reply : Replies]
ReceiverTasks == [pc : {"send"}, ref : Refs, reply : Replies, pay : PaymentObjects]
Txns == [ref : Refs, seq : Nat, live : BOOLEAN]
Workers == [ref : Refs, pc : {"checked", "recorded"}]

Written == CHOOSE v \in Values : TRUE
NewPayment(ss) ==
    [ss |-> ss, rs |-> "none", skyc |-> Written, rkyc |-> NoValue,
     sadd |-> NoValue, radd |-> NoValue, sig |-> NoValue]

\* payment_command_status
PaymentCommandStatus(p, default) ==
    IF IsBothReady(p) THEN "READY" ELSE IF IsAbort(p) THEN "CANCELED" ELSE default

\* SELECT ... FOR UPDATE: the row lock lasts until the thread's transaction
\* ends, which for a submitted payment is the commit inside add_transaction.
SLocked(r) == stask.pc \in {"send", "ready", "wait_txn", "record"} /\ stask.ref = r
RLocked(r) == rtask.pc = "send" /\ rtask.ref = r

Fault(kind) == kind \in FaultKinds /\ faults < MaxFaults /\ faults' = faults + 1

Request(to, r, p) == [to |-> to, ref |-> r, pay |-> p, live |-> TRUE]
\* The requester no longer waits for its request to the other VASP.
Abandoned(to) ==
    {m \in net : m.to # to} \cup {[m EXCEPT !.live = FALSE] : m \in {x \in net : x.to = to}}
\* The reply reaches the requester if it still waits for it.
Answer(task, m, reply) ==
    IF m.live /\ task # Idle THEN [task EXCEPT !.reply = reply] ELSE task

-----------------------------------------------------------------------------
Init ==
    /\ sdb = [r \in Refs |-> NoRow] /\ rdb = [r \in Refs |-> NoRow]
    /\ stask = Idle /\ rtask = Idle /\ net = {} /\ web = [r \in Refs |-> NoWeb]
    /\ pool = {} /\ seqno = 0 /\ wrk = {}
    /\ signed = {} /\ paid = [r \in Refs |-> 0]
    /\ debits = [r \in Refs |-> 0] /\ credits = [r \in Refs |-> 0]
    /\ webs = 0 /\ faults = 0

(* The sender VASP: web requests.                                          *)

\* add_payment_command_as_sender: a payment asked for by a merchant.
AddPaymentCommandAsSender(r) ==
    /\ sdb[r] = NoRow
    /\ sdb' = [sdb EXCEPT ![r] = [status |-> "PENDING", inbound |-> FALSE,
                                  pay |-> NewPayment("none")]]
    /\ UNCHANGED <<rdb, stask, rtask, net, web, chain, wrk, signed, money, ghosts>>

\* save_outbound_payment_command: a transfer above the risk limit.
SaveOutboundPaymentCommand(r) ==
    /\ sdb[r] = NoRow
    /\ sdb' = [sdb EXCEPT ![r] = [status |-> "OUTBOUND", inbound |-> FALSE,
                                  pay |-> NewPayment("needs_kyc_data")]]
    /\ UNCHANGED <<rdb, stask, rtask, net, web, chain, wrk, signed, money, ghosts>>

\* update_payment_command_sender_status, the read: it takes no lock.  Asking for
\* the status the row has changes nothing.
WebRead(r, new) ==
    /\ sdb[r] # NoRow /\ web[r] = NoWeb /\ webs < MaxWeb
    /\ sdb[r].pay.ss # new
    /\ web' = [web EXCEPT ![r] = [new |-> new, status |-> sdb[r].status]]
    /\ webs' = webs + 1
    /\ UNCHANGED <<sdb, rdb, stask, rtask, net, chain, wrk, signed, money, faults>>

\* Its commit: an UPDATE of the columns that differ from what was read, which
\* waits for the row lock.
WebWrite(r) ==
    /\ web[r] # NoWeb /\ ~SLocked(r)
    /\ sdb' = [sdb EXCEPT ![r].pay.ss = web[r].new,
                          ![r].status = IF web[r].status = "OUTBOUND" THEN @ ELSE "OUTBOUND"]
    /\ web' = [web EXCEPT ![r] = NoWeb]
    /\ UNCHANGED <<rdb, stask, rtask, net, chain, wrk, signed, money, ghosts>>

(* The sender VASP: process_offchain_tasks.                                *)

\* send_command.  For a row marked inbound its assertion fails and nothing changes.
SendCommand(r) ==
    /\ stask = Idle /\ sdb[r] # NoRow
    /\ sdb[r].status = "OUTBOUND" /\ ~sdb[r].inbound
    /\ stask' = [pc |-> "send", ref |-> r, reply |-> "waiting"]
    /\ net' = net \cup {Request("receiver", r, sdb[r].pay)}
    /\ UNCHANGED <<sdb, rdb, rtask, web, chain, wrk, signed, money, ghosts>>

\* Mutant: the row is taken for ready once the receiver accepted the command.
SendCommandDoneM ==
    /\ stask.pc = "send" /\ stask.reply = "ok"
    /\ sdb' = [sdb EXCEPT ![stask.ref].status = "READY"]
    /\ stask' = Idle
    /\ UNCHANGED <<rdb, rtask, net, web, chain, wrk, signed, money, ghosts>>

SendCommandDone ==
    /\ stask.pc = "send" /\ stask.reply = "ok"
    /\ sdb' = [sdb EXCEPT ![stask.ref].status = "WAIT"]
    /\ stask' = Idle
    /\ UNCHANGED <<rdb, rtask, net, web, chain, wrk, signed, money, ghosts>>

\* offchain_action.  EVALUATE_KYC_DATA always passes; with no action nothing
\* changes, and an unsupported action raises, which rolls back.
OffchainAction(r) ==
    /\ stask = Idle /\ sdb[r] # NoRow
    /\ sdb[r].status = "INBOUND" /\ sdb[r].inbound
    /\ HasState(sdb[r].pay)
    /\ FollowUpAction("sender", StateOf(sdb[r].pay)) = "EVALUATE_KYC_DATA"
    /\ LET p == [sdb[r].pay EXCEPT !.ss = "ready_for_settlement"]
       IN  sdb' = [sdb EXCEPT ![r] = [status |-> PaymentCommandStatus(p, "OUTBOUND"),
                                      inbound |-> FALSE, pay |-> p]]
    /\ UNCHANGED <<rdb, stask, rtask, net, web, chain, wrk, signed, money, ghosts>>

\* Mutant: the transaction is submitted without waiting for the receiver's reply.
SubmitTxnM(r) ==
    /\ stask = Idle /\ sdb[r] # NoRow
    /\ sdb[r].status = "READY"
    /\ stask' = [pc |-> "ready", ref |-> r, reply |-> "ok"]
    /\ net' = net \cup {Request("receiver", r, sdb[r].pay)}
    /\ UNCHANGED <<sdb, rdb, rtask, web, chain, wrk, signed, money, ghosts>>

\* submit_txn: tell the receiver, submit and wait, book, and set the status.
SubmitTxn(r) ==
    /\ stask = Idle /\ sdb[r] # NoRow
    /\ sdb[r].status = "READY"
    /\ stask' = [pc |-> "ready", ref |-> r, reply |-> "waiting"]
    /\ net' = net \cup {Request("receiver", r, sdb[r].pay)}
    /\ UNCHANGED <<sdb, rdb, rtask, web, chain, wrk, signed, money, ghosts>>

\* p2p_by_travel_rule: the sequence number is the account's current one.
SubmitOnchain ==
    /\ stask.pc = "ready" /\ stask.reply = "ok" /\ seqno < MaxSubmit
    /\ pool' = pool \cup {[ref |-> stask.ref, seq |-> seqno, live |-> TRUE]}
    /\ stask' = [stask EXCEPT !.pc = "wait_txn", !.reply = "waiting"]
    /\ UNCHANGED <<sdb, rdb, rtask, net, web, seqno, wrk, signed, money, ghosts>>

\* Mutant: the transfer is not booked.
OnchainDoneM ==
    /\ stask.pc = "wait_txn" /\ stask.reply = "ok"
    /\ stask' = [stask EXCEPT !.pc = "finish"]
    /\ UNCHANGED <<sdb, rdb, rtask, net, web, chain, wrk, signed, money, ghosts>>

OnchainDone ==
    /\ stask.pc = "wait_txn" /\ stask.reply = "ok"
    /\ stask' = [stask EXCEPT !.pc = "record"]
    /\ UNCHANGED <<sdb, rdb, rtask, net, web, chain, wrk, signed, money, ghosts>>

\* add_transaction_based_on_payment_command: the reference id is unique in the
\* transaction table; a second entry raises and the thread rolls back.
RecordDebit ==
    /\ stask.pc = "record"
    /\ IF debits[stask.ref] = 0
       THEN /\ debits' = [debits EXCEPT ![stask.ref] = @ + 1]
            /\ stask' = [stask EXCEPT !.pc = "finish"]
       ELSE UNCHANGED debits /\ stask' = Idle
    /\ UNCHANGED <<sdb, rdb, rtask, net, web, chain, wrk, signed, paid, credits, ghosts>>

\* Mutant: the row is not set to COMPLETED.
SubmitFinishM ==
    /\ stask.pc = "finish"
    /\ stask' = Idle
    /\ UNCHANGED <<sdb, rdb, rtask, net, web, chain, wrk, signed, money, ghosts>>

SubmitFinish ==
    /\ stask.pc = "finish"
    /\ sdb' = [sdb EXCEPT ![stask.ref].status = "COMPLETED"]
    /\ stask' = Idle
    /\ UNCHANGED <<rdb, rtask, net, web, chain, wrk, signed, money, ghosts>>

\* A failure reply to either request: rollback, the row stays as it was.
SenderRejected ==
    /\ stask.pc \in {"send", "ready"} /\ stask.reply = "fail"
    /\ stask' = Idle
    /\ UNCHANGED <<sdb, rdb, rtask, net, web, chain, wrk, signed, money, ghosts>>

\* The request or its reply is late or lost.
SenderTimeout ==
    /\ stask.pc \in {"send", "ready"} /\ Fault("timeout")
    /\ stask' = Idle /\ net' = Abandoned("receiver")
    /\ UNCHANGED <<sdb, rdb, rtask, web, chain, wrk, signed, money, webs>>

\* Mutant: a submission that timed out is taken for one that failed.
OnchainTimeoutM ==
    /\ stask.pc = "wait_txn" /\ Fault("chain")
    /\ stask' = Idle
    /\ sdb' = [sdb EXCEPT ![stask.ref].status = "CANCELED"]
    /\ pool' = {[t EXCEPT !.live = FALSE] : t \in pool}
    /\ UNCHANGED <<rdb, rtask, net, web, seqno, wrk, signed, money, webs>>

\* wait_for_transaction gives up after 30 seconds; the transaction may still be
\* executed.
OnchainTimeout ==
    /\ stask.pc = "wait_txn" /\ Fault("chain")
    /\ stask' = Idle
    /\ pool' = {[t EXCEPT !.live = FALSE] : t \in pool}
    /\ UNCHANGED <<sdb, rdb, rtask, net, web, seqno, wrk, signed, money, webs>>

\* Another transaction took the sequence number: waiting ends with an error.
OnchainConflict ==
    /\ stask.pc = "wait_txn"
    /\ \E t \in pool : t.live /\ t.seq < seqno
    /\ stask' = Idle
    /\ pool' = {[t EXCEPT !.live = FALSE] : t \in pool}
    /\ UNCHANGED <<sdb, rdb, rtask, net, web, seqno, wrk, signed, money, ghosts>>

\* The web process restarts: task thread and web requests are lost, their
\* database transactions rolled back.
SenderCrash ==
    /\ Fault("crash")
    /\ stask' = Idle /\ net' = Abandoned("receiver")
    /\ web' = [r \in Refs |-> NoWeb]
    /\ pool' = {[t EXCEPT !.live = FALSE] : t \in pool}
    /\ UNCHANGED <<sdb, rdb, rtask, seqno, wrk, signed, money, webs>>

(* The sender VASP: an inbound command, lock_and_save_inbound_command.     *)

\* The lock is taken NOWAIT: while the task thread has it the handler fails.
\* A command equal to the stored one is no case of its own: both fail.
SenderHandle(m) ==
    /\ m \in net /\ m.to = "sender"
    /\ LET r == m.ref
           accepted == /\ ~SLocked(r) /\ sdb[r] # NoRow
                       /\ ValidateUpdate("sender", m.pay, sdb[r].pay)
       IN  /\ sdb' = IF accepted
                     THEN [sdb EXCEPT ![r] =
                             [status |-> PaymentCommandStatus(m.pay, "INBOUND"),
                              inbound |-> TRUE, pay |-> m.pay]]
                     ELSE sdb
           /\ rtask' = Answer(rtask, m, IF accepted THEN "ok" ELSE "fail")
    /\ net' = net \ {m}
    /\ UNCHANGED <<rdb, stask, web, chain, wrk, signed, money, ghosts>>

-----------------------------------------------------------------------------
(* The chain.                                                              *)

Execute(t) ==
    /\ t \in pool /\ t.seq = seqno
    /\ pool' = pool \ {t} /\ seqno' = seqno + 1
    /\ paid' = [paid EXCEPT ![t.ref] = @ + 1]
    /\ stask' = IF t.live /\ stask.pc = "wait_txn" THEN [stask EXCEPT !.reply = "ok"] ELSE stask
    /\ UNCHANGED <<sdb, rdb, rtask, net, web, wrk, signed, debits, credits, ghosts>>

\* A transaction nobody waits for expires, or its sequence number is used up.
Expire(t) ==
    /\ t \in pool /\ ~t.live
    /\ pool' = pool \ {t}
    /\ UNCHANGED <<sdb, rdb, stask, rtask, net, web, seqno, wrk, signed, money, ghosts>>

-----------------------------------------------------------------------------
(* The receiver VASP.                                                      *)

\* save_payment_command_as_receiver: no lock is taken and the command is not
\* validated against the stored one; an UPDATE waits for the row lock.
\* process_inbound_request determines the state first, and refuses a command in
\* state R_SEND, whose signature is not the requester's.
ReceiverHandle(m) ==
    /\ m \in net /\ m.to = "receiver"
    /\ LET r == m.ref
           p == m.pay
           valid == HasState(p) /\ StateOf(p) # "R_SEND"
           insert == valid /\ p.ss = "needs_kyc_data"
           update == valid /\ p.ss # "needs_kyc_data" /\ rdb[r] # NoRow
       IN  /\ update => ~RLocked(r)
           /\ rdb' = IF insert /\ rdb[r] = NoRow
                     THEN [rdb EXCEPT ![r] = [status |-> "RECEIVER_OUTBOUND",
                                              inbound |-> TRUE, pay |-> p]]
                     ELSE IF update /\ p.ss = "ready_for_settlement"
                     THEN [rdb EXCEPT ![r].status = "READY"]
                     ELSE IF update /\ p.ss = "abort"
                     THEN [rdb EXCEPT ![r].status = "CANCELED"]
                     ELSE rdb
           /\ stask' = Answer(stask, m, IF valid /\ (insert => rdb[r] = NoRow)
                                        THEN "ok" ELSE "fail")
    /\ net' = net \ {m}
    /\ UNCHANGED <<sdb, rtask, web, chain, wrk, signed, money, ghosts>>

\* send_command_as_receiver: sign and send; the row is committed after the reply.
SendCommandAsReceiver(r) ==
    /\ rtask = Idle /\ rdb[r] # NoRow /\ rdb[r].status = "RECEIVER_OUTBOUND"
    /\ LET p == [rdb[r].pay EXCEPT !.rs = "ready_for_settlement",
                                   !.rkyc = Written, !.sig = Written]
       IN  /\ rtask' = [pc |-> "send", ref |-> r, reply |-> "waiting", pay |-> p]
           /\ net' = net \cup {Request("sender", r, p)}
    /\ signed' = signed \cup {r}
    /\ UNCHANGED <<sdb, rdb, stask, web, chain, wrk, money, ghosts>>

SendAsReceiverDone ==
    /\ rtask.pc = "send" /\ rtask.reply = "ok"
    /\ rdb' = [rdb EXCEPT ![rtask.ref] = [status |-> "WAIT", inbound |-> FALSE,
                                          pay |-> rtask.pay]]
    /\ rtask' = Idle
    /\ UNCHANGED <<sdb, stask, net, web, chain, wrk, signed, money, ghosts>>

ReceiverRejected ==
    /\ rtask.pc = "send" /\ rtask.reply = "fail"
    /\ rtask' = Idle
    /\ UNCHANGED <<sdb, rdb, stask, net, web, chain, wrk, signed, money, ghosts>>

ReceiverTimeout ==
    /\ rtask.pc = "send" /\ (Fault("timeout") \/ Fault("crash"))
    /\ rtask' = Idle /\ net' = Abandoned("sender")
    /\ UNCHANGED <<sdb, rdb, stask, web, chain, wrk, signed, money, webs>>

\* process_incoming_transaction, travel rule metadata.  An event may be delivered
\* again and each delivery is attempted four times, so it may run at any time after
\* the transfer, several times and in several threads.  That the attempts outlast
\* the commit of READY is assumed.
ProcessIncoming(r) ==
    /\ paid[r] > 0 /\ rdb[r] # NoRow /\ rdb[r].status = "READY"
    /\ wrk' = wrk \cup {[ref |-> r, pc |-> "checked"]}
    /\ UNCHANGED <<sdb, rdb, stask, rtask, net, web, chain, signed, money, ghosts>>

\* Mutant: every delivery of the event books the transfer.
RecordCreditM(w) ==
    /\ w \in wrk /\ w.pc = "checked"
    /\ credits' = [credits EXCEPT ![w.ref] = @ + 1]
    /\ wrk' = (wrk \ {w}) \cup {[w EXCEPT !.pc = "recorded"]}
    /\ UNCHANGED <<sdb, rdb, stask, rtask, net, web, chain, signed, paid, debits, ghosts>>

RecordCredit(w) ==
    /\ w \in wrk /\ w.pc = "checked"
    /\ IF credits[w.ref] = 0
       THEN /\ credits' = [credits EXCEPT ![w.ref] = @ + 1]
            /\ wrk' = (wrk \ {w}) \cup {[w EXCEPT !.pc = "recorded"]}
       ELSE UNCHANGED credits /\ wrk' = wrk \ {w}
    /\ UNCHANGED <<sdb, rdb, stask, rtask, net, web, chain, signed, paid, debits, ghosts>>

IncomingFinish(w) ==
    /\ w \in wrk /\ w.pc = "recorded" /\ ~RLocked(w.ref)
    /\ rdb' = [rdb EXCEPT ![w.ref].status = "COMPLETED"]
    /\ wrk' = wrk \ {w}
    /\ UNCHANGED <<sdb, stask, rtask, net, web, chain, signed, money, ghosts>>

WorkerCrash(w) ==
    /\ w \in wrk /\ Fault("crash")
    /\ wrk' = wrk \ {w}
    /\ UNCHANGED <<sdb, rdb, stask, rtask, net, web, chain, signed, money, webs>>

-----------------------------------------------------------------------------
SenderTaskStep ==
    \/ \E r \in Refs : SendCommand(r) \/ OffchainAction(r) \/ SubmitTxn(r)
    \/ SendCommandDone \/ SubmitOnchain \/ OnchainDone \/ RecordDebit \/ SubmitFinish
    \/ SenderRejected \/ OnchainConflict

ReceiverTaskStep ==
    \/ \E r \in Refs : SendCommandAsReceiver(r)
    \/ SendAsReceiverDone \/ ReceiverRejected

WorkerStep ==
    \/ \E r \in Refs : ProcessIncoming(r)
    \/ \E w \in wrk : RecordCredit(w) \/ IncomingFinish(w)

UserStep ==
    \E r \in Refs :
        \/ AddPaymentCommandAsSender(r) \/ SaveOutboundPaymentCommand(r)
        \/ \E new \in WebStatuses : WebRead(r, new)

FaultStep ==
    \/ SenderTimeout \/ OnchainTimeout \/ SenderCrash \/ ReceiverTimeout
    \/ \E w \in wrk : WorkerCrash(w)

Next ==
    \/ UserStep \/ FaultStep \/ SenderTaskStep \/ ReceiverTaskStep \/ WorkerStep
    \/ \E r \in Refs : WebWrite(r)
    \/ \E m \in net : SenderHandle(m) \/ ReceiverHandle(m)
    \/ \E t \in pool : Execute(t) \/ Expire(t)

Spec == Init /\ [][Next]_vars

\* Both VASPs' task threads keep polling, inbound requests are served, workers
\* retry, a submitted transaction is executed and a web request commits.  The
\* user and the faults are not fair.
Fairness ==
    /\ WF_vars(SenderTaskStep) /\ WF_vars(ReceiverTaskStep)
    /\ WF_vars(\E m \in net : SenderHandle(m))
    /\ WF_vars(\E m \in net : ReceiverHandle(m))
    /\ WF_vars(\E t \in pool : Execute(t) \/ Expire(t))
    /\ \A r \in Refs :
         /\ WF_vars(WebWrite(r)) /\ WF_vars(ProcessIncoming(r))
         /\ WF_vars(RecordCredit([ref |-> r, pc |-> "checked"]))
         /\ WF_vars(IncomingFinish([ref |-> r, pc |-> "recorded"]))

FairSpec == Spec /\ Fairness

-----------------------------------------------------------------------------
(* Properties.                                                             *)

TypeOK ==
    /\ sdb \in [Refs -> Rows \cup {NoRow}] /\ rdb \in [Refs -> Rows \cup {NoRow}]
    /\ stask \in SenderTasks \cup {Idle} /\ rtask \in ReceiverTasks \cup {Idle}
    /\ net \subseteq Messages /\ web \in [Refs -> WebRequests \cup {NoWeb}]
    /\ pool \subseteq Txns /\ seqno \in Nat /\ wrk \subseteq Workers
    /\ signed \subseteq Refs /\ paid \in [Refs -> Nat]
    /\ debits \in [Refs -> Nat] /\ credits \in [Refs -> Nat]
    /\ webs \in Nat /\ faults \in Nat

\* The flow keeps the promises of Settlement: no transfer before the recipient's
\* VASP signed, no ledger entry before a transfer, no second entry, whatever is
\* lost, repeated, reordered or restarted.
S == INSTANCE Settlement
ImplementsSettlement == S!SettlementSpec

\* A sender's row is ready for submit_txn only when the receiver has signed the
\* payment, still has its row and the signature is at hand.
ReadyIsAgreed ==
    \A r \in Refs :
        sdb[r].status = "READY" =>
            r \in signed /\ IsSet(sdb[r].pay.sig) /\ rdb[r] # NoRow

\* A payment that either VASP shows as completed is in that VASP's ledger.
CompletedIsBooked ==
    \A r \in Refs :
        /\ sdb[r].status = "COMPLETED" => debits[r] = 1
        /\ rdb[r].status = "COMPLETED" => credits[r] = 1

\* When money moved, the receiver is ready to book it or has booked it: its
\* worker refuses the transfer in any other status.  Holds as long as the
\* sender's user does not reject.
PayeeExpectsTransfer ==
    \A r \in Refs : paid[r] > 0 => rdb[r].status \in {"READY", "COMPLETED"}

\* A payment is transferred once, and once more at most for every submission that timed
\* out or was lost with its process: the row is then still READY, and is submitted again
\* although the transaction may have been, or may yet be, executed.  So it is until the
\* transfer is booked, and for good if no restart comes between that and the commit of
\* COMPLETED: after such a restart the READY row is paid again in every round.  Nothing
\* the sender's user asks for, and when, adds to that.
PaidOnce ==
    \A r \in Refs : debits[r] = 0 \/ "crash" \notin FaultKinds => paid[r] <= 1 + faults

\* A payment handed to the off-chain exchange is booked by both VASPs, also when
\* submissions time out.  It may not become COMPLETED then: the second
\* ready_for_settlement command leaves the receiver's row in OFF_CHAIN_READY.  Needs that
\* no request is lost: a needs_kyc_data command that is sent again is refused for ever.
BothBook ==
    \A r \in Refs : sdb[r].status = "OUTBOUND" ~> debits[r] = 1 /\ credits[r] = 1

-----------------------------------------------------------------------------
(* The inductive invariant behind ImplementsSettlement, ReadyIsAgreed and  *)
(* CompletedIsBooked.                                                      *)

\* Threads, web requests and workers refer to rows that exist.
RowsInv ==
    /\ stask # Idle => sdb[stask.ref] # NoRow
    /\ rtask # Idle => rdb[rtask.ref] # NoRow
    /\ \A r \in Refs : web[r] # NoWeb => sdb[r] # NoRow
    /\ \A w \in wrk : rdb[w.ref] # NoRow
    /\ \A r \in signed : rdb[r] # NoRow

\* A signature is only ever found where the recipient's VASP signed.
SignedInv ==
    /\ \A m \in net : m.to = "sender" => IsSet(m.pay.sig) /\ m.ref \in signed
    /\ \A r \in Refs : sdb[r].status \in {"INBOUND", "READY"} =>
          IsSet(sdb[r].pay.sig) /\ r \in signed
    /\ stask.pc \in {"ready", "wait_txn", "record", "finish"} => stask.ref \in signed
    /\ \A t \in pool : t.ref \in signed

\* A request somebody waits for is the one of the sender's task thread.
RequestInv ==
    \A m \in net : m.to = "receiver" /\ m.live =>
        /\ stask.pc \in {"send", "ready"} /\ stask.reply = "waiting"
        /\ \A n \in net : n.to = "receiver" /\ n.live => n = m

\* Whoever is about to book a payment knows that it was transferred.
PaidInv ==
    /\ \A t, u \in pool : t.live /\ u.live => t = u
    /\ \A t \in pool : t.live =>
          stask.pc = "wait_txn" /\ stask.ref = t.ref /\ stask.reply = "waiting"
    /\ stask.pc = "wait_txn" /\ stask.reply = "ok" => paid[stask.ref] > 0
    /\ stask.pc \in {"record", "finish"} => paid[stask.ref] > 0
    /\ \A w \in wrk : paid[w.ref] > 0

BookedInv ==
    /\ \A r \in Refs : debits[r] \in {0, 1} /\ credits[r] \in {0, 1}
    /\ stask.pc = "finish" => debits[stask.ref] = 1
    /\ \A w \in wrk : w.pc = "recorded" => credits[w.ref] = 1
    /\ CompletedIsBooked

IInv == TypeOK /\ RowsInv /\ SignedInv /\ RequestInv /\ PaidInv /\ BookedInv

-----------------------------------------------------------------------------
(* The inductive invariant behind PaidOnce and PayeeExpectsTransfer, on    *)
(* top of IInv.                                                            *)

\* Where the rows of payments that are under way, or were booked, stand.  The
\* receiver's part of a payment that it is ready for never changes again.
StandingInv ==
    /\ \A r \in Refs :
         /\ sdb[r] # NoRow => sdb[r].pay.ss # "soft_match"
         /\ sdb[r].status \in {"READY", "COMPLETED"} => sdb[r].pay.rs = "ready_for_settlement"
         /\ debits[r] = 1 /\ "crash" \notin FaultKinds =>
              /\ sdb[r].pay.rs = "ready_for_settlement"
              /\ \/ sdb[r].status \in {"COMPLETED", "OUTBOUND", "WAIT"}
                 \/ stask.pc = "finish" /\ stask.ref = r
    /\ stask.pc = "send" => sdb[stask.ref].status = "OUTBOUND"
    /\ stask.pc \in {"ready", "wait_txn", "record"} => sdb[stask.ref].status = "READY"
    /\ stask.pc = "finish" => sdb[stask.ref].pay.rs = "ready_for_settlement"

\* What may still pay r without another fault: a transaction that nobody waits for
\* and whose turn it is, and the one attempt that goes on until a transfer is made.
Stray(r) == \E t \in pool : ~t.live /\ t.ref = r /\ t.seq = seqno
Open(r) ==
    /\ debits[r] = 0
    /\ ~(stask.pc = "wait_txn" /\ stask.reply = "ok" /\ stask.ref = r)
    /\ ~(stask.pc = "record" /\ stask.ref = r)
One(b) == IF b THEN 1 ELSE 0

OnceInv ==
    /\ \A t \in pool : t.seq <= seqno
    /\ \A r \in Refs :
         debits[r] = 0 \/ "crash" \notin FaultKinds =>
            paid[r] + One(Stray(r)) + One(Open(r)) <= 1 + faults

\* As long as the sender's user does not reject: once the receiver's VASP has
\* accepted ready_for_settlement it expects the transfer, and nothing takes that back.
Underway(r) ==
    \/ paid[r] > 0 \/ \E t \in pool : t.ref = r
    \/ stask.pc = "ready" /\ stask.reply = "ok" /\ stask.ref = r
    \/ stask.pc = "wait_txn" /\ stask.ref = r
ExpectInv ==
    "abort" \notin WebStatuses =>
        /\ \A r \in Refs : sdb[r] # NoRow => sdb[r].pay.ss # "abort"
        /\ \A m \in net : m.to = "receiver" => m.pay.ss \notin {"abort", "soft_match"}
        /\ \A m \in net : m.to = "receiver" /\ m.live /\ stask.pc = "ready" =>
              m.ref = stask.ref /\ m.pay.rs = "ready_for_settlement"
        /\ rtask.pc = "send" => rdb[rtask.ref].status = "RECEIVER_OUTBOUND"
        /\ \A r \in Refs : Underway(r) => rdb[r].status \in {"READY", "COMPLETED"}

PaidOnceInv == IInv /\ StandingInv /\ OnceInv /\ ExpectInv
=============================================================================
