-------------------------- MODULE P2PPaymentProofs --------------------------
(***************************************************************************)
(* The travel rule payment, for any number of payments, requests, faults   *)
(* and submissions: IInv is inductive, nothing is paid before the receiver *)
(* signed it, and what is completed is booked. StandingInv, OnceInv and    *)
(* ExpectInv, inductive under it, bound what is paid and say what the      *)
(* receiver's VASP expects. ExchangeInv says what two VASPs that do no     *)
(* more than validate each other's commands may hold.                      *)
(***************************************************************************)
EXTENDS P2PPayment, PaymentExchange, TLAPS

\* No row, no task and no request differ from the ones that are there.
LEMMA RowFacts ==
    /\ NoRow \notin Rows /\ Idle \notin SenderTasks /\ Idle \notin ReceiverTasks
    /\ NoWeb \notin WebRequests /\ NoRow.status = "absent" /\ Idle.pc = "idle"
BY P2PAssumption DEF NoRow, Rows, RowStatuses, Idle, SenderTasks, ReceiverTasks, NoWeb, WebRequests

\* A field that was written is set.
LEMMA WrittenFacts == Written \in Fields /\ IsSet(Written) /\ NoValue \in Fields
BY NoValueAssumption, P2PAssumption DEF Written, Fields, IsSet

\* A payment's first object is typed.
LEMMA NewPaymentType ==
    ASSUME NEW ss \in Statuses PROVE NewPayment(ss) \in PaymentObjects
BY WrittenFacts DEF NewPayment, PaymentObjects, Statuses

\* An object with another sender's status is typed.
LEMMA PayStatusType ==
    ASSUME NEW p \in PaymentObjects, NEW ss \in Statuses
    PROVE  [p EXCEPT !.ss = ss] \in PaymentObjects
BY DEF PaymentObjects

\* An object the receiver signed is typed.
LEMMA PaySignedType ==
    ASSUME NEW p \in PaymentObjects
    PROVE  [p EXCEPT !.rs = "ready_for_settlement", !.rkyc = Written, !.sig = Written]
              \in PaymentObjects
BY WrittenFacts DEF PaymentObjects, Statuses

\* A row of typed parts is typed.
LEMMA RowType ==
    ASSUME NEW st \in RowStatuses, NEW i \in BOOLEAN, NEW p \in PaymentObjects
    PROVE  [status |-> st, inbound |-> i, pay |-> p] \in Rows
BY DEF Rows

\* A row with another status is typed.
LEMMA RowStatusType ==
    ASSUME NEW row \in Rows, NEW st \in RowStatuses
    PROVE  [row EXCEPT !.status = st] \in Rows
BY DEF Rows

\* The parts of a row are typed.
LEMMA RowFieldTypes ==
    ASSUME NEW row \in Rows
    PROVE  row.status \in RowStatuses /\ row.inbound \in BOOLEAN /\ row.pay \in PaymentObjects
BY DEF Rows

\* The status that a command gives a row is one of a row's.
LEMMA CommandStatusType ==
    ASSUME NEW p, NEW st \in RowStatuses
    PROVE  PaymentCommandStatus(p, st) \in RowStatuses
BY DEF PaymentCommandStatus, RowStatuses

\* A request is a message.
LEMMA RequestType ==
    ASSUME NEW to \in Actors, NEW r \in Refs, NEW p \in PaymentObjects
    PROVE  Request(to, r, p) \in Messages
BY DEF Request, Messages

\* Requests nobody waits for are still messages.
LEMMA AbandonedType ==
    ASSUME net \subseteq Messages, NEW to PROVE Abandoned(to) \subseteq Messages
BY DEF Abandoned, Messages

\* A task that got its answer is still a task.
LEMMA AnswerType ==
    ASSUME NEW T, T \in {SenderTasks, ReceiverTasks}, NEW task \in T \cup {Idle},
           NEW m, NEW reply \in Replies
    PROVE  Answer(task, m, reply) \in T \cup {Idle}
<1>1. CASE T = SenderTasks
  BY <1>1 DEF Answer, SenderTasks
<1>2. CASE T = ReceiverTasks
  BY <1>2 DEF Answer, ReceiverTasks
<1> QED BY <1>1, <1>2

\* Submissions nobody waits for are still submissions.
LEMMA DropLiveType ==
    ASSUME pool \subseteq Txns PROVE {[t EXCEPT !.live = FALSE] : t \in pool} \subseteq Txns
BY DEF Txns

\* Every step keeps the types.
LEMMA TypeStep == TypeOK /\ RowsInv /\ [Next]_vars => TypeOK'
<1> SUFFICES ASSUME TypeOK, RowsInv, [Next]_vars PROVE TypeOK'
  OBVIOUS
<1> USE DEF chain, money, ghosts
<1>a. /\ stask # Idle => stask \in SenderTasks /\ stask.ref \in Refs /\ sdb[stask.ref] \in Rows
      /\ rtask # Idle => /\ rtask \in ReceiverTasks /\ rtask.ref \in Refs
                         /\ rdb[rtask.ref] \in Rows
      /\ \A r \in Refs : sdb[r] # NoRow => sdb[r] \in Rows
      /\ \A r \in Refs : rdb[r] # NoRow => rdb[r] \in Rows
      /\ stask.pc # "idle" => stask # Idle
      /\ rtask.pc # "idle" => rtask # Idle
  BY RowFacts DEF TypeOK, RowsInv, SenderTasks, ReceiverTasks
<1>b. \A w \in wrk : w.ref \in Refs /\ rdb[w.ref] \in Rows
  BY <1>a DEF TypeOK, RowsInv, Workers
<1>c. \A m \in net : m.to \in Actors /\ m.ref \in Refs /\ m.pay \in PaymentObjects
  BY DEF TypeOK, Messages
<1>1. ASSUME NEW r \in Refs, AddPaymentCommandAsSender(r) PROVE TypeOK'
  <2>1. [status |-> "PENDING", inbound |-> FALSE, pay |-> NewPayment("none")] \in Rows
    BY NewPaymentType, RowType DEF Statuses, RowStatuses
  <2> QED BY <1>1, <2>1 DEF TypeOK, AddPaymentCommandAsSender
<1>2. ASSUME NEW r \in Refs, SaveOutboundPaymentCommand(r) PROVE TypeOK'
  <2>1. [status |-> "OUTBOUND", inbound |-> FALSE, pay |-> NewPayment("needs_kyc_data")] \in Rows
    BY NewPaymentType, RowType DEF Statuses, RowStatuses
  <2> QED BY <1>2, <2>1 DEF TypeOK, SaveOutboundPaymentCommand
<1>3. ASSUME NEW r \in Refs, NEW new \in WebStatuses, WebRead(r, new) PROVE TypeOK'
  <2>1. [new |-> new, status |-> sdb[r].status] \in WebRequests
    BY <1>3, <1>a, RowFieldTypes DEF WebRead, WebRequests
  <2> QED BY <1>3, <2>1 DEF TypeOK, WebRead
<1>4. ASSUME NEW r \in Refs, WebWrite(r) PROVE TypeOK'
  <2>1. web[r] \in WebRequests /\ web[r].new \in Statuses /\ sdb[r] \in Rows
    BY <1>4, <1>a, P2PAssumption DEF WebWrite, TypeOK, RowsInv, WebRequests, Statuses
  <2> DEFINE row == [sdb[r] EXCEPT !.pay.ss = web[r].new,
                       !.status = IF web[r].status = "OUTBOUND" THEN @ ELSE "OUTBOUND"]
  <2>2. row \in Rows
    BY <2>1 DEF Rows, PaymentObjects, RowStatuses
  <2>3. sdb' = [sdb EXCEPT ![r] = row]
    BY <1>4, <2>1 DEF WebWrite, TypeOK
  <2> QED BY <1>4, <2>2, <2>3 DEF TypeOK, WebWrite
<1>5. ASSUME NEW r \in Refs, SendCommand(r) PROVE TypeOK'
  <2>1. Request("receiver", r, sdb[r].pay) \in Messages
    BY <1>5, <1>a, RowFieldTypes, RequestType DEF SendCommand, Actors
  <2>2. [pc |-> "send", ref |-> r, reply |-> "waiting"] \in SenderTasks
    BY DEF SenderTasks, Replies
  <2> QED BY <1>5, <2>1, <2>2 DEF TypeOK, SendCommand
<1>6. CASE SendCommandDone
  <2>1. [sdb[stask.ref] EXCEPT !.status = "WAIT"] \in Rows
    BY <1>6, <1>a, RowStatusType DEF SendCommandDone, RowStatuses
  <2> QED BY <1>6, <1>a, <2>1 DEF TypeOK, SendCommandDone
<1>7. ASSUME NEW r \in Refs, OffchainAction(r) PROVE TypeOK'
  <2> DEFINE p == [sdb[r].pay EXCEPT !.ss = "ready_for_settlement"]
  <2>1. p \in PaymentObjects
    BY <1>7, <1>a, RowFieldTypes, PayStatusType DEF OffchainAction, Statuses
  <2>2. [status |-> PaymentCommandStatus(p, "OUTBOUND"), inbound |-> FALSE, pay |-> p] \in Rows
    BY <2>1, RowType, CommandStatusType DEF RowStatuses
  <2> QED BY <1>7, <2>2 DEF TypeOK, OffchainAction
<1>8. ASSUME NEW r \in Refs, SubmitTxn(r) PROVE TypeOK'
  <2>1. Request("receiver", r, sdb[r].pay) \in Messages
    BY <1>8, <1>a, RowFieldTypes, RequestType DEF SubmitTxn, Actors
  <2>2. [pc |-> "ready", ref |-> r, reply |-> "waiting"] \in SenderTasks
    BY DEF SenderTasks, Replies
  <2> QED BY <1>8, <2>1, <2>2 DEF TypeOK, SubmitTxn
<1>9. CASE SubmitOnchain
  <2>1. [ref |-> stask.ref, seq |-> seqno, live |-> TRUE] \in Txns
    BY <1>9, <1>a DEF SubmitOnchain, TypeOK, Txns
  <2>2. [stask EXCEPT !.pc = "wait_txn", !.reply = "waiting"] \in SenderTasks
    BY <1>9, <1>a DEF SubmitOnchain, SenderTasks, Replies
  <2> QED BY <1>9, <2>1, <2>2 DEF TypeOK, SubmitOnchain
<1>10. CASE OnchainDone
  <2>1. [stask EXCEPT !.pc = "record"] \in SenderTasks
    BY <1>10, <1>a DEF OnchainDone, SenderTasks
  <2> QED BY <1>10, <2>1 DEF TypeOK, OnchainDone
<1>11. CASE RecordDebit
  <2>1. [stask EXCEPT !.pc = "finish"] \in SenderTasks
    BY <1>11, <1>a DEF RecordDebit, SenderTasks
  <2> QED BY <1>11, <1>a, <2>1 DEF TypeOK, RecordDebit
<1>12. CASE SubmitFinish
  <2>1. [sdb[stask.ref] EXCEPT !.status = "COMPLETED"] \in Rows
    BY <1>12, <1>a, RowStatusType DEF SubmitFinish, RowStatuses
  <2> QED BY <1>12, <1>a, <2>1 DEF TypeOK, SubmitFinish
<1>13. CASE SenderRejected
  BY <1>13 DEF TypeOK, SenderRejected
<1>14. CASE SenderTimeout
  BY <1>14, AbandonedType DEF TypeOK, SenderTimeout, Fault
<1>15. CASE OnchainTimeout
  BY <1>15, DropLiveType DEF TypeOK, OnchainTimeout, Fault
<1>16. CASE OnchainConflict
  BY <1>16, DropLiveType DEF TypeOK, OnchainConflict
<1>17. CASE SenderCrash
  BY <1>17, DropLiveType, AbandonedType DEF TypeOK, SenderCrash, Fault
<1>18. ASSUME NEW m \in net, SenderHandle(m) PROVE TypeOK'
  <2>1. [status |-> PaymentCommandStatus(m.pay, "INBOUND"), inbound |-> TRUE,
         pay |-> m.pay] \in Rows
    BY <1>c, RowType, CommandStatusType DEF RowStatuses
  <2>2. \A reply \in Replies : Answer(rtask, m, reply) \in ReceiverTasks \cup {Idle}
    BY AnswerType DEF TypeOK
  <2> QED BY <1>18, <1>c, <2>1, <2>2 DEF TypeOK, SenderHandle, Replies
<1>19. ASSUME NEW t \in pool, Execute(t) PROVE TypeOK'
  <2>1. stask.pc = "wait_txn" => [stask EXCEPT !.reply = "ok"] \in SenderTasks
    BY <1>a DEF SenderTasks, Replies
  <2>2. t.ref \in Refs
    BY DEF TypeOK, Txns
  <2> QED BY <1>19, <2>1, <2>2 DEF TypeOK, Execute
<1>20. ASSUME NEW t \in pool, Expire(t) PROVE TypeOK'
  BY <1>20 DEF TypeOK, Expire
<1>21. ASSUME NEW m \in net, ReceiverHandle(m) PROVE TypeOK'
  <2>1. [status |-> "RECEIVER_OUTBOUND", inbound |-> TRUE, pay |-> m.pay] \in Rows
    BY <1>c, RowType DEF RowStatuses
  <2>2. \A reply \in Replies : Answer(stask, m, reply) \in SenderTasks \cup {Idle}
    BY AnswerType DEF TypeOK
  <2>3. rdb[m.ref] # NoRow => /\ [rdb[m.ref] EXCEPT !.status = "READY"] \in Rows
                              /\ [rdb[m.ref] EXCEPT !.status = "CANCELED"] \in Rows
    BY <1>a, <1>c, RowStatusType DEF RowStatuses
  <2>4. rdb' \in [Refs -> Rows \cup {NoRow}]
    BY <1>21, <1>c, <2>1, <2>3 DEF TypeOK, ReceiverHandle
  <2>5. stask' \in SenderTasks \cup {Idle}
    BY <1>21, <2>2 DEF ReceiverHandle, Replies
  <2> QED BY <1>21, <2>4, <2>5 DEF TypeOK, ReceiverHandle
<1>22. ASSUME NEW r \in Refs, SendCommandAsReceiver(r) PROVE TypeOK'
  <2> DEFINE p == [rdb[r].pay EXCEPT !.rs = "ready_for_settlement",
                                     !.rkyc = Written, !.sig = Written]
  <2>1. p \in PaymentObjects
    BY <1>22, <1>a, RowFieldTypes, PaySignedType DEF SendCommandAsReceiver
  <2>2. Request("sender", r, p) \in Messages
    BY <2>1, RequestType DEF Actors
  <2>3. [pc |-> "send", ref |-> r, reply |-> "waiting", pay |-> p] \in ReceiverTasks
    BY <2>1 DEF ReceiverTasks, Replies
  <2> QED BY <1>22, <2>2, <2>3 DEF TypeOK, SendCommandAsReceiver
<1>23. CASE SendAsReceiverDone
  <2>1. [status |-> "WAIT", inbound |-> FALSE, pay |-> rtask.pay] \in Rows
    BY <1>23, <1>a, RowType DEF SendAsReceiverDone, ReceiverTasks, RowStatuses
  <2> QED BY <1>23, <1>a, <2>1 DEF TypeOK, SendAsReceiverDone
<1>24. CASE ReceiverRejected
  BY <1>24 DEF TypeOK, ReceiverRejected
<1>25. CASE ReceiverTimeout
  BY <1>25, AbandonedType DEF TypeOK, ReceiverTimeout, Fault
<1>26. ASSUME NEW r \in Refs, ProcessIncoming(r) PROVE TypeOK'
  BY <1>26 DEF TypeOK, ProcessIncoming, Workers
<1>27. ASSUME NEW w \in wrk, RecordCredit(w) PROVE TypeOK'
  <2>1. [w EXCEPT !.pc = "recorded"] \in Workers
    BY DEF TypeOK, Workers
  <2> QED BY <1>27, <1>b, <2>1 DEF TypeOK, RecordCredit
<1>28. ASSUME NEW w \in wrk, IncomingFinish(w) PROVE TypeOK'
  <2>1. [rdb[w.ref] EXCEPT !.status = "COMPLETED"] \in Rows
    BY <1>b, RowStatusType DEF RowStatuses
  <2> QED BY <1>28, <1>b, <2>1 DEF TypeOK, IncomingFinish
<1>29. ASSUME NEW w \in wrk, WorkerCrash(w) PROVE TypeOK'
  BY <1>29 DEF TypeOK, WorkerCrash, Fault
<1>30. CASE UNCHANGED vars
  BY <1>30 DEF TypeOK, vars
<1> QED
  BY <1>1, <1>2, <1>3, <1>4, <1>5, <1>6, <1>7, <1>8, <1>9, <1>10, <1>11, <1>12, <1>13, <1>14,
     <1>15, <1>16, <1>17, <1>18, <1>19, <1>20, <1>21, <1>22, <1>23, <1>24, <1>25, <1>26,
     <1>27, <1>28, <1>29, <1>30
  DEF Next, UserStep, FaultStep, SenderTaskStep, ReceiverTaskStep, WorkerStep

\* The typing of whatever a task thread, a worker or a message refers to.
LEMMA Referents ==
    ASSUME TypeOK, RowsInv
    PROVE  /\ stask # Idle => stask \in SenderTasks /\ stask.ref \in Refs /\ sdb[stask.ref] \in Rows
           /\ rtask # Idle => rtask \in ReceiverTasks /\ rtask.ref \in Refs /\ rdb[rtask.ref] \in Rows
           /\ \A r \in Refs : sdb[r] # NoRow => sdb[r] \in Rows
           /\ \A r \in Refs : rdb[r] # NoRow => rdb[r] \in Rows
           /\ stask.pc # "idle" => stask # Idle
           /\ rtask.pc # "idle" => rtask # Idle
           /\ \A w \in wrk : w \in Workers /\ w.ref \in Refs /\ rdb[w.ref] \in Rows
           /\ \A m \in net : m \in Messages /\ m.ref \in Refs /\ m.pay \in PaymentObjects
           /\ \A t \in pool : t \in Txns /\ t.ref \in Refs
BY RowFacts DEF TypeOK, RowsInv, SenderTasks, ReceiverTasks, Workers, Messages, Txns

\* No operation deletes a payment command row: a row that is there stays.
LEMMA RowsStay ==
    ASSUME TypeOK, RowsInv, [Next]_vars
    PROVE  /\ \A q \in Refs : sdb[q] # NoRow => sdb'[q] # NoRow
           /\ \A q \in Refs : rdb[q] # NoRow => rdb'[q] # NoRow
<1> USE DEF chain, money, ghosts
<1> DEFINE Kept == /\ \A q \in Refs : sdb[q] # NoRow => sdb'[q] # NoRow
                   /\ \A q \in Refs : rdb[q] # NoRow => rdb'[q] # NoRow
<1>f. /\ \A q \in Refs : sdb[q] # NoRow => sdb[q] \in Rows
      /\ \A q \in Refs : rdb[q] # NoRow => rdb[q] \in Rows
      /\ stask.pc # "idle" => stask.ref \in Refs /\ sdb[stask.ref] \in Rows
      /\ rtask.pc # "idle" => rtask.ref \in Refs /\ rdb[rtask.ref] \in Rows
      /\ \A w \in wrk : w.ref \in Refs /\ rdb[w.ref] \in Rows
      /\ \A m \in net : m.ref \in Refs
      /\ sdb \in [Refs -> Rows \cup {NoRow}] /\ rdb \in [Refs -> Rows \cup {NoRow}]
  BY Referents DEF TypeOK
<1>n. \A row : row.status \in RowStatuses => row # NoRow
  BY DEF NoRow, RowStatuses
<1>r. ASSUME NEW st \in RowStatuses, NEW i, NEW p
      PROVE  [status |-> st, inbound |-> i, pay |-> p] # NoRow
  BY <1>n
<1>s. ASSUME NEW row \in Rows, NEW st \in RowStatuses PROVE [row EXCEPT !.status = st] # NoRow
  BY <1>n DEF Rows
<1>1. ASSUME NEW r \in Refs, AddPaymentCommandAsSender(r) \/ SaveOutboundPaymentCommand(r)
      PROVE  Kept
  BY <1>1, <1>f DEF AddPaymentCommandAsSender, SaveOutboundPaymentCommand
<1>2. ASSUME NEW r \in Refs, WebWrite(r) PROVE Kept
  <2>1. web[r] # NoWeb /\ sdb[r] \in Rows
    BY <1>2, <1>f DEF WebWrite, RowsInv
  <2> DEFINE row == [sdb[r] EXCEPT !.pay.ss = web[r].new,
                       !.status = IF web[r].status = "OUTBOUND" THEN @ ELSE "OUTBOUND"]
  <2>2. row.status \in RowStatuses
    BY <2>1 DEF Rows, RowStatuses
  <2>3. sdb' = [sdb EXCEPT ![r] = row] /\ rdb' = rdb
    BY <1>2, <2>1, <1>f DEF WebWrite
  <2> HIDE DEF row
  <2> QED BY <1>f, <1>n, <2>2, <2>3
<1>3. CASE SendCommandDone
  BY <1>3, <1>f, <1>s DEF SendCommandDone, RowStatuses
<1>4. ASSUME NEW r \in Refs, OffchainAction(r) PROVE Kept
  BY <1>4, <1>f, <1>r, CommandStatusType DEF OffchainAction, RowStatuses
<1>5. CASE SubmitFinish
  BY <1>5, <1>f, <1>s DEF SubmitFinish, RowStatuses
<1>6. ASSUME NEW m \in net, SenderHandle(m) PROVE Kept
  BY <1>6, <1>f, <1>r, CommandStatusType DEF SenderHandle, RowStatuses
<1>7. ASSUME NEW m \in net, ReceiverHandle(m) PROVE Kept
  BY <1>7, <1>f, <1>r, <1>s DEF ReceiverHandle, RowStatuses
<1>8. CASE SendAsReceiverDone
  BY <1>8, <1>f, <1>r DEF SendAsReceiverDone, RowStatuses
<1>9. ASSUME NEW w \in wrk, IncomingFinish(w) PROVE Kept
  BY <1>9, <1>f, <1>s DEF IncomingFinish, RowStatuses
<1>10. ASSUME UNCHANGED <<sdb, rdb>> PROVE Kept
  BY <1>10
<1> QED
  BY <1>1, <1>2, <1>3, <1>4, <1>5, <1>6, <1>7, <1>8, <1>9, <1>10
  DEF Next, UserStep, FaultStep, SenderTaskStep, ReceiverTaskStep, WorkerStep, WebRead,
      SendCommand, SubmitTxn, SubmitOnchain, OnchainDone, RecordDebit, SenderRejected,
      SenderTimeout, OnchainTimeout, OnchainConflict, SenderCrash, Execute, Expire,
      SendCommandAsReceiver, ReceiverRejected, ReceiverTimeout, ProcessIncoming,
      RecordCredit, WorkerCrash, vars

\* Which actions change which variable: the only code that writes it.
LEMMA Writers ==
    ASSUME [Next]_vars
    PROVE  /\ UNCHANGED sdb \/ (\E r \in Refs : AddPaymentCommandAsSender(r) \/
              SaveOutboundPaymentCommand(r) \/ WebWrite(r) \/ OffchainAction(r)) \/
              SendCommandDone \/ SubmitFinish \/ (\E m \in net : SenderHandle(m))
           /\ UNCHANGED rdb \/ (\E m \in net : ReceiverHandle(m)) \/
              SendAsReceiverDone \/ (\E w \in wrk : IncomingFinish(w))
           /\ stask' \in {stask, Idle} \/ (\E r \in Refs : SendCommand(r) \/
              SubmitTxn(r)) \/ SubmitOnchain \/ OnchainDone \/ RecordDebit \/ (\E t
              \in pool : Execute(t)) \/ (\E m \in net : ReceiverHandle(m))
           /\ rtask' \in {rtask, Idle} \/ (\E m \in net : SenderHandle(m)) \/ (\E r
              \in Refs : SendCommandAsReceiver(r))
           /\ UNCHANGED net \/ (\E r \in Refs : SendCommand(r) \/ SubmitTxn(r) \/
              SendCommandAsReceiver(r)) \/ SenderTimeout \/ SenderCrash \/
              ReceiverTimeout \/ (\E m \in net : SenderHandle(m) \/ ReceiverHandle(m))
           /\ UNCHANGED web \/ (\E r \in Refs, new \in WebStatuses : WebRead(r,
              new)) \/ (\E r \in Refs : WebWrite(r)) \/ SenderCrash
           /\ UNCHANGED pool \/ SubmitOnchain \/ OnchainTimeout \/ OnchainConflict
              \/ SenderCrash \/ (\E t \in pool : Execute(t) \/ Expire(t))
           /\ UNCHANGED paid \/ (\E t \in pool : Execute(t))
           /\ UNCHANGED wrk \/ (\E r \in Refs : ProcessIncoming(r)) \/ (\E w \in
              wrk : RecordCredit(w) \/ IncomingFinish(w) \/ WorkerCrash(w))
           /\ UNCHANGED signed \/ (\E r \in Refs : SendCommandAsReceiver(r))
           /\ UNCHANGED debits \/ RecordDebit
           /\ UNCHANGED credits \/ (\E w \in wrk : RecordCredit(w))
<1>1. UNCHANGED sdb \/ (\E r \in Refs : AddPaymentCommandAsSender(r) \/
     SaveOutboundPaymentCommand(r) \/ WebWrite(r) \/ OffchainAction(r)) \/
     SendCommandDone \/ SubmitFinish \/ (\E m \in net : SenderHandle(m))
  BY DEF Next, UserStep, FaultStep, SenderTaskStep, ReceiverTaskStep, WorkerStep, vars,
    chain, money, ghosts, WebRead, SendCommand, SubmitTxn, SubmitOnchain, OnchainDone,
    RecordDebit, SenderRejected, SenderTimeout, OnchainTimeout, OnchainConflict,
    SenderCrash, Execute, Expire, ReceiverHandle, SendCommandAsReceiver,
    SendAsReceiverDone, ReceiverRejected, ReceiverTimeout, ProcessIncoming,
    RecordCredit, IncomingFinish, WorkerCrash
<1>2. UNCHANGED rdb \/ (\E m \in net : ReceiverHandle(m)) \/ SendAsReceiverDone \/ (\E
     w \in wrk : IncomingFinish(w))
  BY DEF Next, UserStep, FaultStep, SenderTaskStep, ReceiverTaskStep, WorkerStep, vars,
    chain, money, ghosts, AddPaymentCommandAsSender, SaveOutboundPaymentCommand,
    WebRead, WebWrite, SendCommand, SendCommandDone, OffchainAction, SubmitTxn,
    SubmitOnchain, OnchainDone, RecordDebit, SubmitFinish, SenderRejected,
    SenderTimeout, OnchainTimeout, OnchainConflict, SenderCrash, SenderHandle,
    Execute, Expire, SendCommandAsReceiver, ReceiverRejected, ReceiverTimeout,
    ProcessIncoming, RecordCredit, WorkerCrash
<1>3. stask' \in {stask, Idle} \/ (\E r \in Refs : SendCommand(r) \/ SubmitTxn(r)) \/
     SubmitOnchain \/ OnchainDone \/ RecordDebit \/ (\E t \in pool : Execute(t)) \/
     (\E m \in net : ReceiverHandle(m))
  BY DEF Next, UserStep, FaultStep, SenderTaskStep, ReceiverTaskStep, WorkerStep, vars,
    chain, money, ghosts, AddPaymentCommandAsSender, SaveOutboundPaymentCommand,
    WebRead, WebWrite, SendCommandDone, OffchainAction, SubmitFinish, SenderRejected,
    SenderTimeout, OnchainTimeout, OnchainConflict, SenderCrash, SenderHandle, Expire,
    SendCommandAsReceiver, SendAsReceiverDone, ReceiverRejected, ReceiverTimeout,
    ProcessIncoming, RecordCredit, IncomingFinish, WorkerCrash
<1>4. rtask' \in {rtask, Idle} \/ (\E m \in net : SenderHandle(m)) \/ (\E r \in Refs :
     SendCommandAsReceiver(r))
  BY DEF Next, UserStep, FaultStep, SenderTaskStep, ReceiverTaskStep, WorkerStep, vars,
    chain, money, ghosts, AddPaymentCommandAsSender, SaveOutboundPaymentCommand,
    WebRead, WebWrite, SendCommand, SendCommandDone, OffchainAction, SubmitTxn,
    SubmitOnchain, OnchainDone, RecordDebit, SubmitFinish, SenderRejected,
    SenderTimeout, OnchainTimeout, OnchainConflict, SenderCrash, Execute, Expire,
    ReceiverHandle, SendAsReceiverDone, ReceiverRejected, ReceiverTimeout,
    ProcessIncoming, RecordCredit, IncomingFinish, WorkerCrash
<1>5. UNCHANGED net \/ (\E r \in Refs : SendCommand(r) \/ SubmitTxn(r) \/
     SendCommandAsReceiver(r)) \/ SenderTimeout \/ SenderCrash \/ ReceiverTimeout \/
     (\E m \in net : SenderHandle(m) \/ ReceiverHandle(m))
  BY DEF Next, UserStep, FaultStep, SenderTaskStep, ReceiverTaskStep, WorkerStep, vars,
    chain, money, ghosts, AddPaymentCommandAsSender, SaveOutboundPaymentCommand,
    WebRead, WebWrite, SendCommandDone, OffchainAction, SubmitOnchain, OnchainDone,
    RecordDebit, SubmitFinish, SenderRejected, OnchainTimeout, OnchainConflict,
    Execute, Expire, SendAsReceiverDone, ReceiverRejected, ProcessIncoming,
    RecordCredit, IncomingFinish, WorkerCrash
<1>6. UNCHANGED web \/ (\E r \in Refs, new \in WebStatuses : WebRead(r, new)) \/ (\E r
     \in Refs : WebWrite(r)) \/ SenderCrash
  BY DEF Next, UserStep, FaultStep, SenderTaskStep, ReceiverTaskStep, WorkerStep, vars,
    chain, money, ghosts, AddPaymentCommandAsSender, SaveOutboundPaymentCommand,
    SendCommand, SendCommandDone, OffchainAction, SubmitTxn, SubmitOnchain,
    OnchainDone, RecordDebit, SubmitFinish, SenderRejected, SenderTimeout,
    OnchainTimeout, OnchainConflict, SenderHandle, Execute, Expire, ReceiverHandle,
    SendCommandAsReceiver, SendAsReceiverDone, ReceiverRejected, ReceiverTimeout,
    ProcessIncoming, RecordCredit, IncomingFinish, WorkerCrash
<1>7. UNCHANGED pool \/ SubmitOnchain \/ OnchainTimeout \/ OnchainConflict \/
     SenderCrash \/ (\E t \in pool : Execute(t) \/ Expire(t))
  BY DEF Next, UserStep, FaultStep, SenderTaskStep, ReceiverTaskStep, WorkerStep, vars,
    chain, money, ghosts, AddPaymentCommandAsSender, SaveOutboundPaymentCommand,
    WebRead, WebWrite, SendCommand, SendCommandDone, OffchainAction, SubmitTxn,
    OnchainDone, RecordDebit, SubmitFinish, SenderRejected, SenderTimeout,
    SenderHandle, ReceiverHandle, SendCommandAsReceiver, SendAsReceiverDone,
    ReceiverRejected, ReceiverTimeout, ProcessIncoming, RecordCredit, IncomingFinish,
    WorkerCrash
<1>8. UNCHANGED paid \/ (\E t \in pool : Execute(t))
  BY DEF Next, UserStep, FaultStep, SenderTaskStep, ReceiverTaskStep, WorkerStep, vars,
    chain, money, ghosts, AddPaymentCommandAsSender, SaveOutboundPaymentCommand,
    WebRead, WebWrite, SendCommand, SendCommandDone, OffchainAction, SubmitTxn,
    SubmitOnchain, OnchainDone, RecordDebit, SubmitFinish, SenderRejected,
    SenderTimeout, OnchainTimeout, OnchainConflict, SenderCrash, SenderHandle, Expire,
    ReceiverHandle, SendCommandAsReceiver, SendAsReceiverDone, ReceiverRejected,
    ReceiverTimeout, ProcessIncoming, RecordCredit, IncomingFinish, WorkerCrash
<1>9. UNCHANGED wrk \/ (\E r \in Refs : ProcessIncoming(r)) \/ (\E w \in wrk :
     RecordCredit(w) \/ IncomingFinish(w) \/ WorkerCrash(w))
  BY DEF Next, UserStep, FaultStep, SenderTaskStep, ReceiverTaskStep, WorkerStep, vars,
    chain, money, ghosts, AddPaymentCommandAsSender, SaveOutboundPaymentCommand,
    WebRead, WebWrite, SendCommand, SendCommandDone, OffchainAction, SubmitTxn,
    SubmitOnchain, OnchainDone, RecordDebit, SubmitFinish, SenderRejected,
    SenderTimeout, OnchainTimeout, OnchainConflict, SenderCrash, SenderHandle,
    Execute, Expire, ReceiverHandle, SendCommandAsReceiver, SendAsReceiverDone,
    ReceiverRejected, ReceiverTimeout
<1>10. UNCHANGED signed \/ (\E r \in Refs : SendCommandAsReceiver(r))
  BY DEF Next, UserStep, FaultStep, SenderTaskStep, ReceiverTaskStep, WorkerStep, vars,
    chain, money, ghosts, AddPaymentCommandAsSender, SaveOutboundPaymentCommand,
    WebRead, WebWrite, SendCommand, SendCommandDone, OffchainAction, SubmitTxn,
    SubmitOnchain, OnchainDone, RecordDebit, SubmitFinish, SenderRejected,
    SenderTimeout, OnchainTimeout, OnchainConflict, SenderCrash, SenderHandle,
    Execute, Expire, ReceiverHandle, SendAsReceiverDone, ReceiverRejected,
    ReceiverTimeout, ProcessIncoming, RecordCredit, IncomingFinish, WorkerCrash
<1>11. UNCHANGED debits \/ RecordDebit
  BY DEF Next, UserStep, FaultStep, SenderTaskStep, ReceiverTaskStep, WorkerStep, vars,
    chain, money, ghosts, AddPaymentCommandAsSender, SaveOutboundPaymentCommand,
    WebRead, WebWrite, SendCommand, SendCommandDone, OffchainAction, SubmitTxn,
    SubmitOnchain, OnchainDone, SubmitFinish, SenderRejected, SenderTimeout,
    OnchainTimeout, OnchainConflict, SenderCrash, SenderHandle, Execute, Expire,
    ReceiverHandle, SendCommandAsReceiver, SendAsReceiverDone, ReceiverRejected,
    ReceiverTimeout, ProcessIncoming, RecordCredit, IncomingFinish, WorkerCrash
<1>12. UNCHANGED credits \/ (\E w \in wrk : RecordCredit(w))
  BY DEF Next, UserStep, FaultStep, SenderTaskStep, ReceiverTaskStep, WorkerStep, vars,
    chain, money, ghosts, AddPaymentCommandAsSender, SaveOutboundPaymentCommand,
    WebRead, WebWrite, SendCommand, SendCommandDone, OffchainAction, SubmitTxn,
    SubmitOnchain, OnchainDone, RecordDebit, SubmitFinish, SenderRejected,
    SenderTimeout, OnchainTimeout, OnchainConflict, SenderCrash, SenderHandle,
    Execute, Expire, ReceiverHandle, SendCommandAsReceiver, SendAsReceiverDone,
    ReceiverRejected, ReceiverTimeout, ProcessIncoming, IncomingFinish, WorkerCrash
<1> QED BY <1>1, <1>2, <1>3, <1>4, <1>5, <1>6, <1>7, <1>8, <1>9, <1>10, <1>11, <1>12

\* A reply changes nothing of a waiting task but its reply.
LEMMA AnswerFacts ==
    ASSUME NEW T \in {SenderTasks, ReceiverTasks}, NEW task \in T \cup {Idle}, NEW m, NEW reply
    PROVE  /\ Answer(task, m, reply) # Idle => task # Idle
           /\ task # Idle => Answer(task, m, reply).ref = task.ref
           /\ Answer(task, m, reply).pc = task.pc
<1>1. CASE T = SenderTasks
  BY <1>1, RowFacts DEF Answer, SenderTasks
<1>2. CASE T = ReceiverTasks
  BY <1>2, RowFacts DEF Answer, ReceiverTasks
<1> QED BY <1>1, <1>2

\* Every step keeps the rows that threads, web requests and workers refer to.
LEMMA RowsStep == TypeOK /\ RowsInv /\ [Next]_vars => RowsInv'
<1> SUFFICES ASSUME TypeOK, RowsInv, [Next]_vars PROVE RowsInv'
  OBVIOUS
<1> DEFINE STask == stask # Idle => sdb[stask.ref] # NoRow
           RTask == rtask # Idle => rdb[rtask.ref] # NoRow
           Webs == \A r \in Refs : web[r] # NoWeb => sdb[r] # NoRow
           Works == \A w \in wrk : rdb[w.ref] # NoRow
           Signeds == \A r \in signed : rdb[r] # NoRow
<1>s. /\ \A q \in Refs : sdb[q] # NoRow => sdb'[q] # NoRow
      /\ \A q \in Refs : rdb[q] # NoRow => rdb'[q] # NoRow
  BY RowsStay
<1>f. /\ stask # Idle => stask \in SenderTasks /\ stask.ref \in Refs
      /\ rtask # Idle => rtask \in ReceiverTasks /\ rtask.ref \in Refs
      /\ stask.pc # "idle" => stask # Idle
      /\ \A w \in wrk : w \in Workers /\ w.ref \in Refs
      /\ signed \subseteq Refs
      /\ STask /\ RTask /\ Webs /\ Works /\ Signeds
      /\ stask \in SenderTasks \cup {Idle} /\ rtask \in ReceiverTasks \cup {Idle}
      /\ web \in [Refs -> WebRequests \cup {NoWeb}]
  BY Referents DEF TypeOK, RowsInv
<1>1. STask'
  <2>1. ASSUME NEW r \in Refs, SendCommand(r) \/ SubmitTxn(r) PROVE STask'
    BY <2>1, <1>s DEF SendCommand, SubmitTxn
  <2>2. CASE SubmitOnchain \/ OnchainDone \/ RecordDebit
    BY <2>2, <1>f, <1>s DEF SubmitOnchain, OnchainDone, RecordDebit, SenderTasks
  <2>3. ASSUME NEW t \in pool, Execute(t) PROVE STask'
    BY <2>3, <1>f, <1>s DEF Execute, SenderTasks
  <2>4. ASSUME NEW m \in net, ReceiverHandle(m) PROVE STask'
    BY <2>4, <1>f, <1>s, AnswerFacts DEF ReceiverHandle
  <2>5. ASSUME stask' \in {stask, Idle} PROVE STask'
    BY <2>5, <1>f, <1>s
  <2> QED BY <2>1, <2>2, <2>3, <2>4, <2>5, Writers
<1>2. RTask'
  <2>1. ASSUME NEW r \in Refs, SendCommandAsReceiver(r) PROVE RTask'
    BY <2>1, <1>s DEF SendCommandAsReceiver
  <2>2. ASSUME NEW m \in net, SenderHandle(m) PROVE RTask'
    BY <2>2, <1>f, <1>s, AnswerFacts DEF SenderHandle
  <2>3. ASSUME rtask' \in {rtask, Idle} PROVE RTask'
    BY <2>3, <1>f, <1>s
  <2> QED BY <2>1, <2>2, <2>3, Writers
<1>3. Webs'
  <2>1. ASSUME NEW r \in Refs, NEW new \in WebStatuses, WebRead(r, new) PROVE Webs'
    BY <2>1, <1>f, <1>s DEF WebRead
  <2>2. ASSUME NEW r \in Refs, WebWrite(r) PROVE Webs'
    BY <2>2, <1>f, <1>s DEF WebWrite
  <2>3. CASE SenderCrash
    BY <2>3, <1>f, <1>s DEF SenderCrash
  <2> QED BY <2>1, <2>2, <2>3, <1>f, <1>s, Writers
<1>4. Works'
  <2>1. ASSUME NEW r \in Refs, ProcessIncoming(r) PROVE Works'
    BY <2>1, <1>f, <1>s DEF ProcessIncoming
  <2>2. ASSUME NEW w \in wrk, RecordCredit(w) PROVE Works'
    BY <2>2, <1>f, <1>s DEF RecordCredit, Workers
  <2>3. ASSUME NEW w \in wrk, IncomingFinish(w) \/ WorkerCrash(w) PROVE Works'
    BY <2>3, <1>f, <1>s DEF IncomingFinish, WorkerCrash
  <2> QED BY <2>1, <2>2, <2>3, <1>f, <1>s, Writers
<1>5. Signeds'
  <2>1. ASSUME NEW r \in Refs, SendCommandAsReceiver(r) PROVE Signeds'
    BY <2>1, <1>f, <1>s DEF SendCommandAsReceiver
  <2> QED BY <2>1, <1>f, <1>s, Writers
<1> QED BY <1>1, <1>2, <1>3, <1>4, <1>5 DEF RowsInv

\* A payment once signed stays signed, and only a signature adds one.
LEMMA SignedGrows == ASSUME [Next]_vars PROVE signed \subseteq signed'
BY Writers DEF SendCommandAsReceiver

\* Every step keeps signatures where they are claimed: no command, row, task or
\* transaction of the sender VASP gets ahead of the recipient's signature.
LEMMA SignedStep == TypeOK /\ RowsInv /\ SignedInv /\ [Next]_vars => SignedInv'
<1> SUFFICES ASSUME TypeOK, RowsInv, SignedInv, [Next]_vars PROVE SignedInv'
  OBVIOUS
<1> DEFINE Net == \A m \in net : m.to = "sender" => IsSet(m.pay.sig) /\ m.ref \in signed
           Rowz == \A q \in Refs : sdb[q].status \in {"INBOUND", "READY"} =>
                       IsSet(sdb[q].pay.sig) /\ q \in signed
           Task == stask.pc \in {"ready", "wait_txn", "record", "finish"} => stask.ref \in signed
           Pool == \A t \in pool : t.ref \in signed
<1>s. signed \subseteq signed'
  BY SignedGrows
<1>i. Net /\ Rowz /\ Task /\ Pool
  BY DEF SignedInv
<1>f. /\ stask.pc # "idle" => stask \in SenderTasks /\ stask.ref \in Refs /\ sdb[stask.ref] \in Rows
      /\ \A r \in Refs : sdb[r] # NoRow => sdb[r] \in Rows
      /\ \A r \in Refs : rdb[r] # NoRow => rdb[r] \in Rows
      /\ \A m \in net : m \in Messages /\ m.ref \in Refs
      /\ \A t \in pool : t \in Txns
      /\ \A r \in Refs : web[r] # NoWeb => sdb[r] \in Rows
      /\ stask \in SenderTasks \cup {Idle}
      /\ sdb \in [Refs -> Rows \cup {NoRow}]
  BY Referents DEF TypeOK, RowsInv
<1>1. Net'
  <2>1. ASSUME NEW r \in Refs, SendCommand(r) \/ SubmitTxn(r) PROVE Net'
    BY <2>1, <1>i, <1>s DEF SendCommand, SubmitTxn, Request
  <2>2. ASSUME NEW r \in Refs, SendCommandAsReceiver(r) PROVE Net'
    <3> DEFINE p == [rdb[r].pay EXCEPT !.rs = "ready_for_settlement",
                                       !.rkyc = Written, !.sig = Written]
    <3>1. rdb[r] \in Rows
      BY <2>2, <1>f DEF SendCommandAsReceiver
    <3>2. IsSet(p.sig)
      BY <3>1, WrittenFacts DEF Rows, PaymentObjects
    <3>3. net' = net \cup {Request("sender", r, p)} /\ r \in signed'
      BY <2>2 DEF SendCommandAsReceiver
    <3> HIDE DEF p
    <3> QED BY <3>2, <3>3, <1>i, <1>s DEF Request
  <2>3. CASE SenderTimeout \/ SenderCrash \/ ReceiverTimeout
    <3>1. \A to : \A m \in Abandoned(to) :
             \E n \in net : m.to = n.to /\ m.ref = n.ref /\ m.pay = n.pay
      BY <1>f DEF Abandoned, Messages
    <3> QED BY <2>3, <3>1, <1>i, <1>s DEF SenderTimeout, SenderCrash, ReceiverTimeout
  <2>4. ASSUME NEW m \in net, SenderHandle(m) \/ ReceiverHandle(m) PROVE Net'
    BY <2>4, <1>i, <1>s DEF SenderHandle, ReceiverHandle
  <2> QED BY <2>1, <2>2, <2>3, <2>4, <1>i, <1>s, Writers
<1>2. Rowz'
  <2>1. ASSUME NEW r \in Refs, AddPaymentCommandAsSender(r) \/ SaveOutboundPaymentCommand(r)
        PROVE  Rowz'
    BY <2>1, <1>f, <1>i, <1>s DEF AddPaymentCommandAsSender, SaveOutboundPaymentCommand
  <2>2. ASSUME NEW r \in Refs, WebWrite(r) PROVE Rowz'
    <3>1. sdb[r] \in Rows
      BY <2>2, <1>f DEF WebWrite
    <3>2. /\ sdb'[r].pay.sig = sdb[r].pay.sig
          /\ sdb'[r].status \in {sdb[r].status, "OUTBOUND"}
      BY <2>2, <3>1, <1>f DEF WebWrite, Rows, PaymentObjects
    <3>3. \A q \in Refs : q # r => sdb'[q] = sdb[q]
      BY <2>2, <1>f DEF WebWrite
    <3> QED BY <3>2, <3>3, <1>i, <1>s
  <2>3. ASSUME NEW r \in Refs, OffchainAction(r) PROVE Rowz'
    <3>1. sdb[r] \in Rows /\ sdb[r].status = "INBOUND"
      BY <2>3, <1>f DEF OffchainAction
    <3>2. sdb'[r].pay.sig = sdb[r].pay.sig
      BY <2>3, <3>1, <1>f DEF OffchainAction, Rows, PaymentObjects
    <3>3. \A q \in Refs : q # r => sdb'[q] = sdb[q]
      BY <2>3, <1>f DEF OffchainAction
    <3> QED BY <3>1, <3>2, <3>3, <1>i, <1>s
  <2>4. CASE SendCommandDone \/ SubmitFinish
    BY <2>4, <1>f, <1>i, <1>s DEF SendCommandDone, SubmitFinish, Rows
  <2>5. ASSUME NEW m \in net, SenderHandle(m) PROVE Rowz'
    <3>1. m.to = "sender" /\ m.ref \in signed /\ IsSet(m.pay.sig)
      BY <2>5, <1>i DEF SenderHandle
    <3>2. sdb' = sdb \/ sdb' = [sdb EXCEPT ![m.ref] =
                             [status |-> PaymentCommandStatus(m.pay, "INBOUND"),
                              inbound |-> TRUE, pay |-> m.pay]]
      BY <2>5 DEF SenderHandle
    <3> QED BY <3>1, <3>2, <1>f, <1>i, <1>s
  <2> QED BY <2>1, <2>2, <2>3, <2>4, <2>5, <1>i, <1>s, Writers
<1>3. Task'
  <2>1. ASSUME NEW r \in Refs, SendCommand(r) \/ SubmitTxn(r) PROVE Task'
    BY <2>1, <1>i, <1>s DEF SendCommand, SubmitTxn
  <2>2. CASE SubmitOnchain \/ OnchainDone \/ RecordDebit
    BY <2>2, <1>f, <1>i, <1>s, RowFacts DEF SubmitOnchain, OnchainDone, RecordDebit, SenderTasks
  <2>3. ASSUME NEW t \in pool, Execute(t) PROVE Task'
    BY <2>3, <1>f, <1>i, <1>s DEF Execute, SenderTasks
  <2>4. ASSUME NEW m \in net, ReceiverHandle(m) PROVE Task'
    BY <2>4, <1>f, <1>i, <1>s, AnswerFacts, RowFacts DEF ReceiverHandle
  <2> QED BY <2>1, <2>2, <2>3, <2>4, <1>i, <1>s, Writers, RowFacts
<1>4. Pool'
  <2>1. CASE SubmitOnchain
    BY <2>1, <1>i, <1>s DEF SubmitOnchain
  <2>2. CASE OnchainTimeout \/ OnchainConflict \/ SenderCrash
    BY <2>2, <1>f, <1>i, <1>s DEF OnchainTimeout, OnchainConflict, SenderCrash, Txns
  <2>3. ASSUME NEW t \in pool, Execute(t) \/ Expire(t) PROVE Pool'
    BY <2>3, <1>i, <1>s DEF Execute, Expire
  <2> QED BY <2>1, <2>2, <2>3, <1>i, <1>s, Writers
<1> QED BY <1>1, <1>2, <1>3, <1>4 DEF SignedInv

\* At most one request of the sender's task is waited for, and its reply has not
\* arrived: the thread sends one request at a time, holding the row.
LEMMA RequestStep == TypeOK /\ RowsInv /\ RequestInv /\ [Next]_vars => RequestInv'
<1> SUFFICES ASSUME TypeOK, RowsInv, RequestInv, [Next]_vars PROVE RequestInv'
  OBVIOUS
<1>f. /\ stask \in SenderTasks \cup {Idle} /\ \A m \in net : m \in Messages
      /\ stask.pc # "idle" => stask \in SenderTasks
  BY Referents, RowFacts DEF TypeOK
<1>1. ASSUME NEW r \in Refs, SendCommand(r) \/ SubmitTxn(r) PROVE RequestInv'
  <2>1. \A n \in net : ~(n.to = "receiver" /\ n.live)
    BY <1>1, RowFacts DEF SendCommand, SubmitTxn, RequestInv
  <2>2. /\ net' = net \cup {Request("receiver", r, sdb[r].pay)}
        /\ stask'.pc \in {"send", "ready"} /\ stask'.reply = "waiting"
    BY <1>1 DEF SendCommand, SubmitTxn
  <2> QED BY <2>1, <2>2 DEF RequestInv
<1>2. CASE SubmitOnchain \/ OnchainDone \/ RecordDebit
  BY <1>2 DEF SubmitOnchain, OnchainDone, RecordDebit, RequestInv
<1>3. ASSUME NEW t \in pool, Execute(t) PROVE RequestInv'
  BY <1>3 DEF Execute, RequestInv
<1>4. ASSUME NEW m \in net, ReceiverHandle(m) PROVE RequestInv'
  <2>1. net' = net \ {m} /\ m.to = "receiver"
    BY <1>4 DEF ReceiverHandle
  <2>2. m.live \/ stask' = stask
    BY <1>4 DEF ReceiverHandle, Answer
  <2> QED BY <2>1, <2>2 DEF RequestInv
<1>5. CASE SenderTimeout \/ SenderCrash
  BY <1>5, <1>f DEF SenderTimeout, SenderCrash, Abandoned, Messages, RequestInv
<1>6. CASE ReceiverTimeout
  BY <1>6, <1>f DEF ReceiverTimeout, Abandoned, Messages, RequestInv
<1>7. ASSUME NEW m \in net, SenderHandle(m) PROVE RequestInv'
  BY <1>7 DEF SenderHandle, RequestInv
<1>8. ASSUME NEW r \in Refs, SendCommandAsReceiver(r) PROVE RequestInv'
  BY <1>8 DEF SendCommandAsReceiver, Request, RequestInv
<1>9. CASE SendCommandDone \/ SenderRejected
  BY <1>9 DEF SendCommandDone, SenderRejected, RequestInv
<1>10. CASE SubmitFinish \/ OnchainTimeout \/ OnchainConflict
  BY <1>10 DEF SubmitFinish, OnchainTimeout, OnchainConflict, RequestInv
<1>11. CASE UNCHANGED <<net, stask>>
  BY <1>11 DEF RequestInv
<1> QED
  BY <1>1, <1>2, <1>3, <1>4, <1>5, <1>6, <1>7, <1>8, <1>9, <1>10, <1>11
  DEF Next, UserStep, FaultStep, SenderTaskStep, ReceiverTaskStep, WorkerStep, vars, chain,
      money, ghosts, AddPaymentCommandAsSender, SaveOutboundPaymentCommand, WebRead, WebWrite,
      OffchainAction, Expire, SendAsReceiverDone, ReceiverRejected, ProcessIncoming,
      RecordCredit, IncomingFinish, WorkerCrash

\* A transfer once made stays made.
LEMMA PaidGrows ==
    ASSUME TypeOK, [Next]_vars
    PROVE  \A q \in Refs : paid[q] > 0 => paid'[q] > 0
<1>1. ASSUME NEW t \in pool, Execute(t) PROVE \A q \in Refs : paid[q] > 0 => paid'[q] > 0
  BY <1>1 DEF Execute, TypeOK
<1> QED BY <1>1, Writers

\* Every step keeps the knowledge of the transfer: the thread that waits for its
\* transaction is answered by that transaction's execution and by no other, and
\* a worker only books what it found on the chain.
LEMMA PaidStep == TypeOK /\ RowsInv /\ RequestInv /\ PaidInv /\ [Next]_vars => PaidInv'
<1> SUFFICES ASSUME TypeOK, RowsInv, RequestInv, PaidInv, [Next]_vars PROVE PaidInv'
  OBVIOUS
<1> DEFINE Alone == \A t, u \in pool : t.live /\ u.live => t = u
           Wait == \A t \in pool : t.live =>
                     stask.pc = "wait_txn" /\ stask.ref = t.ref /\ stask.reply = "waiting"
           Done == stask.pc = "wait_txn" /\ stask.reply = "ok" => paid[stask.ref] > 0
           Book == stask.pc \in {"record", "finish"} => paid[stask.ref] > 0
           Task == Alone /\ Wait /\ Done /\ Book
           Work == \A w \in wrk : paid[w.ref] > 0
<1>p. \A q \in Refs : paid[q] > 0 => paid'[q] > 0
  BY PaidGrows
<1>i. Task /\ Work
  BY DEF PaidInv
<1>f. /\ stask \in SenderTasks \cup {Idle} /\ \A t \in pool : t \in Txns /\ t.ref \in Refs
      /\ stask.pc # "idle" => stask \in SenderTasks /\ stask.ref \in Refs
      /\ \A w \in wrk : w \in Workers /\ w.ref \in Refs
  BY Referents, RowFacts DEF TypeOK
<1>1. Task'
  <2>1. ASSUME NEW r \in Refs, SendCommand(r) \/ SubmitTxn(r) PROVE Task'
    BY <2>1, <1>i, RowFacts DEF SendCommand, SubmitTxn, chain, money
  <2>2. ASSUME SubmitOnchain PROVE Task'
    <3> DEFINE new == [ref |-> stask.ref, seq |-> seqno, live |-> TRUE]
    <3>1. (\A t \in pool : ~t.live) /\ stask \in SenderTasks
      BY <2>2, <1>f, <1>i DEF SubmitOnchain
    <3>2. pool' = pool \cup {new} /\ new.ref = stask.ref
      BY <2>2 DEF SubmitOnchain
    <3>3. stask'.pc = "wait_txn" /\ stask'.ref = stask.ref /\ stask'.reply = "waiting"
      BY <2>2, <3>1 DEF SubmitOnchain, SenderTasks
    <3> HIDE DEF new
    <3> QED BY <3>1, <3>2, <3>3
  <2>3. ASSUME OnchainDone PROVE Task'
    BY <2>3, <1>f, <1>i, <1>p DEF OnchainDone, chain, money, SenderTasks
  <2>4. ASSUME RecordDebit PROVE Task'
    BY <2>4, <1>f, <1>i, <1>p, RowFacts DEF RecordDebit, chain, SenderTasks
  <2>5. ASSUME NEW t \in pool, Execute(t) PROVE Task'
    <3>1. Alone'
      BY <2>5, <1>i DEF Execute
    <3>2. Wait'
      BY <2>5, <1>i DEF Execute
    <3>3. paid'[t.ref] > 0
      BY <2>5, <1>f DEF Execute, TypeOK
    <3>4. Done'
      BY <2>5, <1>f, <1>i, <1>p, <3>3 DEF Execute, SenderTasks
    <3>5. Book'
      BY <2>5, <1>f, <1>i, <1>p DEF Execute, SenderTasks
    <3> QED BY <3>1, <3>2, <3>4, <3>5
  <2>6. ASSUME NEW t \in pool, Expire(t) PROVE Task'
    BY <2>6, <1>i, <1>p DEF Expire, money
  <2>7. ASSUME NEW m \in net, ReceiverHandle(m) PROVE Task'
    <3>1. pool' = pool /\ paid' = paid
      BY <2>7 DEF ReceiverHandle, chain, money
    <3>2. stask' = stask \/ (stask.pc \in {"send", "ready"} /\ stask'.pc = stask.pc)
      BY <2>7, <1>f DEF ReceiverHandle, Answer, RequestInv, SenderTasks
    <3> QED BY <3>1, <3>2, <1>i
  <2>8. ASSUME OnchainTimeout \/ OnchainConflict \/ SenderCrash PROVE Task'
    <3>1. \A t \in pool' : ~t.live
      BY <2>8, <1>f DEF OnchainTimeout, OnchainConflict, SenderCrash, Txns
    <3>2. stask' = Idle
      BY <2>8 DEF OnchainTimeout, OnchainConflict, SenderCrash
    <3> QED BY <3>1, <3>2, RowFacts
  <2>9. ASSUME SendCommandDone \/ SubmitFinish \/ SenderRejected \/ SenderTimeout PROVE Task'
    <3>1. stask.pc # "wait_txn" /\ stask' = Idle /\ pool' = pool
      BY <2>9 DEF SendCommandDone, SubmitFinish, SenderRejected, SenderTimeout, chain
    <3> QED BY <3>1, <1>i, RowFacts
  <2>10. ASSUME UNCHANGED <<stask, pool, paid>> PROVE Task'
    BY <2>10, <1>i
  <2> QED
    BY <2>1, <2>2, <2>3, <2>4, <2>5, <2>6, <2>7, <2>8, <2>9, <2>10
    DEF Next, UserStep, FaultStep, SenderTaskStep, ReceiverTaskStep, WorkerStep, vars, chain,
        money, ghosts, AddPaymentCommandAsSender, SaveOutboundPaymentCommand, WebRead, WebWrite,
        OffchainAction, SenderHandle, SendCommandAsReceiver, SendAsReceiverDone,
        ReceiverRejected, ReceiverTimeout, ProcessIncoming, RecordCredit, IncomingFinish,
        WorkerCrash
<1>2. Work'
  <2>1. ASSUME NEW r \in Refs, ProcessIncoming(r) PROVE Work'
    BY <2>1, <1>f, <1>i, <1>p DEF ProcessIncoming
  <2>2. ASSUME NEW w \in wrk, RecordCredit(w) PROVE Work'
    BY <2>2, <1>f, <1>i, <1>p DEF RecordCredit, Workers
  <2>3. ASSUME NEW w \in wrk, IncomingFinish(w) \/ WorkerCrash(w) PROVE Work'
    BY <2>3, <1>f, <1>i, <1>p DEF IncomingFinish, WorkerCrash
  <2> QED BY <2>1, <2>2, <2>3, <1>f, <1>i, <1>p, Writers
<1> QED BY <1>1, <1>2 DEF PaidInv

\* Every step keeps the books: an entry is made once, and a row shows COMPLETED
\* only after the entry is there.
LEMMA BookedStep == TypeOK /\ RowsInv /\ BookedInv /\ [Next]_vars => BookedInv'
<1> SUFFICES ASSUME TypeOK, RowsInv, BookedInv, [Next]_vars PROVE BookedInv'
  OBVIOUS
<1> DEFINE Once == \A q \in Refs : debits[q] \in {0, 1} /\ credits[q] \in {0, 1}
           Fin == stask.pc = "finish" => debits[stask.ref] = 1
           Rec == \A w \in wrk : w.pc = "recorded" => credits[w.ref] = 1
           SDone == \A q \in Refs : sdb[q].status = "COMPLETED" => debits[q] = 1
           RDone == \A q \in Refs : rdb[q].status = "COMPLETED" => credits[q] = 1
<1>i. Once /\ Fin /\ Rec /\ SDone /\ RDone
  BY DEF BookedInv, CompletedIsBooked
<1>f. /\ stask.pc # "idle" => stask \in SenderTasks /\ stask.ref \in Refs /\ sdb[stask.ref] \in Rows
      /\ rtask.pc # "idle" => rtask.ref \in Refs /\ rdb[rtask.ref] \in Rows
      /\ \A r \in Refs : sdb[r] # NoRow => sdb[r] \in Rows
      /\ \A r \in Refs : rdb[r] # NoRow => rdb[r] \in Rows
      /\ \A w \in wrk : w \in Workers /\ w.ref \in Refs /\ rdb[w.ref] \in Rows
      /\ \A m \in net : m.ref \in Refs
      /\ \A r \in Refs : web[r] # NoWeb => sdb[r] \in Rows
      /\ stask \in SenderTasks \cup {Idle}
      /\ sdb \in [Refs -> Rows \cup {NoRow}] /\ rdb \in [Refs -> Rows \cup {NoRow}]
      /\ debits \in [Refs -> Nat] /\ credits \in [Refs -> Nat]
  BY Referents DEF TypeOK, RowsInv
<1>1. Once'
  <2>1. CASE RecordDebit
    BY <2>1, <1>i, <1>f, RowFacts DEF RecordDebit
  <2>2. ASSUME NEW w \in wrk, RecordCredit(w) PROVE Once'
    BY <2>2, <1>i, <1>f DEF RecordCredit
  <2>3. UNCHANGED debits \/ RecordDebit
    BY Writers
  <2>4. UNCHANGED credits \/ \E w \in wrk : RecordCredit(w)
    BY Writers
  <2> QED BY <2>1, <2>2, <2>3, <2>4, <1>i
<1>g. \A q \in Refs : (debits[q] = 1 => debits'[q] = 1) /\ (credits[q] = 1 => credits'[q] = 1)
  <2>1. RecordDebit => \A q \in Refs : debits[q] = 1 => debits'[q] = 1
    BY <1>f DEF RecordDebit
  <2>2. \A w \in wrk : RecordCredit(w) => \A q \in Refs : credits[q] = 1 => credits'[q] = 1
    BY <1>f DEF RecordCredit
  <2> QED BY <2>1, <2>2, Writers
<1>2. Fin'
  <2>1. CASE RecordDebit
    BY <2>1, <1>i, <1>f, RowFacts DEF RecordDebit, SenderTasks
  <2>2. ASSUME NEW r \in Refs, SendCommand(r) \/ SubmitTxn(r) PROVE Fin'
    BY <2>2 DEF SendCommand, SubmitTxn
  <2>3. CASE SubmitOnchain \/ OnchainDone
    BY <2>3, <1>f DEF SubmitOnchain, OnchainDone, SenderTasks
  <2>4. ASSUME NEW t \in pool, Execute(t) PROVE Fin'
    BY <2>4, <1>i, <1>f, <1>g DEF Execute, SenderTasks
  <2>5. ASSUME NEW m \in net, ReceiverHandle(m) PROVE Fin'
    BY <2>5, <1>i, <1>f, <1>g, AnswerFacts, RowFacts DEF ReceiverHandle
  <2> QED BY <2>1, <2>2, <2>3, <2>4, <2>5, <1>i, <1>f, <1>g, Writers, RowFacts
<1>3. Rec'
  <2>1. ASSUME NEW r \in Refs, ProcessIncoming(r) PROVE Rec'
    BY <2>1, <1>i, <1>f, <1>g DEF ProcessIncoming
  <2>2. ASSUME NEW w \in wrk, RecordCredit(w) PROVE Rec'
    BY <2>2, <1>i, <1>f, <1>g DEF RecordCredit, Workers
  <2>3. ASSUME NEW w \in wrk, IncomingFinish(w) \/ WorkerCrash(w) PROVE Rec'
    BY <2>3, <1>i, <1>f, <1>g DEF IncomingFinish, WorkerCrash
  <2> QED BY <2>1, <2>2, <2>3, <1>i, <1>f, <1>g, Writers
<1>4. SDone'
  <2>1. ASSUME NEW r \in Refs, AddPaymentCommandAsSender(r) \/ SaveOutboundPaymentCommand(r)
        PROVE  SDone'
    BY <2>1, <1>i, <1>f, <1>g DEF AddPaymentCommandAsSender, SaveOutboundPaymentCommand
  <2>2. ASSUME NEW r \in Refs, WebWrite(r) PROVE SDone'
    <3>1. sdb[r] \in Rows
      BY <2>2, <1>f DEF WebWrite
    <3>2. sdb'[r].status \in {sdb[r].status, "OUTBOUND"}
      BY <2>2, <3>1, <1>f DEF WebWrite, Rows, PaymentObjects
    <3>3. \A q \in Refs : q # r => sdb'[q] = sdb[q]
      BY <2>2, <1>f DEF WebWrite
    <3> QED BY <3>2, <3>3, <1>i, <1>g
  <2>3. ASSUME NEW r \in Refs, OffchainAction(r) PROVE SDone'
    BY <2>3, <1>i, <1>f, <1>g DEF OffchainAction, PaymentCommandStatus
  <2>4. CASE SendCommandDone
    BY <2>4, <1>i, <1>f, <1>g DEF SendCommandDone, Rows
  <2>5. CASE SubmitFinish
    BY <2>5, <1>i, <1>f, <1>g DEF SubmitFinish, Rows
  <2>6. ASSUME NEW m \in net, SenderHandle(m) PROVE SDone'
    <3>1. PaymentCommandStatus(m.pay, "INBOUND") # "COMPLETED"
      BY DEF PaymentCommandStatus
    <3>2. sdb' = sdb \/ sdb' = [sdb EXCEPT ![m.ref] =
                             [status |-> PaymentCommandStatus(m.pay, "INBOUND"),
                              inbound |-> TRUE, pay |-> m.pay]]
      BY <2>6 DEF SenderHandle
    <3> QED BY <3>1, <3>2, <1>f, <1>i, <1>g
  <2> QED BY <2>1, <2>2, <2>3, <2>4, <2>5, <2>6, <1>i, <1>g, Writers
<1>5. RDone'
  <2>1. ASSUME NEW m \in net, ReceiverHandle(m) PROVE RDone'
    <3>1. \/ rdb' = rdb
          \/ rdb' = [rdb EXCEPT ![m.ref] = [status |-> "RECEIVER_OUTBOUND",
                                            inbound |-> TRUE, pay |-> m.pay]]
          \/ rdb[m.ref] # NoRow /\ rdb' = [rdb EXCEPT ![m.ref].status = "READY"]
          \/ rdb[m.ref] # NoRow /\ rdb' = [rdb EXCEPT ![m.ref].status = "CANCELED"]
      BY <2>1 DEF ReceiverHandle
    <3>2. rdb[m.ref] # NoRow => rdb[m.ref] \in Rows
      BY <1>f
    <3> QED BY <3>1, <3>2, <1>f, <1>i, <1>g DEF Rows
  <2>2. CASE SendAsReceiverDone
    BY <2>2, <1>i, <1>f, <1>g DEF SendAsReceiverDone
  <2>3. ASSUME NEW w \in wrk, IncomingFinish(w) PROVE RDone'
    BY <2>3, <1>i, <1>f, <1>g DEF IncomingFinish, Rows
  <2> QED BY <2>1, <2>2, <2>3, <1>i, <1>g, Writers
<1> QED BY <1>1, <1>2, <1>3, <1>4, <1>5 DEF BookedInv, CompletedIsBooked

\* The invariant holds initially.
LEMMA InitIInv == Init => IInv
<1> SUFFICES ASSUME Init PROVE IInv
  OBVIOUS
<1>1. TypeOK
  BY DEF Init, TypeOK
<1>2. RowsInv /\ SignedInv
  BY RowFacts DEF Init, RowsInv, SignedInv
<1>3. RequestInv /\ PaidInv
  BY RowFacts DEF Init, RequestInv, PaidInv
<1>4. BookedInv
  BY RowFacts DEF Init, BookedInv, CompletedIsBooked
<1> QED BY <1>1, <1>2, <1>3, <1>4 DEF IInv

\* Every step keeps the invariant.
LEMMA IInvStep == IInv /\ [Next]_vars => IInv'
BY TypeStep, RowsStep, SignedStep, RequestStep, PaidStep, BookedStep DEF IInv

\* Whatever is lost, delayed, repeated or restarted, the inductive invariant
\* holds: rows, requests, workers and entries refer to each other as the code
\* assumes they do.
THEOREM InvariantHolds == Spec => []IInv
BY InitIInv, IInvStep, PTL DEF Spec

\* Every row, task, request, web request, transaction and worker has its type.
THEOREM TypeCorrect == Spec => []TypeOK
<1>1. IInv => TypeOK
  BY DEF IInv
<1> QED BY <1>1, InvariantHolds, PTL

\* submit_txn only ever finds payments that the recipient's VASP signed and
\* whose signature it has: no transfer without the travel rule exchange.
THEOREM ReadyAgreed == Spec => []ReadyIsAgreed
<1>1. IInv => ReadyIsAgreed
  BY DEF IInv, SignedInv, RowsInv, ReadyIsAgreed
<1> QED BY <1>1, InvariantHolds, PTL

\* A payment that submit_txn or process_incoming_transaction set to COMPLETED
\* has its entry, exactly one, in that VASP's transaction table.
THEOREM CompletedBooked == Spec => []CompletedIsBooked
<1>1. IInv => CompletedIsBooked
  BY DEF IInv, BookedInv
<1> QED BY <1>1, InvariantHolds, PTL

\* A step of the flow is a step of Settlement or changes none of its variables:
\* send_command_as_receiver signs, the chain pays, add_transaction_... debits
\* and the worker credits.
LEMMA StepSettles == IInv /\ [Next]_vars => [S!SettlementNext]_(S!settlementVars)
<1> SUFFICES ASSUME IInv, [Next]_vars,
                    <<signed, paid, debits, credits>>' # <<signed, paid, debits, credits>>
             PROVE  S!SettlementNext
  BY DEF S!settlementVars
<1> USE DEF chain, money, ghosts
<1>f. /\ stask.pc # "idle" => stask.ref \in Refs
      /\ \A w \in wrk : w.ref \in Refs
      /\ \A t \in pool : t.ref \in Refs
  BY Referents DEF IInv
<1>1. ASSUME NEW r \in Refs, SendCommandAsReceiver(r) PROVE S!SettlementNext
  BY <1>1 DEF SendCommandAsReceiver, S!SettlementNext, S!Sign
<1>2. ASSUME NEW t \in pool, Execute(t) PROVE S!SettlementNext
  <2>1. t.ref \in signed
    BY DEF IInv, SignedInv
  <2>2. S!Pay(t.ref)
    BY <1>2, <2>1 DEF Execute, S!Pay
  <2> QED BY <1>f, <2>2 DEF S!SettlementNext
<1>3. ASSUME RecordDebit PROVE S!SettlementNext
  <2>1. paid[stask.ref] > 0 /\ stask.ref \in Refs
    BY <1>3, <1>f DEF RecordDebit, IInv, PaidInv
  <2>2. debits[stask.ref] = 0 /\ debits' = [debits EXCEPT ![stask.ref] = 1]
    BY <1>3, <2>1 DEF RecordDebit, IInv, TypeOK
  <2>3. S!Debit(stask.ref)
    BY <1>3, <2>1, <2>2 DEF RecordDebit, S!Debit
  <2> QED BY <2>1, <2>3 DEF S!SettlementNext
<1>4. ASSUME NEW w \in wrk, RecordCredit(w) PROVE S!SettlementNext
  <2>1. paid[w.ref] > 0 /\ w.ref \in Refs
    BY <1>f DEF IInv, PaidInv
  <2>2. credits[w.ref] = 0 /\ credits' = [credits EXCEPT ![w.ref] = 1]
    BY <1>4, <2>1 DEF RecordCredit, IInv, TypeOK
  <2>3. S!Credit(w.ref)
    BY <1>4, <2>1, <2>2 DEF RecordCredit, S!Credit
  <2> QED BY <2>1, <2>3 DEF S!SettlementNext
<1> QED BY <1>1, <1>2, <1>3, <1>4, Writers

\* The travel rule flow implements Settlement: with the signature, the chain and
\* the two ledgers as they are in the code, whatever faults occur.
THEOREM Implements == Spec => ImplementsSettlement
<1>1. Init => S!SettlementInit
  BY DEF Init, S!SettlementInit
<1> QED
  BY <1>1, StepSettles, InvariantHolds, PTL DEF Spec, ImplementsSettlement, S!SettlementSpec

\* What the object of each state looks like.
LEMMA RequiresMeans ==
    ASSUME NEW p, NEW s \in States, Requires(p)[s]
    PROVE  /\ s = "S_INIT" => p.ss = "needs_kyc_data" /\ p.rs = "none"
           /\ s = "S_ABORT" => p.ss = "abort" /\ p.rs \in {"ready_for_settlement", "none"}
           /\ s = "S_SOFT" => p.ss = "soft_match" /\ p.rs = "ready_for_settlement" /\ ~IsSet(p.radd)
           /\ s = "S_SOFT_SEND" => p.ss = "needs_kyc_data" /\ p.rs = "soft_match" /\ IsSet(p.sadd)
           /\ s = "READY" => p.ss = "ready_for_settlement" /\ p.rs = "ready_for_settlement"
           /\ s = "R_ABORT" => p.ss = "needs_kyc_data" /\ p.rs = "abort"
           /\ s = "R_SOFT" => p.ss = "needs_kyc_data" /\ p.rs = "soft_match" /\ ~IsSet(p.sadd)
           /\ s = "R_SOFT_SEND" => p.ss = "soft_match" /\ p.rs = "ready_for_settlement" /\ IsSet(p.radd)
           /\ s = "R_SEND" => p.ss = "needs_kyc_data" /\ p.rs = "ready_for_settlement"
<1>1. /\ s = "S_INIT" => Requires(p)["S_INIT"]
      /\ s = "S_ABORT" => Requires(p)["S_ABORT"]
      /\ s = "S_SOFT" => Requires(p)["S_SOFT"]
      /\ s = "S_SOFT_SEND" => Requires(p)["S_SOFT_SEND"]
      /\ s = "READY" => Requires(p)["READY"]
      /\ s = "R_ABORT" => Requires(p)["R_ABORT"]
      /\ s = "R_SOFT" => Requires(p)["R_SOFT"]
      /\ s = "R_SOFT_SEND" => Requires(p)["R_SOFT_SEND"]
      /\ s = "R_SEND" => Requires(p)["R_SEND"]
  OBVIOUS
<1> QED BY <1>1 DEF Requires

\* match_state: an object matches at most one state, whatever is in its fields.
LEMMA OneMatch ==
    ASSUME NEW p, NEW s \in MatchStates(p), NEW t \in MatchStates(p) PROVE s = t
<1>1. s \in States /\ Requires(p)[s] /\ t \in States /\ Requires(p)[t]
  BY DEF MatchStates
<1> QED BY <1>1, RequiresMeans DEF States

\* The state of an object is the one it matches.
LEMMA StateFound ==
    ASSUME NEW p, HasState(p)
    PROVE  StateOf(p) \in States /\ Requires(p)[StateOf(p)] /\ Validates(p)
<1>1. PICK s \in States : MatchStates(p) = {s}
  BY DEF HasState
<1>2. MatchStates(p) = {StateOf(p)}
  BY <1>1 DEF StateOf
<1> QED BY <1>2 DEF MatchStates, HasState

\* Only S_INIT is accepted without a prior object: every other state follows another.
LEMMA FirstIsInit ==
    ASSUME NEW me, NEW p, ValidateFirst(me, p)
    PROVE  StateOf(p) = "S_INIT"
<1>1. StateOf(p) \in States /\ \A t \in Transitions : t[2] # StateOf(p)
  BY StateFound DEF ValidateFirst, InitialStates
<1>2. \A s \in States \ {"S_INIT"} : \E t \in Transitions : t[2] = s
  BY DEF States, Transitions
<1> QED BY <1>1, <1>2

\* A command is typed when the object before it is.
LEMMA NewCommandType ==
    ASSUME NEW actor, NEW p \in PaymentObjects, NEW q \in NewCommand(actor, p)
    PROVE  q \in PaymentObjects
<1>1. CASE actor = "sender"
  <2>1. PICK own \in Parts :
            q = [p EXCEPT !.ss = own.status, !.skyc = own.kyc, !.sadd = own.add]
    BY <1>1 DEF NewCommand
  <2> QED BY <2>1 DEF PaymentObjects, Parts
<1>2. CASE actor # "sender"
  <2>1. PICK own \in Parts :
            q = [p EXCEPT !.rs = own.status, !.rkyc = own.kyc, !.radd = own.add, !.sig = own.sig]
    BY <1>2 DEF NewCommand
  <2> QED BY <2>1 DEF PaymentObjects, Parts
<1> QED BY <1>1, <1>2

\* Every command that is accepted keeps the invariant.
LEMMA ExchangeStep == ExchangeInv /\ [ExchangeNext]_exchange => ExchangeInv'
<1> SUFFICES ASSUME ExchangeInv, [ExchangeNext]_exchange PROVE ExchangeInv'
  OBVIOUS
<1>1. CASE Propose
  <2>1. PICK p \in NewCommand("sender", pay) :
            ValidateFirst("receiver", p) /\ pay' = p /\ author' = "sender"
    BY <1>1 DEF Propose
  <2>2. p \in PaymentObjects
    BY NewCommandType DEF ExchangeInv
  <2>3. HasState(p) /\ Requires(p)["S_INIT"] /\ Validates(p)
    BY <2>1, FirstIsInit, StateFound DEF ValidateFirst
  <2>4. p.rs = "none" /\ IsSet(p.skyc)
    BY <2>3, RequiresMeans DEF Validates, States
  <2> QED BY <2>1, <2>2, <2>3, <2>4 DEF ExchangeInv, Exchanged, Actors
<1>2. ASSUME NEW actor \in Actors, Update(actor) PROVE ExchangeInv'
  <2>1. PICK p \in NewCommand(actor, pay) :
            ValidateUpdate(Counterparty(actor), p, pay) /\ pay' = p /\ author' = actor
    BY <1>2 DEF Update
  <2>2. p \in PaymentObjects
    BY NewCommandType DEF ExchangeInv
  <2>3. HasState(p) /\ IsSet(pay.skyc) /\ Exchanged
    BY <1>2, <2>1 DEF ValidateUpdate, Update, ExchangeInv
  <2>4. IsSet(p.skyc)
    BY <2>1, <2>3 DEF ValidateUpdate, WriteOnceKept
  <2>5. ASSUME pay.rs = "ready_for_settlement" PROVE IsSet(p.rkyc) /\ IsSet(p.sig)
    BY <2>1, <2>3, <2>5 DEF ValidateUpdate, WriteOnceKept, ExchangeInv
  <2>6. ASSUME pay.rs # "ready_for_settlement", p.rs = "ready_for_settlement"
        PROVE  IsSet(p.rkyc) /\ IsSet(p.sig)
    <3> DEFINE s == StateOf(pay)
               t == StateOf(p)
    <3>1. /\ s \in States /\ Requires(pay)[s]
          /\ t \in States /\ Requires(p)[t] /\ Validates(p) /\ <<s, t>> \in Transitions
      BY <2>1, StateFound DEF ValidateUpdate
    <3> HIDE DEF s, t
    <3>2. s \notin {"S_SOFT", "READY", "R_SOFT_SEND", "R_SEND"}
      BY <3>1, <2>6, RequiresMeans
    <3>3. t \in {"S_ABORT", "S_SOFT", "READY", "R_SOFT_SEND", "R_SEND"}
      BY <3>1, <2>6, RequiresMeans DEF States
    <3>4. t = "R_SEND"
      BY <3>1, <3>2, <3>3 DEF Transitions
    <3> QED BY <3>1, <3>4 DEF Validates
  <2> QED BY <2>1, <2>2, <2>3, <2>4, <2>5, <2>6, <1>2 DEF ExchangeInv, Exchanged, Actors
<1>3. CASE UNCHANGED exchange
  BY <1>3 DEF exchange, ExchangeInv, Exchanged
<1> QED BY <1>1, <1>2, <1>3 DEF ExchangeNext

\* Two VASPs that accept only what validate accepts never hold an object without
\* a state, nor one that is ready without what its receiver owes.
THEOREM ExchangeInvariant == ExchangeSpec => []ExchangeInv
<1>1. ExchangeInit => ExchangeInv
  BY DEF ExchangeInit, ExchangeInv, Exchanged, NewPaymentObject, PaymentObjects, Statuses, Fields
<1> QED BY <1>1, ExchangeStep, PTL DEF ExchangeSpec

\* match_state never raises TooManyStatesMatchedError, whatever the next command
\* of either actor writes in its own part of the object.
THEOREM Unambiguous == ExchangeSpec => []NeverAmbiguous
<1>1. NeverAmbiguous
  BY OneMatch DEF NeverAmbiguous
<1> QED BY <1>1, PTL

\* A payment that the sender takes for ready has the recipient's signature and
\* the KYC data of both actors, although the state READY asks for none of them.
THEOREM ReadySigned == ExchangeSpec => []ReadyIsSigned
<1>1. ExchangeInv => ReadyIsSigned
  <2> SUFFICES ASSUME ExchangeInv, Exchanged, StateOf(pay) = "READY"
               PROVE  IsSet(pay.sig) /\ IsSet(pay.skyc) /\ IsSet(pay.rkyc)
    BY DEF ReadyIsSigned
  <2>1. Requires(pay)["READY"]
    BY StateFound DEF ExchangeInv
  <2>2. pay.rs = "ready_for_settlement"
    BY <2>1, RequiresMeans DEF States
  <2> QED BY <2>2 DEF ExchangeInv
<1> QED BY <1>1, ExchangeInvariant, PTL

\* The object of a row that the receiver is ready for is not changed by a command:
\* no transition leads from its state to one that the receiver triggers.
LEMMA ReadyIsKept ==
    ASSUME NEW p, NEW prior, ValidateUpdate("sender", p, prior)
    PROVE  prior.rs = "ready_for_settlement" => prior.ss = "soft_match"
<1> DEFINE s == StateOf(prior)
           t == StateOf(p)
<1>1. s \in States /\ Requires(prior)[s] /\ t \in States /\ <<s, t>> \in Transitions
  BY StateFound DEF ValidateUpdate
<1>2. TriggerActor(t) = "receiver"
  BY DEF ValidateUpdate, Counterparty
<1> HIDE DEF s, t
<1>3. t \in {"R_SEND", "R_ABORT", "R_SOFT", "R_SOFT_SEND"}
  BY <1>2 DEF TriggerActor
<1>4. s \in {"S_INIT", "S_SOFT_SEND", "S_SOFT"}
  BY <1>1, <1>3 DEF Transitions
<1> QED BY <1>1, <1>4, RequiresMeans

\* The next five definitions and RowChanges say what a step may do to a row of the
\* sender's VASP. It is created by a web request.
Created(q) ==
    /\ sdb[q] = NoRow
    /\ sdb'[q].status \in {"PENDING", "OUTBOUND"}
    /\ sdb'[q].pay.ss \in {"none", "needs_kyc_data"}

\* The web process writes the status that the user asked for, while no thread has it locked.
Asked(q) ==
    /\ sdb[q] \in Rows /\ ~SLocked(q) /\ stask' = stask
    /\ sdb'[q].pay.ss \in WebStatuses /\ sdb'[q].pay.rs = sdb[q].pay.rs
    /\ sdb'[q].status \in {sdb[q].status, "OUTBOUND"}

\* The task thread, which evaluated what the counterparty sent, writes what it found.
Evaluated(q) ==
    /\ sdb[q] \in Rows /\ stask = Idle /\ stask' = Idle /\ sdb[q].status = "INBOUND"
    /\ sdb'[q].pay.ss = "ready_for_settlement" /\ sdb'[q].pay.rs = sdb[q].pay.rs
    /\ sdb'[q].status # "COMPLETED"
    /\ sdb'[q].status = "READY" => sdb'[q].pay.rs = "ready_for_settlement"

\* The task thread writes that its command was answered or that its transfer is booked.
Handed(q) ==
    /\ sdb[q] \in Rows /\ stask # Idle /\ stask.ref = q /\ stask' = Idle
    /\ sdb'[q].pay = sdb[q].pay
    /\ \/ stask.pc = "send" /\ sdb'[q].status = "WAIT"
       \/ stask.pc = "finish" /\ sdb'[q].status = "COMPLETED"

\* An inbound command replaces the row's object, while no thread has it locked.
Received(q) ==
    /\ sdb[q] \in Rows /\ ~SLocked(q) /\ stask' = stask
    /\ sdb[q].pay.rs = "ready_for_settlement" => sdb[q].pay.ss = "soft_match"
    /\ sdb'[q].pay.ss = sdb[q].pay.ss /\ sdb'[q].status # "COMPLETED"
    /\ sdb'[q].status = "READY" => sdb'[q].pay.rs = "ready_for_settlement"

\* A step that changes a row does one of these five to it.
LEMMA RowChanges ==
    ASSUME TypeOK, RowsInv, [Next]_vars, NEW q \in Refs
    PROVE  \/ sdb'[q] = sdb[q]
           \/ Created(q)
           \/ Asked(q)
           \/ Evaluated(q)
           \/ Handed(q)
           \/ Received(q)
<1> DEFINE Goal == \/ sdb'[q] = sdb[q]
                   \/ Created(q)
                   \/ Asked(q)
                   \/ Evaluated(q)
                   \/ Handed(q)
                   \/ Received(q)
<1> USE DEF chain, money, ghosts
<1>f. /\ stask.pc # "idle" =>
            stask # Idle /\ stask \in SenderTasks /\ stask.ref \in Refs /\ sdb[stask.ref] \in Rows
      /\ \A r \in Refs : sdb[r] # NoRow => sdb[r] \in Rows
      /\ \A m \in net : m \in Messages /\ m.ref \in Refs
      /\ \A r \in Refs : web[r] # NoWeb => sdb[r] \in Rows /\ web[r].new \in WebStatuses
      /\ sdb \in [Refs -> Rows \cup {NoRow}]
  BY Referents DEF TypeOK, RowsInv, WebRequests
<1>1. ASSUME NEW r \in Refs, AddPaymentCommandAsSender(r) \/ SaveOutboundPaymentCommand(r) PROVE Goal
  BY <1>1, <1>f DEF AddPaymentCommandAsSender, SaveOutboundPaymentCommand, NewPayment, Created
<1>2. ASSUME NEW r \in Refs, WebWrite(r) PROVE Goal
  <2> DEFINE row == [sdb[r] EXCEPT !.pay.ss = web[r].new,
                       !.status = IF web[r].status = "OUTBOUND" THEN @ ELSE "OUTBOUND"]
  <2>1. sdb[r] \in Rows /\ ~SLocked(r) /\ web[r].new \in WebStatuses /\ stask' = stask
    BY <1>2, <1>f DEF WebWrite
  <2>2. sdb' = [sdb EXCEPT ![r] = row]
    BY <1>2, <2>1, <1>f DEF WebWrite
  <2>3. /\ row.pay.ss = web[r].new /\ row.pay.rs = sdb[r].pay.rs
        /\ row.status \in {sdb[r].status, "OUTBOUND"}
    BY <2>1 DEF Rows, PaymentObjects
  <2> HIDE DEF row
  <2> QED BY <2>1, <2>2, <2>3, <1>f DEF Asked
<1>3. CASE SendCommandDone \/ SubmitFinish
  <2>1. stask.pc \in {"send", "finish"} /\ stask' = Idle
    BY <1>3 DEF SendCommandDone, SubmitFinish
  <2>2. \/ stask.pc = "send" /\ sdb' = [sdb EXCEPT ![stask.ref].status = "WAIT"]
        \/ stask.pc = "finish" /\ sdb' = [sdb EXCEPT ![stask.ref].status = "COMPLETED"]
    BY <1>3 DEF SendCommandDone, SubmitFinish
  <2>3. CASE q # stask.ref
    BY <2>2, <2>3, <1>f
  <2>4. CASE q = stask.ref
    <3>1. sdb[q] \in Rows /\ stask # Idle
      BY <2>1, <2>4, <1>f
    <3>2. /\ sdb'[q].pay = sdb[q].pay
          /\ \/ stask.pc = "send" /\ sdb'[q].status = "WAIT"
             \/ stask.pc = "finish" /\ sdb'[q].status = "COMPLETED"
      BY <2>2, <2>4, <3>1, <1>f DEF Rows
    <3> QED BY <2>1, <2>4, <3>1, <3>2 DEF Handed
  <2> QED BY <2>3, <2>4
<1>4. ASSUME NEW r \in Refs, OffchainAction(r) PROVE Goal
  <2> DEFINE p == [sdb[r].pay EXCEPT !.ss = "ready_for_settlement"]
  <2>1. sdb[r] \in Rows /\ stask = Idle /\ stask' = Idle /\ sdb[r].status = "INBOUND"
    BY <1>4, <1>f DEF OffchainAction
  <2>2. sdb' = [sdb EXCEPT ![r] = [status |-> PaymentCommandStatus(p, "OUTBOUND"),
                                   inbound |-> FALSE, pay |-> p]]
    BY <1>4 DEF OffchainAction
  <2>3. p.ss = "ready_for_settlement" /\ p.rs = sdb[r].pay.rs
    BY <2>1 DEF Rows, PaymentObjects
  <2> HIDE DEF p
  <2>4. /\ PaymentCommandStatus(p, "OUTBOUND") # "COMPLETED"
        /\ PaymentCommandStatus(p, "OUTBOUND") = "READY" => p.rs = "ready_for_settlement"
    BY DEF PaymentCommandStatus, IsBothReady
  <2> QED BY <2>1, <2>2, <2>3, <2>4, <1>f DEF Evaluated
<1>5. ASSUME NEW m \in net, SenderHandle(m) PROVE Goal
  <2> DEFINE r == m.ref
  <2>1. CASE sdb' = sdb
    BY <2>1
  <2>2. CASE sdb' # sdb
    <3>1. /\ ~SLocked(r) /\ sdb[r] # NoRow /\ ValidateUpdate("sender", m.pay, sdb[r].pay)
          /\ sdb' = [sdb EXCEPT ![r] = [status |-> PaymentCommandStatus(m.pay, "INBOUND"),
                                        inbound |-> TRUE, pay |-> m.pay]]
          /\ stask' = stask
      BY <1>5, <2>2 DEF SenderHandle
    <3>2. m.pay.ss = sdb[r].pay.ss
      BY <3>1 DEF ValidateUpdate, SameActorObject
    <3>3. sdb[r].pay.rs = "ready_for_settlement" => sdb[r].pay.ss = "soft_match"
      BY <3>1, ReadyIsKept
    <3>4. /\ PaymentCommandStatus(m.pay, "INBOUND") # "COMPLETED"
          /\ PaymentCommandStatus(m.pay, "INBOUND") = "READY" => m.pay.rs = "ready_for_settlement"
      BY DEF PaymentCommandStatus, IsBothReady
    <3> QED BY <3>1, <3>2, <3>3, <3>4, <1>f DEF Received
  <2> QED BY <2>1, <2>2
<1> QED BY <1>1, <1>2, <1>3, <1>4, <1>5, Writers

\* What a step does to the sender's task thread: it ends its work, starts with a row
\* whose status asks for it, or goes on with the row that it has.
LEMMA TaskMoves ==
    ASSUME TypeOK, RowsInv, [Next]_vars
    PROVE  \/ stask' = Idle
           \/ stask' = stask
           \/ /\ stask = Idle /\ sdb' = sdb /\ stask'.ref \in Refs
              /\ \/ stask'.pc = "send" /\ sdb[stask'.ref].status = "OUTBOUND"
                 \/ stask'.pc = "ready" /\ sdb[stask'.ref].status = "READY"
           \/ /\ stask \in SenderTasks /\ sdb' = sdb /\ stask'.ref = stask.ref
              /\ \/ stask'.pc = stask.pc
                 \/ stask.pc = "ready" /\ stask'.pc = "wait_txn"
                 \/ stask.pc = "wait_txn" /\ stask'.pc = "record"
                 \/ stask.pc = "record" /\ stask'.pc = "finish"
<1> DEFINE Goal == \/ stask' = Idle
                   \/ stask' = stask
                   \/ /\ stask = Idle /\ sdb' = sdb /\ stask'.ref \in Refs
                      /\ \/ stask'.pc = "send" /\ sdb[stask'.ref].status = "OUTBOUND"
                         \/ stask'.pc = "ready" /\ sdb[stask'.ref].status = "READY"
                   \/ /\ stask \in SenderTasks /\ sdb' = sdb /\ stask'.ref = stask.ref
                      /\ \/ stask'.pc = stask.pc
                         \/ stask.pc = "ready" /\ stask'.pc = "wait_txn"
                         \/ stask.pc = "wait_txn" /\ stask'.pc = "record"
                         \/ stask.pc = "record" /\ stask'.pc = "finish"
<1>f. stask.pc # "idle" => stask \in SenderTasks
  BY Referents
<1>t. stask \in SenderTasks \cup {Idle}
  BY DEF TypeOK
<1>1. ASSUME NEW r \in Refs, SendCommand(r) \/ SubmitTxn(r) PROVE Goal
  BY <1>1 DEF SendCommand, SubmitTxn
<1>2. CASE SubmitOnchain
  BY <1>2, <1>f DEF SubmitOnchain, SenderTasks
<1>3. CASE OnchainDone
  BY <1>3, <1>f DEF OnchainDone, SenderTasks
<1>4. CASE RecordDebit
  BY <1>4, <1>f DEF RecordDebit, SenderTasks
<1>5. ASSUME NEW t \in pool, Execute(t) PROVE Goal
  BY <1>5, <1>f DEF Execute, SenderTasks
<1>6. ASSUME NEW m \in net, ReceiverHandle(m) PROVE Goal
  <2>1. sdb' = sdb
    BY <1>6 DEF ReceiverHandle
  <2>2. PICK reply \in {"ok", "fail"} : stask' = Answer(stask, m, reply)
    BY <1>6 DEF ReceiverHandle
  <2>3. CASE stask = Idle
    BY <2>2, <2>3 DEF Answer
  <2>4. CASE stask \in SenderTasks
    BY <2>1, <2>2, <2>4 DEF Answer, SenderTasks
  <2> QED BY <2>3, <2>4, <1>t
<1> QED BY <1>1, <1>2, <1>3, <1>4, <1>5, <1>6, Writers

\* Without a restart the thread that has booked a transfer sets the row's status.
LEMMA FinishEnds ==
    ASSUME TypeOK, [Next]_vars, stask.pc = "finish", "crash" \notin FaultKinds
    PROVE  \/ stask'.pc = "finish" /\ stask'.ref = stask.ref
           \/ SubmitFinish
<1> DEFINE Goal == stask'.pc = "finish" /\ stask'.ref = stask.ref
<1>t. stask # Idle /\ stask \in SenderTasks
  BY RowFacts DEF TypeOK
<1>1. ASSUME stask' = stask PROVE Goal
  BY <1>1
<1>2. ASSUME NEW m \in net, ReceiverHandle(m) PROVE Goal
  <2>1. PICK reply \in {"ok", "fail"} : stask' = Answer(stask, m, reply)
    BY <1>2 DEF ReceiverHandle
  <2> QED BY <2>1, <1>t DEF Answer, SenderTasks
<1>3. ASSUME NEW t \in pool, Execute(t) PROVE Goal
  BY <1>3 DEF Execute
<1> QED
  BY <1>1, <1>2, <1>3, <1>t
  DEF Next, UserStep, FaultStep, SenderTaskStep, ReceiverTaskStep, WorkerStep, vars, chain,
      money, ghosts, AddPaymentCommandAsSender, SaveOutboundPaymentCommand, WebRead, WebWrite,
      SendCommand, SendCommandDone, OffchainAction, SubmitTxn, SubmitOnchain, OnchainDone,
      RecordDebit, SenderRejected, SenderTimeout, OnchainTimeout, OnchainConflict, SenderCrash,
      Fault, SenderHandle, Expire, SendCommandAsReceiver, SendAsReceiverDone, ReceiverRejected,
      ReceiverTimeout, ProcessIncoming, RecordCredit, IncomingFinish, WorkerCrash

\* Every step keeps the rows of payments under way and booked where they stand.
LEMMA StandingStep == IInv /\ StandingInv /\ [Next]_vars => StandingInv'
<1> SUFFICES ASSUME IInv, StandingInv, [Next]_vars PROVE StandingInv'
  OBVIOUS
<1> DEFINE Soft(q) == sdb[q] # NoRow => sdb[q].pay.ss # "soft_match"
           Agreed(q) == sdb[q].status \in {"READY", "COMPLETED"} =>
                            sdb[q].pay.rs = "ready_for_settlement"
           Booked(q) == debits[q] = 1 /\ "crash" \notin FaultKinds =>
                            /\ sdb[q].pay.rs = "ready_for_settlement"
                            /\ \/ sdb[q].status \in {"COMPLETED", "OUTBOUND", "WAIT"}
                               \/ stask.pc = "finish" /\ stask.ref = q
           Sending == stask.pc = "send" => sdb[stask.ref].status = "OUTBOUND"
           Paying == stask.pc \in {"ready", "wait_txn", "record"} =>
                        sdb[stask.ref].status = "READY"
           Ending == stask.pc = "finish" => sdb[stask.ref].pay.rs = "ready_for_settlement"
<1>a. TypeOK /\ RowsInv
  BY DEF IInv
<1>i. /\ \A q \in Refs : Soft(q) /\ Agreed(q) /\ Booked(q)
      /\ Sending /\ Paying /\ Ending
  BY DEF StandingInv
<1>f. /\ stask \in SenderTasks \cup {Idle} /\ debits \in [Refs -> Nat]
      /\ stask.pc # "idle" =>
            stask # Idle /\ stask \in SenderTasks /\ stask.ref \in Refs /\ sdb[stask.ref] \in Rows
      /\ \A q \in Refs : debits[q] \in {0, 1}
  BY <1>a, Referents DEF TypeOK, IInv, BookedInv
<1>r. \A q \in Refs : \/ sdb'[q] = sdb[q]
                      \/ Created(q)
                      \/ Asked(q)
                      \/ Evaluated(q)
                      \/ Handed(q)
                      \/ Received(q)
  BY <1>a, RowChanges
<1>w. WebStatuses \subseteq {"needs_kyc_data", "abort"}
  BY P2PAssumption
<1>1. ASSUME NEW q \in Refs PROVE Soft(q)'
  BY <1>i, <1>r, <1>w, RowFacts DEF Created, Asked, Evaluated, Handed, Received, Rows
<1>2. ASSUME NEW q \in Refs PROVE Agreed(q)'
  BY <1>i, <1>r DEF Created, Asked, Evaluated, Handed, Received
<1>3. ASSUME NEW q \in Refs PROVE Booked(q)'
  <2> SUFFICES ASSUME debits'[q] = 1, "crash" \notin FaultKinds
               PROVE  /\ sdb'[q].pay.rs = "ready_for_settlement"
                      /\ \/ sdb'[q].status \in {"COMPLETED", "OUTBOUND", "WAIT"}
                         \/ stask'.pc = "finish" /\ stask'.ref = q
    OBVIOUS
  <2>1. CASE debits[q] # 1
    <3>1. RecordDebit
      BY <2>1, Writers
    <3>2. stask.ref = q /\ stask.pc = "record" /\ stask' = [stask EXCEPT !.pc = "finish"]
      BY <2>1, <3>1, <1>f DEF RecordDebit
    <3>3. sdb' = sdb /\ sdb[q].status = "READY"
      BY <3>1, <3>2, <1>i DEF RecordDebit
    <3> QED BY <3>2, <3>3, <1>i, <1>f DEF SenderTasks
  <2>2. CASE debits[q] = 1
    <3>1. /\ sdb[q].pay.rs = "ready_for_settlement"
          /\ \/ sdb[q].status \in {"COMPLETED", "OUTBOUND", "WAIT"}
             \/ stask.pc = "finish" /\ stask.ref = q
      BY <2>2, <1>i
    <3>2. sdb[q] # NoRow
      BY <3>1, <1>f, RowFacts, <1>a DEF RowsInv
    <3>3. CASE sdb'[q] = sdb[q]
      <4>1. CASE stask.pc = "finish" /\ stask.ref = q
        <5>1. CASE SubmitFinish
          <6>1. sdb'[q].status = "COMPLETED"
            BY <4>1, <5>1, <1>f, <1>a DEF SubmitFinish, TypeOK, Rows
          <6> QED BY <6>1, <3>1, <3>3
        <5> QED BY <5>1, <4>1, <3>1, <3>3, <1>a, FinishEnds
      <4> QED BY <4>1, <3>1, <3>3
    <3>4. CASE Asked(q)
      BY <3>1, <3>4 DEF Asked
    <3>5. CASE Handed(q)
      BY <3>1, <3>5 DEF Handed
    <3>6. ~Created(q) /\ ~Evaluated(q) /\ ~Received(q)
      BY <3>1, <3>2, <1>i, RowFacts DEF Created, Evaluated, Received
    <3> QED BY <3>3, <3>4, <3>5, <3>6, <1>r
  <2> QED BY <2>1, <2>2
<1>s. ASSUME stask' = stask, stask # Idle
      PROVE  /\ SLocked(stask.ref) => sdb'[stask.ref] = sdb[stask.ref]
             /\ stask.pc = "finish" => /\ sdb'[stask.ref].pay.rs = "ready_for_settlement"
  <2>1. /\ stask.ref \in Refs /\ sdb[stask.ref] # NoRow /\ Soft(stask.ref)
        /\ ~Created(stask.ref) /\ ~Evaluated(stask.ref) /\ ~Handed(stask.ref)
    BY <1>s, <1>a, <1>i, Referents DEF RowsInv, Created, Evaluated, Handed
  <2>2. \/ sdb'[stask.ref] = sdb[stask.ref]
        \/ Asked(stask.ref)
        \/ Received(stask.ref)
    BY <2>1, <1>r
  <2>3. stask.pc = "finish" => sdb[stask.ref].pay.rs = "ready_for_settlement"
    BY <1>i
  <2> HIDE DEF Soft
  <2>4. Asked(stask.ref) => /\ ~SLocked(stask.ref)
                            /\ sdb'[stask.ref].pay.rs = sdb[stask.ref].pay.rs
    BY DEF Asked
  <2>5. Received(stask.ref) => /\ ~SLocked(stask.ref)
                               /\ sdb[stask.ref].pay.rs # "ready_for_settlement"
    BY <2>1 DEF Received, Soft
  <2> QED BY <2>2, <2>3, <2>4, <2>5
<1>m. \/ stask' = Idle
      \/ stask' = stask
      \/ /\ stask = Idle /\ sdb' = sdb /\ stask'.ref \in Refs
         /\ \/ stask'.pc = "send" /\ sdb[stask'.ref].status = "OUTBOUND"
            \/ stask'.pc = "ready" /\ sdb[stask'.ref].status = "READY"
      \/ /\ stask \in SenderTasks /\ sdb' = sdb /\ stask'.ref = stask.ref
         /\ \/ stask'.pc = stask.pc
            \/ stask.pc = "ready" /\ stask'.pc = "wait_txn"
            \/ stask.pc = "wait_txn" /\ stask'.pc = "record"
            \/ stask.pc = "record" /\ stask'.pc = "finish"
  BY <1>a, TaskMoves
<1>4. Sending'
  BY <1>i, <1>m, <1>s, <1>f, RowFacts DEF SLocked
<1>5. Paying'
  BY <1>i, <1>m, <1>s, <1>f, RowFacts DEF SLocked
<1>6. Ending'
  BY <1>i, <1>m, <1>s, <1>f, RowFacts
<1> QED BY <1>1, <1>2, <1>3, <1>4, <1>5, <1>6 DEF StandingInv

\* Faults only become more, and only a fault adds one.
LEMMA FaultsCount ==
    ASSUME TypeOK, [Next]_vars
    PROVE  /\ faults' \in Nat /\ faults \in Nat /\ faults' >= faults
           /\ OnchainTimeout \/ SenderCrash => faults' = faults + 1
<1>1. faults \in Nat
  BY DEF TypeOK
<1>2. OnchainTimeout \/ SenderCrash \/ SenderTimeout \/ ReceiverTimeout => faults' = faults + 1
  BY DEF OnchainTimeout, SenderCrash, SenderTimeout, ReceiverTimeout, Fault
<1>3. \A w \in wrk : WorkerCrash(w) => faults' = faults + 1
  BY DEF WorkerCrash, Fault
<1>4. \/ faults' = faults
      \/ OnchainTimeout \/ SenderCrash \/ SenderTimeout \/ ReceiverTimeout
      \/ \E w \in wrk : WorkerCrash(w)
  BY DEF Next, UserStep, FaultStep, SenderTaskStep, ReceiverTaskStep, WorkerStep, vars, chain,
      money, ghosts, AddPaymentCommandAsSender, SaveOutboundPaymentCommand, WebRead, WebWrite,
      SendCommand, SendCommandDone, OffchainAction, SubmitTxn, SubmitOnchain, OnchainDone,
      RecordDebit, SubmitFinish, SenderRejected, OnchainConflict, SenderHandle, Execute, Expire,
      ReceiverHandle, SendCommandAsReceiver, SendAsReceiverDone, ReceiverRejected,
      ProcessIncoming, RecordCredit, IncomingFinish
<1> QED BY <1>1, <1>2, <1>3, <1>4

\* A transaction that is waited for is the open attempt to pay: the row is READY, so
\* the payment has not been booked, unless a restart left a booked one READY.
LEMMA LiveIsOpen ==
    ASSUME IInv, StandingInv, NEW t \in pool, t.live,
           debits[t.ref] = 0 \/ "crash" \notin FaultKinds
    PROVE  Open(t.ref)
<1>1. stask.pc = "wait_txn" /\ stask.ref = t.ref /\ stask.reply = "waiting"
  BY DEF IInv, PaidInv
<1>2. t.ref \in Refs
  BY Referents DEF IInv
<1>3. sdb[t.ref].status = "READY"
  BY <1>1 DEF StandingInv
<1>4. debits[t.ref] # 1 \/ "crash" \in FaultKinds
  BY <1>1, <1>2, <1>3 DEF StandingInv
<1>5. debits[t.ref] \in {0, 1}
  BY <1>2 DEF IInv, BookedInv
<1> QED BY <1>1, <1>4, <1>5 DEF Open

\* Every step that pays uses up a chance to pay, and only a fault adds one.
LEMMA OnceStep == IInv /\ StandingInv /\ OnceInv /\ [Next]_vars => OnceInv'
<1> SUFFICES ASSUME IInv, StandingInv, OnceInv, [Next]_vars PROVE OnceInv'
  OBVIOUS
<1> USE DEF chain, money, ghosts
<1>a. TypeOK /\ RowsInv /\ PaidInv /\ RequestInv
  BY DEF IInv
<1>f. /\ stask \in SenderTasks \cup {Idle} /\ seqno \in Nat
      /\ stask.pc # "idle" => stask # Idle /\ stask \in SenderTasks /\ stask.ref \in Refs
      /\ \A t \in pool : t \in Txns /\ t.ref \in Refs
      /\ paid \in [Refs -> Nat] /\ debits \in [Refs -> Nat]
      /\ \A t \in pool : t.seq <= seqno
  BY <1>a, Referents DEF TypeOK, OnceInv
<1>c. faults' \in Nat /\ faults \in Nat /\ faults' >= faults
  BY <1>a, FaultsCount
<1>t. (TypeOK)'
  BY <1>a, TypeStep
<1>1. \A t \in pool' : t.seq <= seqno'
  <2>1. CASE SubmitOnchain
    BY <2>1, <1>f DEF SubmitOnchain
  <2>2. ASSUME OnchainTimeout \/ OnchainConflict \/ SenderCrash PROVE \A t \in pool' : t.seq <= seqno'
    BY <2>2, <1>f DEF OnchainTimeout, OnchainConflict, SenderCrash, Txns
  <2>3. ASSUME NEW t \in pool, Execute(t) PROVE \A u \in pool' : u.seq <= seqno'
    BY <2>3, <1>f DEF Execute, Txns
  <2>4. ASSUME NEW t \in pool, Expire(t) PROVE \A u \in pool' : u.seq <= seqno'
    BY <2>4, <1>f DEF Expire
  <2>5. seqno' = seqno \/ \E t \in pool : Execute(t)
    BY DEF Next, UserStep, FaultStep, SenderTaskStep, ReceiverTaskStep, WorkerStep, vars,
      AddPaymentCommandAsSender, SaveOutboundPaymentCommand, WebRead, WebWrite,
      SendCommand, SendCommandDone, OffchainAction, SubmitTxn, SubmitOnchain, OnchainDone,
      RecordDebit, SubmitFinish, SenderRejected, OnchainConflict, SenderHandle, Expire,
      ReceiverHandle, SendCommandAsReceiver, SendAsReceiverDone, ReceiverRejected,
      ProcessIncoming, RecordCredit, IncomingFinish, OnchainTimeout, SenderCrash, SenderTimeout,
      ReceiverTimeout, WorkerCrash
  <2> QED BY <2>1, <2>2, <2>3, <2>4, <2>5, <1>f, Writers
<1>2. ASSUME NEW q \in Refs, debits'[q] = 0 \/ "crash" \notin FaultKinds
      PROVE  paid'[q] + One(Stray(q)') + One(Open(q)') <= 1 + faults'
  <2> DEFINE Goal == paid'[q] + One(Stray(q)') + One(Open(q)') <= 1 + faults'
  <2>d. debits'[q] = 0 => debits[q] = 0
    <3>1. RecordDebit => debits'[q] >= debits[q]
      BY <1>f DEF RecordDebit
    <3> QED BY <3>1, <1>f, Writers
  <2>h. /\ debits[q] = 0 \/ "crash" \notin FaultKinds
        /\ paid[q] + One(Stray(q)) + One(Open(q)) <= 1 + faults
    BY <1>2, <2>d DEF OnceInv
  <2>n. paid[q] \in Nat /\ paid'[q] \in Nat /\ debits[q] \in Nat /\ debits'[q] \in Nat
    BY <1>f, <1>t DEF TypeOK
  <2>l. \A t \in pool : t.live /\ t.ref = q => Open(q)
    BY <2>h, LiveIsOpen
  <2>e. ASSUME paid'[q] = paid[q], Stray(q)' => Stray(q), Open(q)' => Open(q) PROVE Goal
    BY <2>e, <2>h, <2>n, <1>c DEF One
  <2>1. ASSUME NEW t \in pool, Execute(t) PROVE Goal
    <3>1. ~Stray(q)'
      BY <2>1, <1>f DEF Execute, Stray, Txns
    <3>2. debits' = debits /\ paid' = [paid EXCEPT ![t.ref] = @ + 1]
      BY <2>1 DEF Execute
    <3>3. CASE ~t.live
      <4>1. stask' = stask
        BY <2>1, <3>3 DEF Execute
      <4>2. t.ref = q => Stray(q)
        BY <2>1, <3>3 DEF Execute, Stray
      <4>3. Open(q)' <=> Open(q)
        BY <4>1, <3>2 DEF Open
      <4> QED BY <3>1, <3>2, <4>2, <4>3, <2>h, <2>n, <1>c, <1>f DEF One
    <3>4. CASE t.live
      <4>1. stask.pc = "wait_txn" /\ stask.ref = t.ref
        BY <3>4, <1>a DEF PaidInv
      <4>2. stask' = [stask EXCEPT !.reply = "ok"] /\ stask \in SenderTasks
        BY <2>1, <3>4, <4>1, <1>f DEF Execute
      <4>3. stask'.pc = "wait_txn" /\ stask'.ref = t.ref /\ stask'.reply = "ok"
        BY <4>1, <4>2 DEF SenderTasks
      <4>4. t.ref = q => Open(q) /\ ~Open(q)'
        BY <3>4, <4>3, <2>l DEF Open
      <4>5. t.ref # q => (Open(q)' => Open(q))
        BY <4>1, <3>2 DEF Open
      <4> QED BY <3>1, <3>2, <4>4, <4>5, <2>h, <2>n, <1>c, <1>f DEF One
    <3> QED BY <3>3, <3>4
  <2>2. ASSUME OnchainTimeout \/ SenderCrash PROVE Goal
    <3>1. /\ pool' = {[t EXCEPT !.live = FALSE] : t \in pool} /\ seqno' = seqno
          /\ paid' = paid /\ faults' = faults + 1
      BY <2>2, <1>a, FaultsCount DEF OnchainTimeout, SenderCrash
    <3>2. ASSUME Stray(q)', ~Open(q) PROVE Stray(q)
      <4>1. PICK u \in pool' : ~u.live /\ u.ref = q /\ u.seq = seqno'
        BY <3>2 DEF Stray
      <4>2. PICK t \in pool : u = [t EXCEPT !.live = FALSE]
        BY <3>1
      <4>3. t.ref = q /\ t.seq = seqno
        BY <4>1, <4>2, <3>1, <1>f DEF Txns
      <4> QED BY <3>2, <4>3, <2>l DEF Stray
    <3> QED BY <3>1, <3>2, <2>h, <2>n, <1>c DEF One
  <2>3. CASE OnchainConflict
    <3>1. /\ pool' = {[t EXCEPT !.live = FALSE] : t \in pool} /\ seqno' = seqno
          /\ paid' = paid /\ debits' = debits /\ stask' = Idle
      BY <2>3 DEF OnchainConflict
    <3>2. PICK x \in pool : x.live /\ x.seq < seqno
      BY <2>3 DEF OnchainConflict
    <3>3. Stray(q)' => Stray(q)
      <4> SUFFICES ASSUME Stray(q)' PROVE Stray(q)
        OBVIOUS
      <4>1. PICK u \in pool' : ~u.live /\ u.ref = q /\ u.seq = seqno'
        BY DEF Stray
      <4>2. PICK t \in pool : u = [t EXCEPT !.live = FALSE]
        BY <3>1
      <4>3. t.ref = q /\ t.seq = seqno
        BY <4>1, <4>2, <3>1, <1>f DEF Txns
      <4>4. t # x
        BY <4>3, <3>2, <1>f DEF Txns
      <4>5. ~t.live
        BY <4>4, <3>2, <1>a DEF PaidInv
      <4> QED BY <4>3, <4>5 DEF Stray
    <3>4. Open(q)' => Open(q)
      <4>1. stask.pc = "wait_txn" /\ stask.ref = x.ref
        BY <3>2, <1>a DEF PaidInv
      <4>2. x.ref = q => Open(q)
        BY <3>2, <2>l
      <4> QED BY <3>1, <4>1, <4>2 DEF Open
    <3> QED BY <2>e, <3>1, <3>3, <3>4
  <2>4. CASE SubmitOnchain
    <3> DEFINE new == [ref |-> stask.ref, seq |-> seqno, live |-> TRUE]
    <3>1. /\ pool' = pool \cup {new} /\ new.live /\ seqno' = seqno /\ paid' = paid
          /\ debits' = debits /\ stask.pc = "ready"
      BY <2>4 DEF SubmitOnchain
    <3> HIDE DEF new
    <3>2. (Stray(q)' => Stray(q)) /\ (Open(q)' => Open(q))
      BY <3>1 DEF Stray, Open
    <3> QED BY <2>e, <3>1, <3>2
  <2>5. CASE OnchainDone
    <3>1. /\ UNCHANGED <<pool, seqno, paid, debits>>
          /\ stask.pc = "wait_txn" /\ stask.reply = "ok" /\ stask'.pc = "record"
          /\ stask'.ref = stask.ref
      BY <2>5, <1>f DEF OnchainDone, SenderTasks
    <3>2. (Stray(q)' => Stray(q)) /\ (Open(q)' => Open(q))
      BY <3>1 DEF Stray, Open
    <3> QED BY <2>e, <3>1, <3>2
  <2>6. CASE RecordDebit
    <3>1. UNCHANGED <<pool, seqno, paid>> /\ stask.pc = "record"
      BY <2>6 DEF RecordDebit
    <3>2. (stask.ref = q => debits'[q] # 0) /\ (stask.ref # q => debits'[q] = debits[q])
      BY <2>6, <1>f DEF RecordDebit
    <3>3. (Stray(q)' => Stray(q)) /\ (Open(q)' => Open(q))
      BY <3>1, <3>2 DEF Stray, Open
    <3> QED BY <2>e, <3>1, <3>3
  <2>7. ASSUME NEW t \in pool, Expire(t) PROVE Goal
    BY <2>7, <2>e DEF Expire, Stray, Open
  <2>8. ASSUME NEW m \in net, ReceiverHandle(m) PROVE Goal
    <3>1. UNCHANGED <<pool, seqno, paid, debits>>
      BY <2>8 DEF ReceiverHandle
    <3>2. stask' = stask \/ stask.pc \in {"send", "ready"}
      BY <2>8, <1>a DEF ReceiverHandle, Answer, RequestInv
    <3>3. (Stray(q)' => Stray(q)) /\ (Open(q)' => Open(q))
      BY <3>1, <3>2 DEF Stray, Open
    <3> QED BY <2>e, <3>1, <3>3
  <2>9. ASSUME NEW r \in Refs, SendCommand(r) \/ SubmitTxn(r) PROVE Goal
    <3>1. UNCHANGED <<pool, seqno, paid, debits>> /\ stask = Idle
      BY <2>9 DEF SendCommand, SubmitTxn
    <3>2. (Stray(q)' => Stray(q)) /\ (Open(q)' => Open(q))
      BY <3>1, RowFacts DEF Stray, Open
    <3> QED BY <2>e, <3>1, <3>2
  <2>10. ASSUME SendCommandDone \/ SubmitFinish \/ SenderRejected \/ SenderTimeout PROVE Goal
    <3>1. UNCHANGED <<pool, seqno, paid, debits>> /\ stask.pc \in {"send", "ready", "finish"}
      BY <2>10 DEF SendCommandDone, SubmitFinish, SenderRejected, SenderTimeout
    <3>2. (Stray(q)' => Stray(q)) /\ (Open(q)' => Open(q))
      BY <3>1 DEF Stray, Open
    <3> QED BY <2>e, <3>1, <3>2
  <2>11. ASSUME UNCHANGED <<stask, pool, seqno, paid, debits>> PROVE Goal
    BY <2>11, <2>e DEF Stray, Open
  <2> QED
    BY <2>1, <2>2, <2>3, <2>4, <2>5, <2>6, <2>7, <2>8, <2>9, <2>10, <2>11
    DEF Next, UserStep, FaultStep, SenderTaskStep, ReceiverTaskStep, WorkerStep, vars,
      AddPaymentCommandAsSender, SaveOutboundPaymentCommand, WebRead, WebWrite, OffchainAction,
      SenderHandle, SendCommandAsReceiver, SendAsReceiverDone, ReceiverRejected,
      ReceiverTimeout, ProcessIncoming, RecordCredit, IncomingFinish, WorkerCrash
<1> QED BY <1>1, <1>2 DEF OnceInv

\* What a step does to a row of the receiver VASP: it is created, or written by a
\* command of the sender or by the worker while the task thread does not have it
\* locked, or by that thread.
LEMMA ReceiverRowChanges ==
    ASSUME TypeOK, RowsInv, [Next]_vars, NEW q \in Refs
    PROVE  \/ rdb'[q] = rdb[q]
           \/ rdb[q] = NoRow
           \/ ~RLocked(q) /\ rdb'[q].status \in {"READY", "COMPLETED"}
           \/ ~RLocked(q) /\ \E m \in net : m.to = "receiver" /\ m.pay.ss = "abort"
           \/ rtask.pc = "send" /\ rtask.ref = q /\ rtask' = Idle
<1> DEFINE Goal == \/ rdb'[q] = rdb[q]
                   \/ rdb[q] = NoRow
                   \/ ~RLocked(q) /\ rdb'[q].status \in {"READY", "COMPLETED"}
                   \/ ~RLocked(q) /\ \E m \in net : m.to = "receiver" /\ m.pay.ss = "abort"
                   \/ rtask.pc = "send" /\ rtask.ref = q /\ rtask' = Idle
<1>f. /\ \A r \in Refs : rdb[r] # NoRow => rdb[r] \in Rows
      /\ \A w \in wrk : w.ref \in Refs /\ rdb[w.ref] \in Rows
      /\ \A m \in net : m.ref \in Refs
      /\ rdb \in [Refs -> Rows \cup {NoRow}]
  BY Referents DEF TypeOK
<1>1. ASSUME NEW m \in net, ReceiverHandle(m) PROVE Goal
  <2>1. m.to = "receiver"
    BY <1>1 DEF ReceiverHandle
  <2>2. \/ rdb' = rdb
        \/ rdb[m.ref] = NoRow /\ \E row : rdb' = [rdb EXCEPT ![m.ref] = row]
        \/ /\ rdb[m.ref] # NoRow /\ ~RLocked(m.ref)
           /\ rdb' = [rdb EXCEPT ![m.ref].status = "READY"]
        \/ /\ rdb[m.ref] # NoRow /\ ~RLocked(m.ref) /\ m.pay.ss = "abort"
           /\ rdb' = [rdb EXCEPT ![m.ref].status = "CANCELED"]
    BY <1>1 DEF ReceiverHandle
  <2>3. CASE q # m.ref
    BY <2>2, <2>3, <1>f
  <2>4. CASE q = m.ref
    BY <2>1, <2>2, <2>4, <1>f DEF Rows
  <2> QED BY <2>3, <2>4
<1>2. CASE SendAsReceiverDone
  BY <1>2, <1>f DEF SendAsReceiverDone
<1>3. ASSUME NEW w \in wrk, IncomingFinish(w) PROVE Goal
  BY <1>3, <1>f DEF IncomingFinish, Rows
<1> QED BY <1>1, <1>2, <1>3, Writers

\* The receiver's VASP that answers ready_for_settlement with success has its row READY.
LEMMA AcceptedIsReady ==
    ASSUME TypeOK, NEW m \in net, ReceiverHandle(m),
           m.pay.rs = "ready_for_settlement", m.pay.ss \notin {"abort", "soft_match"},
           rdb[m.ref] # NoRow
    PROVE  \/ stask' = Answer(stask, m, "fail")
           \/ rdb'[m.ref].status = "READY"
<1> DEFINE p == m.pay
           valid == HasState(p) /\ StateOf(p) # "R_SEND"
<1>1. m.ref \in Refs /\ rdb[m.ref] \in Rows /\ rdb \in [Refs -> Rows \cup {NoRow}]
  BY DEF TypeOK, Messages
<1>2. valid => p.ss = "ready_for_settlement"
  <2> SUFFICES ASSUME valid PROVE p.ss = "ready_for_settlement"
    OBVIOUS
  <2>1. StateOf(p) \in States /\ Requires(p)[StateOf(p)]
    BY StateFound
  <2> QED BY <2>1, RequiresMeans DEF States
<1>3. CASE ~valid
  BY <1>3 DEF ReceiverHandle
<1>4. CASE valid
  <2>1. rdb' = [rdb EXCEPT ![m.ref].status = "READY"]
    BY <1>2, <1>4 DEF ReceiverHandle
  <2> QED BY <2>1, <1>1 DEF Rows
<1> QED BY <1>3, <1>4

\* A payment comes under way on chain when the receiver's VASP accepted
\* ready_for_settlement; every later stage follows from an earlier one.
LEMMA UnderwayStarts ==
    ASSUME IInv, [Next]_vars, NEW q \in Refs, Underway(q)', ~Underway(q)
    PROVE  \E m \in net : /\ ReceiverHandle(m) /\ m.live /\ m.to = "receiver"
                          /\ stask \in SenderTasks /\ stask.pc = "ready" /\ stask.ref = q
                          /\ stask' # Answer(stask, m, "fail")
<1> DEFINE Goal == \E m \in net : /\ ReceiverHandle(m) /\ m.live /\ m.to = "receiver"
                                  /\ stask \in SenderTasks /\ stask.pc = "ready" /\ stask.ref = q
                                  /\ stask' # Answer(stask, m, "fail")
<1>a. TypeOK /\ RowsInv
  BY DEF IInv
<1>f. /\ stask \in SenderTasks \cup {Idle} /\ paid \in [Refs -> Nat]
      /\ stask.pc # "idle" => stask # Idle /\ stask \in SenderTasks
      /\ \A t \in pool : t \in Txns /\ t.ref \in Refs
      /\ Idle.pc = "idle"
  BY <1>a, Referents, RowFacts DEF TypeOK
<1>u. /\ ~(paid[q] > 0) /\ \A t \in pool : t.ref # q
      /\ ~(stask.pc = "ready" /\ stask.reply = "ok" /\ stask.ref = q)
      /\ ~(stask.pc = "wait_txn" /\ stask.ref = q)
  BY DEF Underway
<1>1. CASE paid'[q] > 0
  <2>1. ASSUME NEW t \in pool, Execute(t) PROVE FALSE
    BY <2>1, <1>1, <1>u, <1>f DEF Execute
  <2> QED BY <2>1, <1>1, <1>u, Writers
<1>2. ASSUME NEW u \in pool', u.ref = q PROVE Goal
  <2>1. CASE SubmitOnchain
    BY <2>1, <1>2, <1>u DEF SubmitOnchain
  <2>2. CASE OnchainTimeout \/ OnchainConflict \/ SenderCrash
    BY <2>2, <1>2, <1>u, <1>f DEF OnchainTimeout, OnchainConflict, SenderCrash, Txns
  <2>3. ASSUME NEW t \in pool, Execute(t) \/ Expire(t) PROVE FALSE
    BY <2>3, <1>2, <1>u DEF Execute, Expire
  <2> QED BY <2>1, <2>2, <2>3, <1>2, <1>u, Writers
<1>3. ASSUME stask'.pc = "wait_txn", stask'.ref = q PROVE Goal
  <2>1. CASE SubmitOnchain
    BY <2>1, <1>3, <1>u, <1>f DEF SubmitOnchain, SenderTasks
  <2>2. ASSUME NEW r \in Refs, SendCommand(r) \/ SubmitTxn(r) PROVE FALSE
    BY <2>2, <1>3 DEF SendCommand, SubmitTxn
  <2>3. CASE OnchainDone \/ RecordDebit
    BY <2>3, <1>3, <1>f, <1>u DEF OnchainDone, RecordDebit, SenderTasks
  <2>4. ASSUME NEW t \in pool, Execute(t) PROVE FALSE
    BY <2>4, <1>3, <1>f, <1>u DEF Execute, SenderTasks
  <2>5. ASSUME NEW m \in net, ReceiverHandle(m) PROVE FALSE
    BY <2>5, <1>3, <1>f, <1>u DEF ReceiverHandle, Answer, SenderTasks
  <2> QED BY <2>1, <2>2, <2>3, <2>4, <2>5, <1>3, <1>u, <1>f, Writers
<1>4. ASSUME stask'.pc = "ready", stask'.reply = "ok", stask'.ref = q PROVE Goal
  <2>1. ASSUME NEW r \in Refs, SendCommand(r) \/ SubmitTxn(r) PROVE FALSE
    BY <2>1, <1>4 DEF SendCommand, SubmitTxn
  <2>2. CASE SubmitOnchain \/ OnchainDone \/ RecordDebit
    BY <2>2, <1>4, <1>f, <1>u DEF SubmitOnchain, OnchainDone, RecordDebit, SenderTasks
  <2>3. ASSUME NEW t \in pool, Execute(t) PROVE FALSE
    BY <2>3, <1>4, <1>f, <1>u DEF Execute, SenderTasks
  <2>4. ASSUME NEW m \in net, ReceiverHandle(m) PROVE Goal
    <3>1. stask' # stask
      BY <1>4, <1>u
    <3>2. PICK reply \in {"ok", "fail"} : stask' = Answer(stask, m, reply)
      BY <2>4 DEF ReceiverHandle
    <3>3. m.live /\ stask \in SenderTasks /\ stask' = [stask EXCEPT !.reply = reply]
      BY <3>1, <3>2, <1>f DEF Answer
    <3>4. stask.pc = "ready" /\ stask.ref = q /\ reply = "ok"
      BY <3>3, <1>4 DEF SenderTasks
    <3>5. Answer(stask, m, "fail").reply = "fail"
      BY <3>3, RowFacts DEF Answer, SenderTasks
    <3>6. m.to = "receiver"
      BY <2>4 DEF ReceiverHandle
    <3> QED BY <2>4, <3>3, <3>4, <3>5, <3>6, <1>4
  <2> QED BY <2>1, <2>2, <2>3, <2>4, <1>4, <1>u, <1>f, Writers
<1> QED BY <1>1, <1>2, <1>3, <1>4 DEF Underway

\* Every step keeps what the receiver's VASP expects, if nobody rejects.
LEMMA ExpectStep ==
    IInv /\ StandingInv /\ ExpectInv /\ [Next]_vars => ExpectInv'
<1> SUFFICES ASSUME IInv, StandingInv, ExpectInv, [Next]_vars, "abort" \notin WebStatuses
             PROVE  ExpectInv'
  BY DEF ExpectInv
<1> DEFINE Willing == \A r \in Refs : sdb[r] # NoRow => sdb[r].pay.ss # "abort"
           Msgs == \A m \in net : m.to = "receiver" => m.pay.ss \notin {"abort", "soft_match"}
           Asks == \A m \in net : m.to = "receiver" /\ m.live /\ stask.pc = "ready" =>
                      m.ref = stask.ref /\ m.pay.rs = "ready_for_settlement"
           Signs == rtask.pc = "send" => rdb[rtask.ref].status = "RECEIVER_OUTBOUND"
           Expects(q) == Underway(q) => rdb[q].status \in {"READY", "COMPLETED"}
<1>a. TypeOK /\ RowsInv /\ SignedInv /\ RequestInv
  BY DEF IInv
<1>i. Willing /\ Msgs /\ Asks /\ Signs /\ \A q \in Refs : Expects(q)
  BY DEF ExpectInv
<1>f. /\ stask \in SenderTasks \cup {Idle} /\ rtask \in ReceiverTasks \cup {Idle}
      /\ stask.pc # "idle" => stask # Idle /\ stask \in SenderTasks /\ stask.ref \in Refs
      /\ rtask.pc # "idle" => rtask \in ReceiverTasks /\ rtask.ref \in Refs /\ rdb[rtask.ref] \in Rows
      /\ \A r \in Refs : sdb[r] # NoRow => sdb[r] \in Rows
      /\ \A m \in net : m \in Messages /\ m.ref \in Refs
  BY <1>a, Referents DEF TypeOK
<1>m. \/ UNCHANGED net
      \/ \E r \in Refs : SendCommand(r) \/ SubmitTxn(r) \/ SendCommandAsReceiver(r)
      \/ SenderTimeout \/ SenderCrash \/ ReceiverTimeout
      \/ net' \subseteq net
  BY Writers DEF SenderHandle, ReceiverHandle
<1>b. ASSUME SenderTimeout \/ SenderCrash \/ ReceiverTimeout
      PROVE  \A m \in net' : \E n \in net :
                /\ m.to = n.to /\ m.ref = n.ref /\ m.pay = n.pay
                /\ (m.live => n.live)
  <2>1. \A to : \A m \in Abandoned(to) :
           \E n \in net : /\ m.to = n.to /\ m.ref = n.ref /\ m.pay = n.pay
                          /\ (m.live => n.live)
    BY <1>f DEF Abandoned, Messages
  <2> QED BY <1>b, <2>1 DEF SenderTimeout, SenderCrash, ReceiverTimeout
<1>1. Willing'
  <2> SUFFICES ASSUME NEW q \in Refs, sdb'[q] # NoRow PROVE sdb'[q].pay.ss # "abort"
    OBVIOUS
  <2>1. \/ sdb'[q] = sdb[q]
        \/ Created(q)
        \/ Asked(q)
        \/ Evaluated(q)
        \/ Handed(q)
        \/ Received(q)
    BY <1>a, RowChanges
  <2> QED BY <2>1, <1>i, RowFacts DEF Created, Asked, Evaluated, Handed, Received
<1>2. Msgs'
  <2>1. ASSUME NEW r \in Refs, SendCommand(r) \/ SubmitTxn(r) PROVE Msgs'
    <3>1. sdb[r].pay.ss \notin {"abort", "soft_match"}
      BY <2>1, <1>i DEF SendCommand, SubmitTxn, StandingInv
    <3>2. net' = net \cup {Request("receiver", r, sdb[r].pay)}
      BY <2>1 DEF SendCommand, SubmitTxn
    <3> QED BY <3>1, <3>2, <1>i DEF Request
  <2>2. ASSUME NEW r \in Refs, SendCommandAsReceiver(r) PROVE Msgs'
    BY <2>2, <1>i DEF SendCommandAsReceiver, Request
  <2>3. CASE SenderTimeout \/ SenderCrash \/ ReceiverTimeout
    BY <2>3, <1>b, <1>i
  <2> QED BY <2>1, <2>2, <2>3, <1>m, <1>i
<1>3. Asks'
  <2>1. ASSUME NEW r \in Refs, SendCommand(r) PROVE Asks'
    BY <2>1 DEF SendCommand
  <2>2. ASSUME NEW r \in Refs, SubmitTxn(r) PROVE Asks'
    <3>1. \A n \in net : ~(n.to = "receiver" /\ n.live)
      BY <2>2, <1>a, RowFacts DEF SubmitTxn, RequestInv
    <3>2. /\ net' = net \cup {Request("receiver", r, sdb[r].pay)} /\ stask'.ref = r
          /\ sdb[r].status = "READY"
      BY <2>2 DEF SubmitTxn
    <3>3. sdb[r].pay.rs = "ready_for_settlement"
      BY <3>2 DEF StandingInv
    <3> QED BY <3>1, <3>2, <3>3 DEF Request
  <2>t. stask'.pc = "ready" => \/ stask.pc = "ready" /\ stask'.ref = stask.ref
                               \/ \E r \in Refs : SubmitTxn(r)
    <3>1. ASSUME NEW r \in Refs, SendCommand(r) PROVE stask'.pc # "ready"
      BY <3>1 DEF SendCommand
    <3>2. SubmitOnchain \/ OnchainDone \/ RecordDebit => stask'.pc # "ready"
      BY <1>f, RowFacts DEF SubmitOnchain, OnchainDone, RecordDebit, SenderTasks
    <3>3. ASSUME NEW t \in pool, Execute(t), stask'.pc = "ready"
          PROVE  stask.pc = "ready" /\ stask'.ref = stask.ref
      BY <3>3, <1>f DEF Execute, SenderTasks
    <3>4. ASSUME NEW m \in net, ReceiverHandle(m), stask'.pc = "ready"
          PROVE  stask.pc = "ready" /\ stask'.ref = stask.ref
      <4>1. PICK reply \in {"ok", "fail"} : stask' = Answer(stask, m, reply)
        BY <3>4 DEF ReceiverHandle
      <4> QED BY <4>1, <3>4, <1>f DEF Answer, SenderTasks
    <3> QED BY <3>1, <3>2, <3>3, <3>4, Writers, RowFacts
  <2>3. ASSUME NEW r \in Refs, SendCommandAsReceiver(r) PROVE Asks'
    BY <2>3, <1>i DEF SendCommandAsReceiver, Request
  <2>4. ASSUME SenderTimeout \/ SenderCrash \/ ReceiverTimeout, ~(\E r \in Refs : SubmitTxn(r))
        PROVE  Asks'
    BY <2>4, <2>t, <1>b, <1>i
  <2> QED BY <2>1, <2>2, <2>3, <2>4, <2>t, <1>m, <1>i
<1>4. Signs'
  <2>1. ASSUME NEW r \in Refs, SendCommandAsReceiver(r) PROVE Signs'
    BY <2>1 DEF SendCommandAsReceiver
  <2>2. ASSUME rtask.pc = "send", rtask'.ref = rtask.ref, rtask' # Idle PROVE Signs'
    <3>1. /\ rtask.ref \in Refs /\ RLocked(rtask.ref) /\ rdb[rtask.ref] # NoRow
      BY <2>2, <1>a, <1>f, RowFacts DEF RLocked, RowsInv
    <3>2. rdb'[rtask.ref] = rdb[rtask.ref]
      BY <3>1, <2>2, <1>a, <1>i, ReceiverRowChanges
    <3> QED BY <3>2, <2>2, <1>i
  <2>3. ASSUME NEW m \in net, SenderHandle(m), rtask'.pc = "send"
        PROVE  rtask.pc = "send" /\ rtask'.ref = rtask.ref /\ rtask' # Idle
    <3>1. PICK reply \in {"ok", "fail"} : rtask' = Answer(rtask, m, reply)
      BY <2>3 DEF SenderHandle
    <3> QED BY <3>1, <2>3, <1>f, RowFacts DEF Answer, ReceiverTasks
  <2> QED BY <2>1, <2>2, <2>3, Writers, RowFacts
<1>5. ASSUME NEW q \in Refs PROVE Expects(q)'
  <2> SUFFICES ASSUME Underway(q)' PROVE rdb'[q].status \in {"READY", "COMPLETED"}
    OBVIOUS
  <2>1. CASE Underway(q)
    <3>1. rdb[q].status \in {"READY", "COMPLETED"} /\ rdb[q] # NoRow
      BY <2>1, <1>i, RowFacts
    <3>2. ~(\E m \in net : m.to = "receiver" /\ m.pay.ss = "abort")
      BY <1>i
    <3>3. ~(rtask.pc = "send" /\ rtask.ref = q)
      BY <3>1, <1>i
    <3> QED BY <3>1, <3>2, <3>3, <1>a, ReceiverRowChanges
  <2>2. CASE ~Underway(q)
    <3>1. PICK m \in net : /\ ReceiverHandle(m) /\ m.live /\ m.to = "receiver"
                           /\ stask \in SenderTasks /\ stask.pc = "ready" /\ stask.ref = q
                           /\ stask' # Answer(stask, m, "fail")
      BY <2>2, UnderwayStarts
    <3>2. /\ m.ref = q /\ m.pay.rs = "ready_for_settlement"
          /\ m.pay.ss \notin {"abort", "soft_match"}
      BY <3>1, <1>i
    <3>3. rdb[q] # NoRow
      BY <3>1, <1>a DEF SignedInv, RowsInv
    <3> QED BY <3>1, <3>2, <3>3, <1>a, AcceptedIsReady
  <2> QED BY <2>1, <2>2
<1> QED BY <1>1, <1>2, <1>3, <1>4, <1>5 DEF ExpectInv

\* The whole invariant holds, whatever is lost, late, asked for or restarted.
THEOREM PaymentInvariant == Spec => []PaidOnceInv
<1>1. Init => StandingInv
  BY RowFacts DEF Init, StandingInv
<1>2. Init => OnceInv
  BY P2PAssumption DEF Init, OnceInv, One, Stray, Open
<1>3. Init => ExpectInv
  BY RowFacts DEF Init, ExpectInv, Underway
<1>4. PaidOnceInv /\ [Next]_vars => PaidOnceInv'
  BY IInvStep, StandingStep, OnceStep, ExpectStep DEF PaidOnceInv
<1>5. Init => PaidOnceInv
  BY <1>1, <1>2, <1>3, InitIInv DEF PaidOnceInv
<1> QED BY <1>4, <1>5, PTL DEF Spec

\* A payment is transferred at most once more than there were faults, until it is
\* booked and, without restarts, for good: submit_txn leaves no other way to pay twice.
THEOREM PaidOnceHolds == Spec => []PaidOnce
<1>1. PaidOnceInv => PaidOnce
  <2> SUFFICES ASSUME PaidOnceInv, NEW r \in Refs, debits[r] = 0 \/ "crash" \notin FaultKinds
               PROVE  paid[r] <= 1 + faults
    BY DEF PaidOnce
  <2>1. paid[r] + One(Stray(r)) + One(Open(r)) <= 1 + faults
    BY DEF PaidOnceInv, OnceInv
  <2> QED BY <2>1 DEF One, PaidOnceInv, IInv, TypeOK
<1> QED BY <1>1, PaymentInvariant, PTL

\* As long as the sender's user does not reject, money arrives when the receiver's row
\* says so: its worker finds READY or COMPLETED and books it.
THEOREM PayeeExpects ==
    ASSUME "abort" \notin WebStatuses
    PROVE  Spec => []PayeeExpectsTransfer
<1>1. PaidOnceInv => PayeeExpectsTransfer
  BY DEF PaidOnceInv, ExpectInv, Underway, PayeeExpectsTransfer
<1> QED BY <1>1, PaymentInvariant, PTL
=============================================================================
