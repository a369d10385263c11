----------------------------- MODULE LedgerProofs -----------------------------
(***************************************************************************)
(* From the chain's events to the ledger.                                  *)
(*                                                                         *)
(* PubSub hands every event of a stream to the worker, for any number of   *)
(* streams, any batch size and any number of restarts and failed calls:    *)
(* its inductive invariant and that it implements Feed.                    *)
(*                                                                         *)
(* The ledger, for all accounts, amounts, threads, workers, faults and     *)
(* bounds: its state keeps its types, a job for the chain has one holder,  *)
(* and a transfer that arrived is recorded once unless two workers can     *)
(* have its event at the same time.  No account is overdrawn by more than  *)
(* the other web threads can spend at once; the books balance and the      *)
(* ledger implements Custody if workers hear what became of the            *)
(* transactions they submitted.                                            *)
(***************************************************************************)
EXTENDS Transactions, PubSub, FiniteSetTheorems, TLAPS

-----------------------------------------------------------------------------
(* The events of the chain.                                                *)

\* Progress never runs ahead of what was handed over, so that it stays within
\* the stream.
LEMMA WithinStream ==
    ASSUME NEW k, NEW m \in Nat, NEW n \in Nat, handed[k] = 0..(m - 1), Upto(k, n)
    PROVE  n <= m
  BY DEF Upto

\* The initial state satisfies the invariant.
LEMMA PubSubInitially == PubSubInit => PubSubInv
  <1> SUFFICES ASSUME PubSubInit PROVE PubSubInv  OBVIOUS
  <1>1. PubSubTypeOK
    BY PubSubAssumption DEF PubSubInit, PubSubTypeOK, Zero, Batches, NoBatch
  <1>2. ASSUME NEW k \in Keys PROVE Stream(k)
    <2>1. handed[k] = 0..(0 - 1) /\ length[k] = 0 /\ state[k] = 0 /\ after[k] = 0
      BY DEF PubSubInit, Zero
    <2> QED  BY <2>1 DEF Stream, Upto
  <1> QED  BY <1>1, <1>2 DEF PubSubInit, PubSubInv, Sending, SavedWasHanded

\* Every step keeps the variables' types.
LEMMA PubSubTypes == PubSubTypeOK /\ Sending /\ [PubSubNext]_pubSubVars => PubSubTypeOK'
  <1> SUFFICES ASSUME PubSubTypeOK, Sending, [PubSubNext]_pubSubVars PROVE PubSubTypeOK'  OBVIOUS
  <1> USE PubSubAssumption
  <1>1. ASSUME NEW k \in Keys, Emit(k) PROVE PubSubTypeOK'
    BY <1>1 DEF PubSubTypeOK, Emit, round
  <1>2. CASE Start
    BY <1>2 DEF PubSubTypeOK, Start, Zero
  <1>3. ASSUME NEW k \in Keys, GetEvents(k) PROVE PubSubTypeOK'
    <2>1. batch' \in Batches /\ batch' # NoBatch
      BY <1>3 DEF PubSubTypeOK, GetEvents, Batches, NoBatch, Smaller
    <2> QED  BY <1>3, <2>1 DEF PubSubTypeOK, GetEvents
  <1>4. CASE Send
    <2>1. batch \in [key : Keys, next : Nat, end : Nat]
      BY <1>4 DEF PubSubTypeOK, Send, Batches
    <2>2. batch' \in [key : Keys, next : Nat, end : Nat] /\ batch' # NoBatch
      BY <1>4, <2>1 DEF Send, NoBatch
    <2>3. handed' \in [Keys -> SUBSET Nat]
      BY <1>4, <2>1 DEF PubSubTypeOK, Send
    <2> QED  BY <1>4, <2>2, <2>3 DEF PubSubTypeOK, Send, Batches
  <1>5. CASE KeyDone
    <2>1. batch \in [key : Keys, next : Nat, end : Nat]
      BY <1>5 DEF PubSubTypeOK, KeyDone, Batches
    <2> QED  BY <1>5, <2>1 DEF PubSubTypeOK, KeyDone, Batches
  <1>6. CASE KeyFailed
    BY <1>6 DEF PubSubTypeOK, KeyFailed, Batches
  <1>7. CASE OpenFile
    BY <1>7 DEF PubSubTypeOK, OpenFile, round
  <1>8. CASE WriteFile
    BY <1>8 DEF PubSubTypeOK, WriteFile
  <1>9. CASE Crash
    BY <1>9 DEF PubSubTypeOK, Crash, Batches
  <1>10. CASE UNCHANGED pubSubVars
    BY <1>10 DEF PubSubTypeOK, pubSubVars, round
  <1> QED
    BY <1>1, <1>2, <1>3, <1>4, <1>5, <1>6, <1>7, <1>8, <1>9, <1>10 DEF PubSubNext, Step

\* What happens to what is handed over and to the streams' lengths.
LEMMA PubSubGrowth ==
    ASSUME PubSubTypeOK, Sending, \A k \in Keys : Stream(k), [PubSubNext]_pubSubVars, NEW k \in Keys
    PROVE  /\ length[k] <= length'[k]
           /\ \/ handed'[k] = handed[k]
              \/ /\ Send /\ batch.key = k /\ length' = length
                 /\ handed[k] = 0..(batch.next - 1)
                 /\ handed'[k] = 0..batch.next /\ batch.next < length[k]
              \/ /\ Send /\ batch.key = k /\ batch.next \in handed[k] /\ handed' = handed
  <1>1. CASE Send
    <2>1. batch \in [key : Keys, next : Nat, end : Nat] /\ batch.next < batch.end
      BY <1>1 DEF PubSubTypeOK, Send, Batches
    <2>2. length' = length /\ length[k] \in Nat
      BY <1>1 DEF PubSubTypeOK, Send
    <2>3. CASE batch.key = k
      <3>1. PICK n \in 0..length[k] : handed[k] = 0..(n - 1)
        BY DEF Stream
      <3>2. batch.next <= n /\ batch.end <= length[k]
        BY <1>1, <2>1, <2>2, <2>3, <3>1, WithinStream DEF Sending, Send
      <3>3. handed'[k] = handed[k] \cup {batch.next}
        BY <1>1, <2>1, <2>3 DEF PubSubTypeOK, Send
      <3>4. CASE batch.next = n
        BY <1>1, <2>1, <2>2, <2>3, <3>1, <3>2, <3>3, <3>4
      <3>5. CASE batch.next < n
        BY <1>1, <2>1, <2>2, <2>3, <3>1, <3>3, <3>5
      <3> QED  BY <2>1, <3>2, <3>4, <3>5
    <2>4. CASE batch.key # k
      BY <1>1, <2>1, <2>2, <2>4 DEF PubSubTypeOK, Send
    <2> QED  BY <2>3, <2>4
  <1>2. ASSUME NEW j \in Keys, Emit(j) PROVE handed' = handed /\ length[k] <= length'[k]
    BY <1>2 DEF PubSubTypeOK, Emit
  <1>3. ASSUME Start \/ (\E j \in Keys : GetEvents(j)) \/ KeyDone \/ KeyFailed \/ OpenFile
               \/ WriteFile \/ Crash \/ UNCHANGED pubSubVars
        PROVE handed' = handed /\ length' = length
    BY <1>3 DEF Start, GetEvents, KeyDone, KeyFailed, OpenFile, WriteFile, Crash, pubSubVars
  <1>4. length[k] \in Nat
    BY DEF PubSubTypeOK
  <1> QED  BY <1>1, <1>2, <1>3, <1>4 DEF PubSubNext, Step

\* What was handed over stays so.
LEMMA HandedKept ==
    ASSUME PubSubTypeOK, Sending, \A k \in Keys : Stream(k), [PubSubNext]_pubSubVars,
           NEW k \in Keys, NEW n \in Nat, Upto(k, n)
    PROVE  Upto(k, n)'
  <1>1. handed[k] \subseteq handed'[k]
    <2>1. Send => batch \in [key : Keys, next : Nat, end : Nat]
      BY DEF PubSubTypeOK, Send, Batches
    <2> QED  BY <2>1, PubSubGrowth
  <1> QED  BY <1>1 DEF Upto

\* The saved progress and the numbers in memory after a step are ones that were
\* there before, or the end of a batch all of which was handed over.
LEMMA ProgressKept ==
    ASSUME PubSubTypeOK, Sending, \A k \in Keys : Stream(k), SavedWasHanded, [PubSubNext]_pubSubVars,
           NEW k \in Keys
    PROVE  /\ Upto(k, state'[k]) /\ Upto(k, after'[k])
           /\ file' # Unreadable => Upto(k, file'[k])
  <1> USE DEF PubSubTypeOK
  <1>1. Upto(k, state[k]) /\ Upto(k, after[k]) /\ Upto(k, 0)
    BY DEF Stream, Upto
  <1>2. file # Unreadable => Upto(k, file[k])
    BY DEF SavedWasHanded, Upto
  <1>3. CASE Start
    <2>1. state'[k] = IF file = Unreadable THEN 0 ELSE file[k]
      BY <1>3 DEF Start, Zero
    <2> QED  BY <1>1, <1>2, <1>3, <2>1 DEF Start
  <1>4. CASE KeyDone
    <2>1. batch \in [key : Keys, next : Nat, end : Nat]
      BY <1>4 DEF KeyDone, Batches
    <2>2. after'[k] = IF batch.key = k THEN batch.end ELSE after[k]
      BY <1>4, <2>1 DEF KeyDone
    <2>3. batch.key = k => Upto(k, batch.end)
      BY <1>4 DEF KeyDone, Sending
    <2> QED  BY <1>1, <1>2, <1>4, <2>2, <2>3 DEF KeyDone
  <1>5. CASE WriteFile
    BY <1>1, <1>5 DEF WriteFile
  <1>6. CASE OpenFile
    BY <1>1, <1>6 DEF OpenFile, round
  <1>7. ASSUME (\E j \in Keys : Emit(j) \/ GetEvents(j)) \/ Send \/ KeyFailed \/ Crash
               \/ UNCHANGED pubSubVars
        PROVE  state' = state /\ after' = after /\ file' = file
    BY <1>7 DEF Emit, GetEvents, Send, KeyFailed, Crash, round, pubSubVars
  <1> QED
    BY <1>1, <1>2, <1>3, <1>4, <1>5, <1>6, <1>7 DEF PubSubNext, Step

\* Every step keeps the invariant.
LEMMA PubSubKeeps == PubSubInv /\ [PubSubNext]_pubSubVars => PubSubInv'
  <1> SUFFICES ASSUME PubSubInv, [PubSubNext]_pubSubVars PROVE PubSubInv'  OBVIOUS
  <1> USE PubSubAssumption DEF PubSubInv
  <1>1. PubSubTypeOK'
    BY PubSubTypes
  <1>2. ASSUME NEW k \in Keys PROVE Stream(k)'
    <2>1. \E n \in 0..length'[k] : handed'[k] = 0..(n - 1)
      <3>1. length[k] \in Nat /\ length'[k] \in Nat /\ length[k] <= length'[k]
        BY <1>1, PubSubGrowth DEF PubSubTypeOK
      <3>2. PICK n \in 0..length[k] : handed[k] = 0..(n - 1)
        BY DEF Stream
      <3>3. CASE handed'[k] = handed[k]
        BY <3>1, <3>2, <3>3
      <3>4. CASE Send /\ batch.key = k /\ handed'[k] = 0..batch.next /\ batch.next < length[k]
        <4>1. batch.next \in Nat
          BY <3>4 DEF PubSubTypeOK, Send, Batches
        <4>2. handed'[k] = 0..((batch.next + 1) - 1) /\ batch.next + 1 \in 0..length'[k]
          BY <3>1, <3>4, <4>1
        <4> QED  BY <4>2
      <3> QED  BY <3>3, <3>4, PubSubGrowth
    <2>2. Upto(k, state'[k]) /\ Upto(k, after'[k])
      BY ProgressKept
    <2>3. state'[k] \in Nat /\ after'[k] \in Nat
      BY <1>1 DEF PubSubTypeOK
    <2>4. ASSUME NEW n \in Nat, Upto(k, n) PROVE 0..(n - 1) \subseteq handed'[k]
      BY <2>4, HandedKept DEF Upto
    <2>5. Upto(k, state[k])' /\ Upto(k, after[k])'
      BY <2>2, <2>3, <2>4 DEF Upto
    <2> QED  BY <2>1, <2>5 DEF Stream
  <1>3. SavedWasHanded'
    <2> SUFFICES ASSUME file' # Unreadable, NEW k \in Keys
                 PROVE  0..(file'[k] - 1) \subseteq handed'[k]
      BY DEF SavedWasHanded
    <2>1. file'[k] \in Nat
      BY <1>1 DEF PubSubTypeOK
    <2>2. Upto(k, file'[k])
      BY ProgressKept
    <2>3. ASSUME NEW n \in Nat, Upto(k, n) PROVE 0..(n - 1) \subseteq handed'[k]
      BY <2>3, HandedKept DEF Upto
    <2> QED  BY <2>1, <2>2, <2>3
  <1>4. Sending'
    <2> SUFFICES ASSUME pc' = "send"
                 PROVE  /\ 0..(batch'.next - 1) \subseteq handed'[batch'.key]
                        /\ batch'.next <= batch'.end /\ batch'.end <= length'[batch'.key]
      BY DEF Sending, Upto
    <2>1. ASSUME NEW k \in Keys, GetEvents(k)
          PROVE  /\ 0..(batch'.next - 1) \subseteq handed'[batch'.key]
                 /\ batch'.next <= batch'.end /\ batch'.end <= length'[batch'.key]
      <3>1. /\ batch'.key = k /\ batch'.next = state[k] /\ length' = length
            /\ batch'.end = Smaller(state[k] + BatchSize, length[k]) /\ handed' = handed
        BY <2>1 DEF GetEvents
      <3>2. state[k] \in Nat /\ length[k] \in Nat /\ Stream(k)
        BY DEF PubSubTypeOK
      <3>3. state[k] <= length[k]
        <4>1. PICK n \in 0..length[k] : handed[k] = 0..(n - 1)
          BY <3>2 DEF Stream
        <4>2. Upto(k, state[k]) /\ n \in Nat /\ n <= length[k]
          BY <3>2, <4>1 DEF Stream
        <4>3. state[k] <= n
          BY <3>2, <4>1, <4>2, WithinStream
        <4> QED BY <3>2, <4>2, <4>3
      <3> QED  BY <3>1, <3>2, <3>3 DEF Smaller, Stream, Upto
    <2>2. CASE Send
      <3>1. batch \in [key : Keys, next : Nat, end : Nat] /\ pc = "send"
        BY <2>2 DEF PubSubTypeOK, Send, Batches
      <3>2. /\ batch'.key = batch.key /\ batch'.next = batch.next + 1
            /\ batch'.end = batch.end /\ batch.next < batch.end
            /\ length' = length /\ handed'[batch.key] = handed[batch.key] \cup {batch.next}
        BY <2>2, <3>1 DEF PubSubTypeOK, Send
      <3> QED  BY <3>1, <3>2 DEF Sending, Upto
    <2>3. ASSUME pc = "send", batch' = batch, \A k \in Keys : length[k] <= length'[k],
                 handed' = handed
          PROVE  /\ 0..(batch'.next - 1) \subseteq handed'[batch'.key]
                 /\ batch'.next <= batch'.end /\ batch'.end <= length'[batch'.key]
      <3>1. batch \in [key : Keys, next : Nat, end : Nat]
        BY <2>3 DEF PubSubTypeOK, Batches
      <3>2. length[batch.key] \in Nat /\ length'[batch.key] \in Nat
            /\ length[batch.key] <= length'[batch.key]
        BY <1>1, <2>3, <3>1 DEF PubSubTypeOK
      <3> QED  BY <2>3, <3>1, <3>2 DEF Sending, Upto
    <2>4. \A k \in Keys : length[k] <= length'[k]
      BY PubSubGrowth
    <2>5. ASSUME (\E k \in Keys : Emit(k)) \/ UNCHANGED pubSubVars
          PROVE  pc = "send" /\ batch' = batch /\ handed' = handed
      BY <2>5 DEF Emit, round, pubSubVars
    <2>6. ~Start /\ ~KeyDone /\ ~KeyFailed /\ ~OpenFile /\ ~WriteFile /\ ~Crash
      BY DEF Start, KeyDone, KeyFailed, OpenFile, WriteFile, Crash
    <2> QED  BY <2>1, <2>2, <2>3, <2>4, <2>5, <2>6 DEF PubSubNext, Step
  <1> QED  BY <1>1, <1>2, <1>3, <1>4

\* For every number of streams and faults: a restart skips no event, because the
\* file never names a number beyond what was sent to the broker.
THEOREM SavedHanded == PubSubSpec => []SavedWasHanded
  <1>1. PubSubInv => SavedWasHanded  BY DEF PubSubInv
  <1> QED  BY <1>1, PubSubInitially, PubSubKeeps, PTL DEF PubSubSpec

\* The inductive invariant holds in every reachable state.
THEOREM PubSubInvariant == PubSubSpec => []PubSubInv
  BY PubSubInitially, PubSubKeeps, PTL DEF PubSubSpec

\* PubSub implements Feed: each event is handed over for the first time after
\* all earlier ones of its stream.
THEOREM PubSubIsFeed == PubSubSpec => ImplementsFeed
  <1>1. PubSubInit => F!FeedInit
    BY DEF PubSubInit, Zero, F!FeedInit
  <1>2. PubSubInv /\ [PubSubNext]_pubSubVars => [F!FeedNext]_F!feedVars
    <2> SUFFICES ASSUME PubSubInv, [PubSubNext]_pubSubVars, ~UNCHANGED <<length, handed>>
                 PROVE  F!FeedNext
      BY DEF F!feedVars
    <2> USE DEF PubSubInv
    <2>1. ASSUME NEW k \in Keys, Emit(k) PROVE F!FeedNext
      BY <2>1 DEF Emit, F!FeedNext, F!Emitted
    <2>2. CASE Send
      <3> DEFINE k == batch.key
      <3>1. batch \in [key : Keys, next : Nat, end : Nat]
        BY <2>2 DEF PubSubTypeOK, Send, Batches
      <3>2. /\ length' = length /\ handed' = [handed EXCEPT ![k] = @ \cup {batch.next}]
            /\ length[k] \in Nat
        BY <2>2, <3>1 DEF PubSubTypeOK, Send
      <3>3. handed' # handed
        BY <3>2
      <3>4. handed'[k] # handed[k]
        BY <3>1, <3>2, <3>3 DEF PubSubTypeOK
      <3>5. handed[k] = 0..(batch.next - 1) /\ batch.next < length[k]
        BY <3>1, <3>4, PubSubGrowth
      <3>6. batch.next \in 0..(length[k] - 1)
        BY <3>1, <3>2, <3>5
      <3>7. F!Handed(k)
        BY <3>2, <3>5, <3>6 DEF F!Handed
      <3> QED  BY <3>1, <3>7 DEF F!FeedNext
    <2>3. ASSUME Start \/ (\E k \in Keys : GetEvents(k)) \/ KeyDone \/ KeyFailed
                 \/ OpenFile \/ WriteFile \/ Crash \/ UNCHANGED pubSubVars
          PROVE  FALSE
      BY <2>3 DEF Start, GetEvents, KeyDone, KeyFailed, OpenFile, WriteFile, Crash, pubSubVars
    <2> QED  BY <2>1, <2>2, <2>3 DEF PubSubNext, Step
  <1> QED  BY <1>1, <1>2, PubSubInvariant, PTL DEF PubSubSpec, ImplementsFeed, F!FeedSpec

-----------------------------------------------------------------------------
(* The ledger.                                                             *)

USE TransactionsAssumption

-----------------------------------------------------------------------------
(* What was written stays.                                                 *)

\* Rows keep where they lead to and, once they have one, their version.
RowsKept ==
    \A i \in DOMAIN txs :
        /\ i \in DOMAIN txs' /\ txs'[i].destination = txs[i].destination
        /\ txs[i].version # 0 => txs'[i].version = txs[i].version
ChainKept == \A v \in DOMAIN chain : v \in DOMAIN chain' /\ chain'[v] = chain[v]

\* A row is added to the table.
LEMMA RowAdded ==
  ASSUME txs \in Seq(Rows), NEW row \in Rows, txs' = Append(txs, row)
  PROVE  /\ txs' \in Seq(Rows) /\ RowsKept
         /\ DOMAIN txs = 1..Len(txs) /\ DOMAIN txs' = DOMAIN txs \cup {Len(txs) + 1}
         /\ Len(txs) + 1 \in Nat \ {0} /\ Len(txs) + 1 \notin DOMAIN txs
         /\ \A i \in DOMAIN txs : txs'[i] = txs[i] /\ i \in Nat \ {0}
         /\ txs'[Len(txs) + 1] = row
  <1>1. /\ txs' \in Seq(Rows) /\ Len(txs) \in Nat /\ DOMAIN txs = 1..Len(txs)
        /\ Len(txs') = Len(txs) + 1 /\ DOMAIN txs' = 1..Len(txs')
        /\ \A i \in 1..Len(txs) : txs'[i] = txs[i]
        /\ txs'[Len(txs) + 1] = row
    OBVIOUS
  <1>2. PICK n \in Nat : n = Len(txs)
    BY <1>1
  <1>3. 1..(n + 1) = (1..n) \cup {n + 1} /\ n + 1 \notin 1..n
    OBVIOUS
  <1> QED BY <1>1, <1>2, <1>3 DEF RowsKept

\* A transfer is added to the chain.
LEMMA EventAdded ==
  ASSUME chain \in Seq(Events), NEW event \in Events, chain' = Append(chain, event)
  PROVE  /\ chain' \in Seq(Events) /\ ChainKept
         /\ DOMAIN chain = 1..Len(chain) /\ DOMAIN chain' = DOMAIN chain \cup {Len(chain) + 1}
         /\ Len(chain) + 1 \in Nat \ {0} /\ Len(chain) + 1 \notin DOMAIN chain
         /\ chain'[Len(chain) + 1] = event
  <1>1. /\ chain' \in Seq(Events) /\ Len(chain) \in Nat /\ DOMAIN chain = 1..Len(chain)
        /\ Len(chain') = Len(chain) + 1 /\ DOMAIN chain' = 1..Len(chain')
        /\ \A v \in 1..Len(chain) : chain'[v] = chain[v]
        /\ chain'[Len(chain) + 1] = event
    OBVIOUS
  <1>2. PICK n \in Nat : n = Len(chain)
    BY <1>1
  <1>3. 1..(n + 1) = (1..n) \cup {n + 1} /\ n + 1 \notin 1..n
    OBVIOUS
  <1> QED BY <1>1, <1>2, <1>3 DEF ChainKept

\* Nothing is recorded by a row for nobody or without a version.
LEMMA NothingRecorded ==
  ASSUME IInv, NEW row \in Rows, txs' = Append(txs, row),
         row.destination = None \/ row.version = 0, row.status = "pending" => row.version = 0
  PROVE  /\ RowsInv' /\ (Alone => RecordedOnce')
         /\ \A v \in Nat \ {0} : Recorded(v)' <=> Recorded(v)
  <1>1. /\ DOMAIN txs' = DOMAIN txs \cup {Len(txs) + 1} /\ txs'[Len(txs) + 1] = row
        /\ \A i \in DOMAIN txs : txs'[i] = txs[i]
    BY RowAdded DEF IInv, TypeOK
  <1>2. RowsInv'
    BY <1>1 DEF IInv, RowsInv
  <1>3. Alone => RecordedOnce'
    BY <1>1 DEF IInv, RecordedOnce
  <1>4. \A v \in Nat \ {0} : Recorded(v)' <=> Recorded(v)
    BY <1>1 DEF Recorded
  <1> QED BY <1>2, <1>3, <1>4

\* The types of a worker's attempt.
LEMMA WorkerTypes ==
  ASSUME IInv, NEW w \in Workers, Busy(w)
  PROVE  /\ worker[w] \in Attempts /\ worker[w].job \in Jobs /\ worker[w].job.of \in Nat \ {0}
         /\ worker[w].pc \in WorkerPcs /\ worker[w].arg \in Nat /\ JobInv(worker[w].job)
  BY DEF IInv, TypeOK, Busy, Idle, Attempts, Jobs, JobsInv

\* A worker that does not move stays where it may be.
LEMMA WorkerKept ==
  ASSUME IInv, NEW w \in Workers, worker'[w] = worker[w], RowsKept, ChainKept,
         worker[w].pc = "wait" => txs'[worker[w].job.of].status = txs[worker[w].job.of].status,
         worker[w].pc = "book" /\ Alone =>
             (Recorded(worker[w].job.of)' <=> Recorded(worker[w].job.of))
  PROVE  WorkerInv(w)' /\ (Busy(w)' => JobInv(worker[w].job)')
  <1>1. Busy(w) => JobInv(worker[w].job)'
    BY WorkerTypes DEF JobInv, RowsKept, ChainKept
  <1>2. WorkerInv(w)
    BY DEF IInv, WorkersInv
  <1>3. ASSUME worker[w].pc = "book"
        PROVE  /\ worker[w].job.of \in DOMAIN chain
               /\ chain'[worker[w].job.of] = chain[worker[w].job.of]
    <2>1. Busy(w) /\ worker[w].job.actor = "process_incoming_txn"
      BY <1>2, <1>3 DEF Busy, WorkerInv
    <2> QED BY <2>1, WorkerTypes DEF JobInv, ChainKept
  <1>4. ASSUME worker[w].pc = "book", chain[worker[w].job.of].kind = "refund"
        PROVE  (RowsOfVersion(chain[worker[w].job.of].of) # {})'
    <2>1. PICK i \in DOMAIN txs : txs[i].version = chain[worker[w].job.of].of
      BY <1>2, <1>4 DEF WorkerInv, RowsOfVersion
    <2>2. chain[worker[w].job.of].of \in Nat \ {0}
      BY <1>3, <1>4 DEF IInv, TypeOK, Events
    <2>3. i \in DOMAIN txs' /\ txs'[i].version = chain[worker[w].job.of].of
      BY <2>1, <2>2 DEF RowsKept
    <2> QED BY <1>3, <1>4, <2>3 DEF RowsOfVersion
  <1>5. WorkerInv(w)'
    <2>1. CASE worker[w].pc # "book"
      BY <1>2, <2>1 DEF WorkerInv
    <2>2. CASE worker[w].pc = "book"
      <3>1. Alone' = Alone
        BY DEF Alone
      <3> QED BY <1>2, <1>3, <1>4, <2>2, <3>1 DEF WorkerInv
    <2> QED BY <2>1, <2>2
  <1> QED BY <1>1, <1>5 DEF Busy

\* Workers that all stay where they are.
LEMMA WorkersStill ==
  ASSUME IInv, worker' = worker, RowsKept, ChainKept,
         \A i \in DOMAIN txs : txs'[i].status = txs[i].status,
         \A v \in Nat \ {0} : Recorded(v)' <=> Recorded(v)
  PROVE  WorkersInv' /\ \A w \in Workers : Busy(w)' => JobInv(worker[w].job)'
  <1> SUFFICES ASSUME NEW w \in Workers
               PROVE  WorkerInv(w)' /\ (Busy(w)' => JobInv(worker[w].job)')
    BY DEF WorkersInv
  <1>1. worker[w].pc = "wait" => txs'[worker[w].job.of].status = txs[worker[w].job.of].status
    <2> SUFFICES ASSUME worker[w].pc = "wait" PROVE worker[w].job.of \in DOMAIN txs
      OBVIOUS
    <2>1. Busy(w) /\ worker[w].job.actor = "async_external_transaction"
      BY DEF Busy, IInv, WorkersInv, WorkerInv
    <2> QED BY <2>1, WorkerTypes DEF JobInv
  <1>2. worker[w].pc = "book" =>
           (Recorded(worker[w].job.of)' <=> Recorded(worker[w].job.of))
    <2> SUFFICES ASSUME worker[w].pc = "book"
                 PROVE  Recorded(worker[w].job.of)' <=> Recorded(worker[w].job.of)
      OBVIOUS
    <2>1. PICK v \in Nat \ {0} : v = worker[w].job.of
      BY WorkerTypes DEF Busy
    <2>2. worker'[w].job.of = v
      BY <2>1
    <2>3. Recorded(v)' <=> Recorded(v)
      OBVIOUS
    <2> QED BY <2>1, <2>2, <2>3 DEF Recorded
  <1> QED BY <1>1, <1>2, WorkerKept

\* What is still to be sent stays so, and nobody else sends it.
LEMMA UnsentInvKept ==
  ASSUME IInv, \A i : Unsent(i) => Unsent(i)',
         \A t \in Threads : web'[t].pc = "enqueue" => web'[t] = web[t],
         \A w \in Workers : worker'[w].pc = "refund_enqueue" => worker'[w] = worker[w]
  PROVE  UnsentInv'
  <1>1. ASSUME NEW t \in Threads, web'[t].pc = "enqueue" PROVE Unsent(web[t].row)'
    <2>1. web'[t] = web[t] /\ Unsent(web[t].row)
      BY <1>1 DEF IInv, UnsentInv
    <2> QED BY <2>1 DEF Unsent
  <1>2. ASSUME NEW w \in Workers, worker'[w].pc = "refund_enqueue" PROVE Unsent(worker[w].arg)'
    <2>1. worker'[w] = worker[w] /\ Unsent(worker[w].arg)
      BY <1>2 DEF IInv, UnsentInv
    <2> QED BY <2>1 DEF Unsent
  <1> QED BY <1>1, <1>2 DEF IInv, UnsentInv

\* A step outside of the workers that sends no job of a row.
LEMMA OutsideStep ==
  ASSUME IInv, TypeOK', worker' = worker, RowsInv', Alone => RecordedOnce', RowsKept, ChainKept,
         \A i \in DOMAIN txs : txs'[i].status = txs[i].status,
         \A v \in Nat \ {0} : Recorded(v)' <=> Recorded(v),
         \A t \in Threads : web'[t].pc = "enqueue" => web'[t] = web[t],
         \A job \in jobs' \ jobs :
            /\ job.actor = "process_incoming_txn"
            /\ job.of \in DOMAIN chain' /\ chain'[job.of].kind # "out"
            /\ "resend" \notin FaultKinds => \A w \in Workers : Busy(w) => worker[w].job # job
  PROVE  IInv'
  <1>1. WorkersInv' /\ \A w \in Workers : Busy(w)' => JobInv(worker[w].job)'
    BY WorkersStill
  <1>2. JobsInv'
    <2>1. ASSUME NEW job \in jobs' PROVE JobInv(job)'
      <3>1. CASE job \in jobs
        BY <3>1 DEF IInv, JobsInv, JobInv, RowsKept, ChainKept
      <3>2. CASE job \notin jobs
        BY <3>2 DEF JobInv
      <3> QED BY <3>1, <3>2
    <2> QED BY <1>1, <2>1 DEF JobsInv
  <1>3. HoldersInv'
    BY DEF IInv, HoldersInv, Exclusive, Busy
  <1>4. UnsentInv'
    <2>1. ASSUME NEW i, Unsent(i) PROVE Unsent(i)'
      BY <2>1 DEF Unsent, RowsKept, External, Busy
    <2> QED BY <2>1, UnsentInvKept
  <1>5. Alone' = Alone
    BY DEF Alone
  <1> QED BY <1>1, <1>2, <1>3, <1>4, <1>5 DEF IInv

\* Initially there is nothing.
LEMMA Initially == Init => IInv
  <1> SUFFICES ASSUME Init PROVE IInv
    OBVIOUS
  <1>1. txs = << >> /\ DOMAIN txs = {} /\ txs \in Seq(Rows) /\ chain \in Seq(Events)
    BY DEF Init
  <1>2. TypeOK
    BY <1>1 DEF Init, TypeOK
  <1>3. /\ \A w \in Workers : worker[w].pc = "idle"
        /\ \A t \in Threads : web[t].pc = "idle"
        /\ jobs = {}
    BY DEF Init, Idle
  <1>4. JobsInv /\ HoldersInv /\ UnsentInv /\ WorkersInv
    BY <1>3 DEF JobsInv, HoldersInv, UnsentInv, WorkersInv, WorkerInv, Busy
  <1>5. RowsInv /\ RecordedOnce
    BY <1>1 DEF RowsInv, RecordedOnce
  <1> QED BY <1>2, <1>4, <1>5 DEF IInv

-----------------------------------------------------------------------------
(* The web threads, payment commands and the chain.                        *)

\* Steps that leave the table as it is.
LEMMA TableStill ==
  ASSUME IInv, txs' = txs, RowsInv'
  PROVE  /\ Alone => RecordedOnce'
         /\ RowsKept /\ \A i \in DOMAIN txs : txs'[i].status = txs[i].status
         /\ \A v \in Nat \ {0} : Recorded(v)' <=> Recorded(v)
  BY DEF IInv, RecordedOnce, RowsKept, Recorded

\* A user's transfer, up to its last check.
LEMMA SendKeeps ==
  ASSUME IInv, NEW t \in Threads, NEW from \in Accounts, NEW to \in Parties, NEW n \in Amounts,
         SendTransaction(t, from, to, n)
  PROVE  IInv'
  <1>1. /\ UNCHANGED <<txs, jobs, worker, pool, seqno, chain, faults>> /\ sends' = sends + 1
        /\ commands' \in {commands, commands \cup {[from |-> from, amount |-> n, n |-> sends]}}
        /\ web' \in {web, [web EXCEPT ![t] = [pc |-> "write", from |-> from, to |-> to, amount |-> n]]}
    BY DEF SendTransaction, onchain
  <1>2. [pc |-> "write", from |-> from, to |-> to, amount |-> n] \in WebRequests
    BY DEF WebRequests
  <1>3. web' \in [Threads -> WebRequests \cup {Idle}]
    BY <1>1, <1>2 DEF IInv, TypeOK
  <1>4. \A u \in Threads : web'[u].pc = "enqueue" => web'[u] = web[u]
    BY <1>1 DEF IInv, TypeOK
  <1>5. TypeOK'
    BY <1>1, <1>3 DEF IInv, TypeOK
  <1>6. RowsInv' /\ ChainKept
    BY <1>1 DEF IInv, RowsInv, ChainKept
  <1> QED BY <1>1, <1>4, <1>5, <1>6, TableStill, OutsideStep

\* The web process restarts.
LEMMA WebRestartKeeps == ASSUME IInv, WebRestart PROVE IInv'
  <1>1. /\ UNCHANGED <<txs, commands, jobs, worker, pool, seqno, chain, sends>>
        /\ faults' = faults + 1 /\ web' = [u \in Threads |-> Idle]
    BY DEF WebRestart, onchain, Fault
  <1>2. TypeOK'
    BY <1>1 DEF IInv, TypeOK
  <1>3. \A u \in Threads : web'[u].pc = "enqueue" => web'[u] = web[u]
    BY <1>1 DEF Idle
  <1>4. RowsInv' /\ ChainKept
    BY <1>1 DEF IInv, RowsInv, ChainKept
  <1> QED BY <1>1, <1>2, <1>3, <1>4, TableStill, OutsideStep

\* A payment command is paid and booked.
LEMMA SettleKeeps == ASSUME IInv, NEW c \in commands, SettleCommand(c) PROVE IInv'
  <1> DEFINE event == [kind |-> "out", amount |-> c.amount, row |-> Len(txs) + 1, seq |-> seqno,
                       by |-> None]
             row == Row("offchain", "completed", c.amount, c.from, None, Len(chain) + 1, 0)
  <1>1. /\ UNCHANGED <<web, jobs, worker, pool, sends, faults>>
        /\ commands' = commands \ {c} /\ seqno' = seqno + 1
        /\ chain' = Append(chain, event) /\ txs' = Append(txs, row)
    BY DEF SettleCommand
  <1>2. /\ txs \in Seq(Rows) /\ chain \in Seq(Events) /\ seqno \in Nat
        /\ c.from \in Accounts /\ c.amount \in Amounts
        /\ Len(txs) + 1 \in Nat \ {0} /\ Len(chain) + 1 \in Nat
    BY DEF IInv, TypeOK
  <1>3. event \in Events
    BY <1>2 DEF Events
  <1>4. row \in Rows /\ row.destination = None /\ row.status = "completed"
    BY <1>2 DEF Row, Rows, Parties
  <1> HIDE DEF event, row
  <1>5. /\ txs' \in Seq(Rows) /\ RowsKept
        /\ \A i \in DOMAIN txs : txs'[i].status = txs[i].status
    BY <1>1, <1>2, <1>4, RowAdded
  <1>6. chain' \in Seq(Events) /\ ChainKept
    BY <1>1, <1>2, <1>3, EventAdded
  <1>7. TypeOK'
    BY <1>1, <1>5, <1>6 DEF IInv, TypeOK
  <1>8. RowsInv' /\ (Alone => RecordedOnce') /\ \A v \in Nat \ {0} : Recorded(v)' <=> Recorded(v)
    BY <1>1, <1>4, NothingRecorded
  <1> QED BY <1>1, <1>5, <1>6, <1>7, <1>8, OutsideStep

\* A transfer arrives on the chain.
LEMMA ArriveKeeps ==
  ASSUME IInv, NEW event \in Events, event.kind # "out", Arrive(event)
  PROVE  IInv'
  <1>1. /\ UNCHANGED <<txs, web, commands, worker, pool, seqno, sends, faults>>
        /\ chain' = Append(chain, event) /\ jobs' = jobs \cup {Incoming(Len(chain) + 1)}
    BY DEF Arrive
  <1>2. /\ chain' \in Seq(Events) /\ ChainKept /\ Len(chain) + 1 \in Nat \ {0}
        /\ Len(chain) + 1 \in DOMAIN chain' /\ Len(chain) + 1 \notin DOMAIN chain
        /\ chain'[Len(chain) + 1] = event
    BY <1>1, EventAdded DEF IInv, TypeOK
  <1>3. TypeOK'
    BY <1>1, <1>2 DEF IInv, TypeOK, Incoming, Jobs
  <1>4. RowsInv'
    BY <1>1 DEF IInv, RowsInv
  <1>5. \A job \in jobs' \ jobs :
            /\ job.actor = "process_incoming_txn"
            /\ job.of \in DOMAIN chain' /\ chain'[job.of].kind # "out"
            /\ \A w \in Workers : Busy(w) => worker[w].job # job
    <2>1. ASSUME NEW w \in Workers, Busy(w) PROVE worker[w].job # Incoming(Len(chain) + 1)
      BY <1>2, <2>1, WorkerTypes DEF JobInv, Incoming
    <2> QED BY <1>1, <1>2, <2>1 DEF Incoming
  <1> QED BY <1>1, <1>2, <1>3, <1>4, <1>5, TableStill, OutsideStep

\* Its event is sent again.
LEMMA ResendKeeps == ASSUME IInv, NEW v \in DOMAIN chain, Resend(v) PROVE IInv'
  <1>1. /\ UNCHANGED <<txs, web, commands, worker, pool, seqno, chain, sends>>
        /\ jobs' = jobs \cup {Incoming(v)} /\ faults' = faults + 1
        /\ "resend" \in FaultKinds /\ chain[v].kind # "out"
    BY DEF Resend, onchain, Fault, Arrivals
  <1>2. v \in Nat \ {0}
    BY DEF IInv, TypeOK
  <1>3. TypeOK'
    BY <1>1, <1>2 DEF IInv, TypeOK, Incoming, Jobs
  <1>4. RowsInv' /\ ChainKept
    BY <1>1 DEF IInv, RowsInv, ChainKept
  <1>5. \A job \in jobs' \ jobs : job = Incoming(v)
    BY <1>1
  <1> QED BY <1>1, <1>3, <1>4, <1>5, TableStill, OutsideStep DEF Incoming

\* The chain executes a submitted transaction.
LEMMA ExecuteKeeps == ASSUME IInv, NEW p \in pool, Execute(p) PROVE IInv'
  <1> DEFINE event == [kind |-> "out", amount |-> p.amount, row |-> p.row, seq |-> p.seq, by |-> p.by]
  <1>1. /\ UNCHANGED <<txs, web, commands, jobs, worker, sends, faults>>
        /\ pool' = pool \ {p} /\ seqno' = seqno + 1 /\ chain' \in {Append(chain, event), chain}
    BY DEF Execute
  <1>2. event \in Events
    BY DEF IInv, TypeOK, Events, Submissions
  <1> HIDE DEF event
  <1>3. chain' \in Seq(Events) /\ ChainKept
    <2>1. CASE chain' = chain
      BY <2>1 DEF IInv, TypeOK, ChainKept
    <2>2. CASE chain' = Append(chain, event)
      BY <1>2, <2>2, EventAdded DEF IInv, TypeOK
    <2> QED BY <1>1, <2>1, <2>2
  <1>4. TypeOK'
    BY <1>1, <1>3 DEF IInv, TypeOK
  <1>5. RowsInv'
    BY <1>1 DEF IInv, RowsInv
  <1> QED BY <1>1, <1>3, <1>4, <1>5, TableStill, OutsideStep

\* No job is about a row that is still to come.
LEMMA NoJobYet ==
  ASSUME IInv, NEW i, i \notin DOMAIN txs
  PROVE  /\ External(i) \notin jobs /\ \A w \in Workers : Busy(w) => worker[w].job # External(i)
         /\ \A t \in Threads : web[t].pc = "enqueue" => web[t].row # i
         /\ \A w \in Workers : worker[w].pc = "refund_enqueue" => worker[w].arg # i
  BY DEF IInv, JobsInv, JobInv, External, UnsentInv, Unsent

\* The row of a user's transfer is committed.
LEMMA AddTransactionKeeps == ASSUME IInv, NEW t \in Threads, AddTransaction(t) PROVE IInv'
  <1> DEFINE r == web[t]
             row == IF r.to = None
                    THEN Row("external", "pending", r.amount, r.from, None, 0, 0)
                    ELSE Row("internal", "completed", r.amount, r.from, r.to, 0, 0)
             request == IF r.to = None THEN [pc |-> "enqueue", row |-> Len(txs) + 1] ELSE Idle
  <1>1. /\ UNCHANGED <<commands, jobs, worker, pool, seqno, chain, sends, faults>>
        /\ txs' = Append(txs, row) /\ web' = [web EXCEPT ![t] = request]
    BY DEF AddTransaction, onchain
  <1>2. r.from \in Accounts /\ r.to \in Parties /\ r.amount \in Amounts
    BY DEF AddTransaction, IInv, TypeOK, WebRequests, Idle
  <1>3. row \in Rows /\ row.version = 0 /\ (request.pc = "enqueue" => row.destination = None)
    BY <1>2 DEF Row, Rows, Parties, Idle
  <1>4. /\ txs' \in Seq(Rows) /\ RowsKept /\ Len(txs) + 1 \in Nat \ {0}
        /\ DOMAIN txs' = DOMAIN txs \cup {Len(txs) + 1} /\ Len(txs) + 1 \notin DOMAIN txs
        /\ \A i \in DOMAIN txs : txs'[i].status = txs[i].status
        /\ txs'[Len(txs) + 1] = row
    BY <1>1, <1>3, RowAdded DEF IInv, TypeOK
  <1>5. /\ request \in WebRequests \cup {Idle}
        /\ request.pc = "enqueue" => request.row = Len(txs) + 1
    BY <1>4 DEF WebRequests, Idle
  <1>6. /\ web'[t] = request /\ \A u \in Threads \ {t} : web'[u] = web[u]
        /\ web' \in [Threads -> WebRequests \cup {Idle}]
    BY <1>1, <1>5 DEF IInv, TypeOK
  <1>7. RowsInv' /\ (Alone => RecordedOnce') /\ \A v \in Nat \ {0} : Recorded(v)' <=> Recorded(v)
    BY <1>1, <1>3, NothingRecorded
  <1> HIDE DEF row, request, r
  <1>8. TypeOK'
    BY <1>1, <1>4, <1>6 DEF IInv, TypeOK
  <1>9. ChainKept
    BY <1>1 DEF ChainKept
  <1>10. WorkersInv' /\ \A w \in Workers : Busy(w)' => JobInv(worker[w].job)'
    BY <1>1, <1>4, <1>7, <1>9, WorkersStill
  <1>11. JobsInv'
    <2>1. ASSUME NEW job \in jobs' PROVE JobInv(job)'
      BY <1>1, <1>4, <1>9 DEF IInv, JobsInv, JobInv, RowsKept, ChainKept
    <2> QED BY <1>10, <2>1 DEF JobsInv
  <1>12. HoldersInv'
    BY <1>1 DEF IInv, HoldersInv, Exclusive, Busy
  <1>13. UnsentInv'
    <2>1. \A i : Unsent(i) => Unsent(i)'
      BY <1>1, <1>4 DEF Unsent, RowsKept, External, Busy
    <2>3. ASSUME NEW u \in Threads, web'[u].pc = "enqueue" PROVE Unsent(web[u].row)'
      <3>1. CASE u = t
        <4>1. request.pc = "enqueue" /\ web'[u].row = Len(txs) + 1
          BY <1>5, <1>6, <2>3, <3>1
        <4>2. PICK i : i = Len(txs) + 1
          OBVIOUS
        <4>3. External(i) \notin jobs /\ \A w \in Workers : Busy(w) => worker[w].job # External(i)
          BY <1>4, <4>2, NoJobYet
        <4> QED BY <1>1, <1>3, <1>4, <4>1, <4>2, <4>3 DEF Unsent, External, Busy
      <3>2. CASE u # t
        <4>1. web'[u] = web[u] /\ Unsent(web[u].row)
          BY <1>6, <2>3, <3>2 DEF IInv, UnsentInv
        <4> QED BY <2>1, <4>1 DEF Unsent
      <3> QED BY <3>1, <3>2
    <2>4. ASSUME NEW w \in Workers, worker'[w].pc = "refund_enqueue" PROVE Unsent(worker[w].arg)'
      <3>1. worker'[w] = worker[w] /\ Unsent(worker[w].arg)
        BY <1>1, <2>4 DEF IInv, UnsentInv
      <3> QED BY <2>1, <3>1 DEF Unsent
    <2>5. /\ \A u \in Threads : web[u].pc = "enqueue" => web[u].row # Len(txs) + 1
          /\ \A w \in Workers : worker[w].pc = "refund_enqueue" => worker[w].arg # Len(txs) + 1
      BY <1>4, NoJobYet
    <2> QED BY <1>1, <1>5, <1>6, <2>3, <2>4, <2>5 DEF IInv, UnsentInv
  <1>14. Alone' = Alone
    BY DEF Alone
  <1> QED BY <1>7, <1>8, <1>10, <1>11, <1>12, <1>13, <1>14 DEF IInv

\* The job of a row that was committed is sent.
LEMMA EnqueueKeeps == ASSUME IInv, NEW t \in Threads, Enqueue(t) PROVE IInv'
  <1>1. PICK i : i = web[t].row
    OBVIOUS
  <1>2. /\ UNCHANGED <<txs, commands, worker, pool, seqno, chain, sends, faults>>
        /\ jobs' = jobs \cup {External(i)} /\ web' = [web EXCEPT ![t] = Idle]
        /\ web[t].pc = "enqueue"
    BY <1>1 DEF Enqueue, onchain
  <1>3. /\ i \in Nat \ {0} /\ i \in DOMAIN txs /\ txs[i].destination = None
        /\ \A w \in Workers : Busy(w) => worker[w].job # External(i)
    <2>1. Unsent(i)
      BY <1>1, <1>2 DEF IInv, UnsentInv, Unsent
    <2> QED BY <2>1 DEF Unsent, IInv, TypeOK
  <1>4. TypeOK'
    BY <1>2, <1>3 DEF IInv, TypeOK, External, Jobs
  <1>5. RowsInv' /\ ChainKept
    BY <1>2 DEF IInv, RowsInv, ChainKept
  <1>6. /\ Alone => RecordedOnce'
        /\ RowsKept /\ \A k \in DOMAIN txs : txs'[k].status = txs[k].status
        /\ \A v \in Nat \ {0} : Recorded(v)' <=> Recorded(v)
    BY <1>2, <1>5, TableStill
  <1>7. WorkersInv' /\ \A w \in Workers : Busy(w)' => JobInv(worker[w].job)'
    BY <1>2, <1>5, <1>6, WorkersStill
  <1>8. JobsInv'
    <2>1. ASSUME NEW job \in jobs' PROVE JobInv(job)'
      BY <1>2, <1>3 DEF IInv, JobsInv, JobInv, External
    <2> QED BY <1>7, <2>1 DEF JobsInv
  <1>9. HoldersInv'
    BY <1>2, <1>3 DEF IInv, HoldersInv, Exclusive, Busy
  <1>10. UnsentInv'
    <2>1. \A k : Unsent(k) /\ k # i => Unsent(k)'
      BY <1>2 DEF Unsent, External, Busy
    <2>2. ASSUME NEW u \in Threads, web'[u].pc = "enqueue"
          PROVE  web'[u] = web[u] /\ Unsent(web[u].row)'
      <3>1. u # t /\ web'[u] = web[u]
        BY <1>2, <2>2 DEF IInv, TypeOK, Idle
      <3>2. Unsent(web[u].row) /\ web[u].row # i
        BY <1>1, <1>2, <2>2, <3>1 DEF IInv, UnsentInv
      <3> QED BY <2>1, <3>1, <3>2 DEF Unsent
    <2>3. ASSUME NEW w \in Workers, worker'[w].pc = "refund_enqueue" PROVE Unsent(worker[w].arg)'
      <3>1. worker'[w] = worker[w] /\ Unsent(worker[w].arg) /\ worker[w].arg # i
        BY <1>1, <1>2, <2>3 DEF IInv, UnsentInv
      <3> QED BY <2>1, <3>1 DEF Unsent
    <2> QED BY <1>2, <2>2, <2>3 DEF IInv, UnsentInv
  <1>11. Alone' = Alone
    BY DEF Alone
  <1> QED BY <1>4, <1>5, <1>6, <1>7, <1>8, <1>9, <1>10, <1>11 DEF IInv

-----------------------------------------------------------------------------
(* The workers.                                                            *)

\* Other workers are not disturbed by one that moves on, ends or takes a job.
LEMMA OthersKept ==
  ASSUME IInv, TypeOK', NEW w \in Workers, \A x \in Workers \ {w} : worker'[x] = worker[x],
         RowsKept, ChainKept,
         \A x \in Workers \ {w} : worker[x].pc = "wait" =>
             txs'[worker[x].job.of].status = txs[worker[x].job.of].status,
         \A x \in Workers \ {w} : worker[x].pc = "book" /\ Alone =>
             (Recorded(worker[x].job.of)' <=> Recorded(worker[x].job.of)),
         WorkerInv(w)', Busy(w)' => JobInv(worker[w].job)'
  PROVE  WorkersInv' /\ \A x \in Workers : Busy(x)' => JobInv(worker[x].job)'
  <1> SUFFICES ASSUME NEW x \in Workers, x # w
               PROVE  WorkerInv(x)' /\ (Busy(x)' => JobInv(worker[x].job)')
    BY DEF WorkersInv
  <1> QED BY WorkerKept

\* A worker moves on in its job, and sends none.
LEMMA MoveKeeps ==
  ASSUME IInv, NEW w \in Workers, Busy(w), NEW st \in WorkerPcs \ {"refund_enqueue"}, NEW arg,
         worker' = [worker EXCEPT ![w] = At(st, worker[w].job, arg)], jobs' = jobs, web' = web,
         RowsKept
  PROVE  /\ HoldersInv' /\ UnsentInv'
         /\ worker'[w].pc = st /\ worker'[w].job = worker[w].job
         /\ \A x \in Workers \ {w} : worker'[x] = worker[x]
  <1>1. /\ worker'[w] = At(st, worker[w].job, arg)
        /\ \A x \in Workers \ {w} : worker'[x] = worker[x]
    BY DEF IInv, TypeOK
  <1>2. worker'[w].pc = st /\ worker'[w].job = worker[w].job
    BY <1>1 DEF At
  <1>3. \A x \in Workers : Busy(x)' => Busy(x) /\ worker'[x].job = worker[x].job
    BY <1>1, <1>2 DEF Busy
  <1>4. HoldersInv'
    BY <1>3 DEF IInv, HoldersInv, Exclusive
  <1>5. \A i : Unsent(i) => Unsent(i)'
    BY <1>3 DEF Unsent, RowsKept, External
  <1>6. UnsentInv'
    <2>1. \A x \in Workers : worker'[x].pc = "refund_enqueue" => worker'[x] = worker[x]
      BY <1>1, <1>2
    <2> QED BY <1>5, <2>1, UnsentInvKept
  <1> QED BY <1>1, <1>2, <1>4, <1>6

\* An idle worker takes a job.
LEMMA TakeKeeps ==
  ASSUME IInv, NEW w \in Workers, worker[w] = Idle, NEW job \in jobs, jobs' = jobs \ {job},
         NEW st \in WorkerPcs \ {"refund_enqueue"}, NEW arg,
         worker' = [worker EXCEPT ![w] = At(st, job, arg)], web' = web, txs' = txs
  PROVE  /\ HoldersInv' /\ UnsentInv'
         /\ worker'[w].pc = st /\ worker'[w].job = job
         /\ \A x \in Workers \ {w} : worker'[x] = worker[x]
  <1>1. /\ worker'[w] = At(st, job, arg) /\ ~Busy(w)
        /\ \A x \in Workers \ {w} : worker'[x] = worker[x]
    BY DEF IInv, TypeOK, Busy, Idle
  <1>2. worker'[w].pc = st /\ worker'[w].job = job
    BY <1>1 DEF At
  <1>3. \A x \in Workers \ {w} : Busy(x) /\ Exclusive(job) => worker[x].job # job
    BY DEF IInv, HoldersInv
  <1>4. HoldersInv'
    <2>1. \A x \in Workers : Busy(x)' =>
             worker'[x].job = IF x = w THEN job ELSE worker[x].job
      BY <1>1, <1>2
    <2>2. \A x \in Workers \ {w} : Busy(x)' => Busy(x)
      BY <1>1 DEF Busy
    <2>3. ASSUME NEW x \in Workers, Busy(x)', Exclusive(worker'[x].job)
          PROVE  worker'[x].job \notin jobs'
      BY <2>1, <2>2, <2>3 DEF IInv, HoldersInv
    <2>4. ASSUME NEW x \in Workers, NEW y \in Workers, Busy(x)', Busy(y)',
                 worker'[x].job = worker'[y].job, Exclusive(worker'[x].job)
          PROVE  x = y
      BY <1>3, <2>1, <2>2, <2>4 DEF IInv, HoldersInv
    <2> QED BY <2>3, <2>4 DEF HoldersInv, Exclusive
  <1>5. \A i : Unsent(i) => Unsent(i)'
    BY <1>1, <1>2 DEF Unsent, External, Busy
  <1>6. UnsentInv'
    <2>1. \A x \in Workers : worker'[x].pc = "refund_enqueue" => worker'[x] = worker[x]
      BY <1>1, <1>2
    <2> QED BY <1>5, <2>1, UnsentInvKept
  <1> QED BY <1>1, <1>2, <1>4, <1>6

\* What nobody waits for any more is still a submission.
LEMMA AbandonedType == ASSUME IInv, NEW w PROVE Abandoned(w) \subseteq Submissions
  <1>1. pool \subseteq Submissions
    BY DEF IInv, TypeOK
  <1>2. \A p \in Submissions : [p EXCEPT !.by = None] \in Submissions
    BY DEF Submissions
  <1> QED BY <1>1, <1>2 DEF Abandoned

\* A worker ends a job, or dies and gives it back.
LEMMA EndKeeps ==
  ASSUME IInv, NEW w \in Workers, Busy(w), worker' = [worker EXCEPT ![w] = Idle],
         jobs' \in {jobs, jobs \cup {worker[w].job}}, faults' \in {faults, faults + 1},
         pool' \in {pool, Abandoned(w)}, UNCHANGED <<txs, web, commands, seqno, chain, sends>>
  PROVE  IInv'
  <1>1. /\ worker'[w] = Idle /\ ~Busy(w)'
        /\ \A x \in Workers \ {w} : worker'[x] = worker[x]
    BY DEF IInv, TypeOK, Busy, Idle
  <1>2. worker[w].job \in Jobs /\ JobInv(worker[w].job)
    BY WorkerTypes
  <1>3. Abandoned(w) \subseteq Submissions
    BY AbandonedType
  <1>4. TypeOK'
    BY <1>2, <1>3 DEF IInv, TypeOK
  <1>5. RowsInv' /\ ChainKept
    BY DEF IInv, RowsInv, ChainKept
  <1>6. (Alone => RecordedOnce') /\ RowsKept /\ \A v : Recorded(v)' <=> Recorded(v)
    BY <1>5, TableStill DEF Recorded
  <1>7. WorkerInv(w)'
    BY <1>1 DEF WorkerInv, Idle
  <1>9. WorkersInv' /\ \A x \in Workers : Busy(x)' => JobInv(worker[x].job)'
    <2>1. \A x \in Workers \ {w} : Recorded(worker[x].job.of)' <=> Recorded(worker[x].job.of)
      BY <1>1 DEF Recorded
    <2> QED BY <1>1, <1>4, <1>5, <1>6, <1>7, <2>1, OthersKept
  <1>10. JobsInv'
    <2>1. ASSUME NEW job \in jobs' PROVE JobInv(job)'
      BY <1>2 DEF IInv, JobsInv, JobInv
    <2> QED BY <1>9, <2>1 DEF JobsInv
  <1>11. HoldersInv'
    <2>1. \A x \in Workers : Busy(x)' => x # w /\ Busy(x) /\ worker'[x] = worker[x]
      BY <1>1 DEF Busy
    <2> QED BY <2>1 DEF IInv, HoldersInv, Exclusive
  <1>12. \A i : Unsent(i) => Unsent(i)'
    BY <1>1 DEF Unsent, External, Busy
  <1>13. UnsentInv'
    <2>1. \A x \in Workers : worker'[x].pc = "refund_enqueue" => worker'[x] = worker[x]
      BY <1>1 DEF Idle
    <2> QED BY <1>12, <2>1, UnsentInvKept
  <1>14. Alone' = Alone
    BY DEF Alone
  <1> QED BY <1>4, <1>5, <1>6, <1>9, <1>10, <1>11, <1>13, <1>14 DEF IInv

\* The parts of the invariant come together after a step of a worker that leaves the
\* table and the chain as they are.
LEMMA WorkerStep1 ==
  ASSUME IInv, TypeOK', NEW w \in Workers, \A x \in Workers \ {w} : worker'[x] = worker[x],
         txs' = txs, chain' = chain, WorkerInv(w)', Busy(w)' => JobInv(worker[w].job)',
         \A job \in jobs' : JobInv(job)', HoldersInv', UnsentInv'
  PROVE  IInv'
  <1>1. RowsInv' /\ ChainKept
    BY DEF IInv, RowsInv, ChainKept
  <1>2. (Alone => RecordedOnce') /\ RowsKept
    BY <1>1, TableStill
  <1>3. WorkersInv' /\ \A x \in Workers : Busy(x)' => JobInv(worker[x].job)'
    <2>1. \A x \in Workers \ {w} : Recorded(worker[x].job.of)' <=> Recorded(worker[x].job.of)
      BY DEF Recorded
    <2> QED BY <1>1, <1>2, <2>1, OthersKept
  <1>4. Alone' = Alone
    BY DEF Alone
  <1> QED BY <1>1, <1>2, <1>3, <1>4 DEF IInv, JobsInv

\* An attempt books, tries again or gives up, and does not book what is recorded.
LEMMA AttemptEffect ==
  ASSUME IInv, NEW w \in Workers, NEW job \in Jobs, NEW failed \in Nat, JobInv(job),
         job.actor = "process_incoming_txn", Attempt(w, job, failed), txs' = txs, chain' = chain
  PROVE  \E st \in {"book", "retry", "ack"}, arg \in Nat :
            /\ worker' = [worker EXCEPT ![w] = At(st, job, arg)]
            /\ WorkerInv(w)'
  <1>1. job.of \in DOMAIN chain /\ chain[job.of].kind \in {"deposit", "refund", "plain"}
    BY DEF JobInv, IInv, TypeOK, Events
  <1>2. PICK st \in {"book", "retry", "ack"}, arg \in Nat :
            /\ worker' = [worker EXCEPT ![w] = At(st, job, arg)]
            /\ st = "book" => /\ ~Recorded(job.of) /\ chain[job.of].kind # "plain"
                              /\ chain[job.of].kind = "refund" => RowsOfVersion(chain[job.of].of) # {}
    <2>1. failed + 1 \in Nat /\ 0 \in Nat
      OBVIOUS
    <2> QED BY <2>1 DEF Attempt
  <1>3. worker'[w].pc = st /\ worker'[w].job = job
    BY <1>2 DEF At, IInv, TypeOK
  <1>4. st = "book" => /\ ~Recorded(worker[w].job.of)'
                       /\ (chain[worker[w].job.of].kind)' \in {"deposit", "refund"}
                       /\ (chain[worker[w].job.of].kind)' = "refund"
                             => (RowsOfVersion(chain[worker[w].job.of].of) # {})'
    BY <1>1, <1>2, <1>3 DEF Recorded, RowsOfVersion
  <1>5. WorkerInv(w)'
    BY <1>3, <1>4 DEF WorkerInv
  <1> QED BY <1>2, <1>5

\* A worker takes the job of a transfer that arrived.
LEMMA ProcessKeeps ==
  ASSUME IInv, NEW w \in Workers, NEW job \in jobs, ProcessIncomingTxn(w, job)
  PROVE  IInv'
  <1>1. /\ worker[w] = Idle /\ jobs' = jobs \ {job} /\ Attempt(w, job, 0)
        /\ job.actor = "process_incoming_txn"
        /\ UNCHANGED <<txs, web, commands, pool, seqno, chain, sends, faults>>
    BY DEF ProcessIncomingTxn, onchain, Rest
  <1>2. job \in Jobs /\ JobInv(job)
    BY DEF IInv, TypeOK, JobsInv
  <1>3. PICK st \in {"book", "retry", "ack"}, arg \in Nat :
            /\ worker' = [worker EXCEPT ![w] = At(st, job, arg)]
            /\ WorkerInv(w)'
    BY <1>1, <1>2, AttemptEffect
  <1>4. st \in WorkerPcs \ {"refund_enqueue"}
    BY DEF WorkerPcs
  <1>5. /\ HoldersInv' /\ UnsentInv' /\ worker'[w].job = job
        /\ \A x \in Workers \ {w} : worker'[x] = worker[x]
    BY <1>1, <1>3, <1>4, TakeKeeps
  <1>6. TypeOK'
    BY <1>1, <1>2, <1>3, <1>4 DEF IInv, TypeOK, At, Attempts
  <1>7. \A k \in jobs' \cup {job} : JobInv(k)'
    BY <1>1 DEF IInv, JobsInv, JobInv
  <1>8. JobInv(worker[w].job)'
    BY <1>1, <1>2, <1>5 DEF JobInv
  <1> QED BY <1>1, <1>3, <1>5, <1>6, <1>7, <1>8, WorkerStep1

\* It tries again.
LEMMA RetryKeeps == ASSUME IInv, NEW w \in Workers, Retry(w) PROVE IInv'
  <1>1. PICK job : job = worker[w].job
    OBVIOUS
  <1>2. PICK failed : failed = worker[w].arg
    OBVIOUS
  <1>3. /\ worker[w].pc = "retry" /\ Attempt(w, job, failed)
        /\ UNCHANGED <<txs, web, commands, jobs, pool, seqno, chain, sends, faults>>
    BY <1>1, <1>2 DEF Retry, Attempt, onchain, Rest
  <1>4. /\ Busy(w) /\ job \in Jobs /\ failed \in Nat /\ JobInv(job)
        /\ job.actor = "process_incoming_txn"
    <2>1. Busy(w) /\ job.actor = "process_incoming_txn"
      BY <1>1, <1>3 DEF Busy, IInv, WorkersInv, WorkerInv
    <2> QED BY <1>1, <1>2, <2>1, WorkerTypes DEF JobInv
  <1>5. PICK st \in {"book", "retry", "ack"}, arg \in Nat :
            /\ worker' = [worker EXCEPT ![w] = At(st, job, arg)]
            /\ WorkerInv(w)'
    BY <1>3, <1>4, AttemptEffect
  <1>6. st \in WorkerPcs \ {"refund_enqueue"}
    BY DEF WorkerPcs
  <1>7. RowsKept
    BY <1>3 DEF RowsKept
  <1>8. /\ HoldersInv' /\ UnsentInv' /\ worker'[w].job = job
        /\ \A x \in Workers \ {w} : worker'[x] = worker[x]
    <2>1. worker' = [worker EXCEPT ![w] = At(st, worker[w].job, arg)]
      BY <1>1, <1>5
    <2> QED BY <1>1, <1>3, <1>4, <1>6, <1>7, <2>1, MoveKeeps
  <1>9. TypeOK'
    BY <1>3, <1>4, <1>5, <1>6 DEF IInv, TypeOK, At, Attempts
  <1>10. \A k \in jobs' : JobInv(k)'
    BY <1>3 DEF IInv, JobsInv, JobInv
  <1>11. JobInv(worker[w].job)'
    BY <1>3, <1>4, <1>8 DEF JobInv
  <1> QED BY <1>3, <1>5, <1>8, <1>9, <1>10, <1>11, WorkerStep1

\* What is recorded of an event has its version.
LEMMA IncomingRowType ==
  ASSUME IInv, NEW w \in Workers, worker[w].pc = "book", NEW v, v = worker[w].job.of
  PROVE  /\ v \in DOMAIN chain /\ v \in Nat \ {0} /\ IncomingRow(v) \in Rows
         /\ IncomingRow(v).version = v /\ IncomingRow(v).status # "pending"
         /\ worker[w].job.actor = "process_incoming_txn"
  <1>1. /\ Busy(w) /\ worker[w].job.actor = "process_incoming_txn"
        /\ chain[v].kind \in {"deposit", "refund"}
        /\ chain[v].kind = "refund" => RowsOfVersion(chain[v].of) # {}
    BY DEF Busy, IInv, WorkersInv, WorkerInv
  <1>2. v \in DOMAIN chain /\ v \in Nat \ {0} /\ chain[v] \in Events /\ chain[v].amount \in Amounts
    BY <1>1, WorkerTypes DEF JobInv, IInv, TypeOK, Events
  <1>3. CASE chain[v].kind = "refund"
    <2>1. PICK i : i = CHOOSE k \in RowsOfVersion(chain[v].of) : TRUE
      OBVIOUS
    <2>2. i \in DOMAIN txs /\ txs[i].source \in Parties /\ i \in Nat
      <3>1. \A S : S # {} => (CHOOSE k \in S : TRUE) \in S
        OBVIOUS
      <3>2. i \in RowsOfVersion(chain[v].of)
        BY <1>1, <1>3, <2>1, <3>1
      <3>3. i \in DOMAIN txs
        BY <3>2 DEF RowsOfVersion
      <3>4. txs \in Seq(Rows)
        BY DEF IInv, TypeOK
      <3>5. txs[i] \in Rows /\ i \in Nat
        BY <3>3, <3>4
      <3> QED BY <3>3, <3>5 DEF Rows
    <2>3. IncomingRow(v) = Row("refund", "completed", chain[v].amount, None, txs[i].source, v, i)
      BY <1>3, <2>1 DEF IncomingRow
    <2> QED BY <1>1, <1>2, <2>2, <2>3 DEF Row, Rows, Parties
  <1>4. CASE chain[v].kind = "deposit"
    <2>1. chain[v].to \in Parties
      BY <1>2, <1>4 DEF Events
    <2>2. IncomingRow(v) = IF chain[v].to = None
              THEN Row("external", "need_refund", chain[v].amount, None, Inventory, v, 0)
              ELSE Row("external", "completed", chain[v].amount, None, chain[v].to, v, 0)
      BY <1>4 DEF IncomingRow
    <2> QED BY <1>1, <1>2, <2>1, <2>2 DEF Row, Rows, Parties
  <1> QED BY <1>1, <1>3, <1>4

\* The commit of a transfer that arrived.
LEMMA BookKeeps == ASSUME IInv, NEW w \in Workers, Book(w) PROVE IInv'
  <1>1. PICK job : job = worker[w].job
    OBVIOUS
  <1>2. PICK row : row = IncomingRow(job.of)
    OBVIOUS
  <1>3. PICK st \in {"refund", "ack"}, arg \in {Len(txs) + 1, 0} :
            worker' = [worker EXCEPT ![w] = At(st, job, arg)]
    BY <1>1, <1>2 DEF Book
  <1>4. /\ worker[w].pc = "book" /\ txs' = Append(txs, row)
        /\ UNCHANGED <<web, commands, jobs, pool, seqno, chain, sends, faults>>
    BY <1>1, <1>2 DEF Book, onchain, Rest
  <1>5. /\ row \in Rows /\ row.version = job.of /\ row.status # "pending"
        /\ job.of \in DOMAIN chain /\ job.of \in Nat \ {0} /\ job.actor = "process_incoming_txn"
    BY <1>1, <1>2, <1>4, IncomingRowType
  <1>6. /\ Busy(w) /\ job \in Jobs /\ (Alone => ~Recorded(job.of))
        /\ chain[job.of].kind # "out"
    <2>1. Busy(w) /\ (Alone => ~Recorded(worker[w].job.of))
      BY <1>4 DEF Busy, IInv, WorkersInv, WorkerInv
    <2> QED BY <1>1, <1>5, <2>1, WorkerTypes DEF Recorded, JobInv
  <1>7. /\ txs' \in Seq(Rows) /\ RowsKept /\ Len(txs) + 1 \in Nat \ {0}
        /\ DOMAIN txs' = DOMAIN txs \cup {Len(txs) + 1} /\ Len(txs) + 1 \notin DOMAIN txs
        /\ \A i \in DOMAIN txs : txs'[i] = txs[i]
        /\ txs'[Len(txs) + 1] = row
    BY <1>4, <1>5, RowAdded DEF IInv, TypeOK
  <1>8. st \in WorkerPcs \ {"refund_enqueue"} /\ arg \in Nat
    BY <1>7 DEF WorkerPcs
  <1>9. /\ HoldersInv' /\ UnsentInv' /\ worker'[w].job = job /\ worker'[w].pc = st
        /\ \A x \in Workers \ {w} : worker'[x] = worker[x]
    BY <1>1, <1>3, <1>4, <1>6, <1>7, <1>8, MoveKeeps
  <1>10. TypeOK'
    BY <1>3, <1>4, <1>6, <1>7, <1>8 DEF IInv, TypeOK, At, Attempts
  <1>11. RowsInv'
    BY <1>5, <1>7 DEF IInv, RowsInv
  <1>12. Alone => RecordedOnce'
    <2> SUFFICES ASSUME Alone PROVE RecordedOnce'
      OBVIOUS
    <2>1. \A i \in DOMAIN txs : ~(txs[i].version = job.of /\ txs[i].destination # None)
      BY <1>6 DEF Recorded
    <2> QED BY <1>5, <1>7, <2>1 DEF IInv, RecordedOnce
  <1>13. ChainKept
    BY <1>4 DEF ChainKept
  <1>14. WorkerInv(w)' /\ (Busy(w)' => JobInv(worker[w].job)')
    BY <1>4, <1>5, <1>6, <1>9 DEF WorkerInv, JobInv
  <1>15. ASSUME NEW x \in Workers \ {w}, worker[x].pc = "book", Alone
         PROVE  Recorded(worker[x].job.of)' <=> Recorded(worker[x].job.of)
    <2>1. worker[x].job \in Jobs /\ worker[x].job.actor = "process_incoming_txn" /\ Busy(x)
      <3>1. Busy(x) /\ worker[x].job.actor = "process_incoming_txn"
        BY <1>15 DEF Busy, IInv, WorkersInv, WorkerInv
      <3> QED BY <3>1, WorkerTypes
    <2>2. worker[x].job.of # job.of
      <3> SUFFICES ASSUME worker[x].job.of = job.of PROVE FALSE
        OBVIOUS
      <3>1. worker[x].job = worker[w].job
        BY <1>1, <1>5, <1>6, <2>1 DEF Jobs
      <3>2. "resend" \notin FaultKinds
        BY <1>15 DEF Alone
      <3> QED BY <1>6, <2>1, <3>1, <3>2 DEF IInv, HoldersInv, Exclusive
    <2>3. worker'[x] = worker[x]
      BY <1>9
    <2> QED BY <1>5, <1>7, <2>2, <2>3 DEF Recorded
  <1>16. \A x \in Workers \ {w} : worker[x].pc = "wait" =>
             txs'[worker[x].job.of].status = txs[worker[x].job.of].status
    <2> SUFFICES ASSUME NEW x \in Workers \ {w}, worker[x].pc = "wait"
                 PROVE  worker[x].job.of \in DOMAIN txs
      BY <1>7
    <2>1. Busy(x) /\ worker[x].job.actor = "async_external_transaction"
      BY DEF Busy, IInv, WorkersInv, WorkerInv
    <2> QED BY <2>1, WorkerTypes DEF JobInv
  <1>17. WorkersInv' /\ \A x \in Workers : Busy(x)' => JobInv(worker[x].job)'
    BY <1>7, <1>9, <1>10, <1>13, <1>14, <1>15, <1>16, OthersKept
  <1>18. JobsInv'
    <2>1. ASSUME NEW k \in jobs' PROVE JobInv(k)'
      BY <1>4, <1>7 DEF IInv, JobsInv, JobInv, RowsKept
    <2> QED BY <1>17, <2>1 DEF JobsInv
  <1>19. Alone' = Alone
    BY DEF Alone
  <1> QED BY <1>9, <1>10, <1>11, <1>12, <1>17, <1>18, <1>19 DEF IInv

\* A transfer that nobody is known for is sent back, above the threshold by a command.
LEMMA RefundKeeps == ASSUME IInv, NEW w \in Workers, Refund(w) PROVE IInv'
  <1>1. PICK job : job = worker[w].job
    OBVIOUS
  <1>2. PICK command :
           command = [from |-> Inventory, amount |-> chain[job.of].amount, n |-> MaxSends + job.of]
    OBVIOUS
  <1>3. PICK st \in {"refund_write", "ack"}, arg \in {worker[w].arg, 0} :
            worker' = [worker EXCEPT ![w] = At(st, job, arg)]
    BY <1>1 DEF Refund
  <1>4. /\ worker[w].pc = "refund" /\ commands' \in {commands, commands \cup {command}}
        /\ UNCHANGED <<txs, web, jobs, pool, seqno, chain, sends, faults>>
    BY <1>1, <1>2 DEF Refund, onchain
  <1>5. Busy(w) /\ job.actor = "process_incoming_txn"
    BY <1>1, <1>4 DEF Busy, IInv, WorkersInv, WorkerInv
  <1>6. /\ job \in Jobs /\ job.of \in DOMAIN chain /\ chain[job.of].kind # "out"
        /\ job.of \in Nat \ {0} /\ arg \in Nat
    BY <1>1, <1>5, WorkerTypes DEF JobInv
  <1>7. st \in WorkerPcs \ {"refund_enqueue"} /\ RowsKept
    BY <1>4 DEF WorkerPcs, RowsKept
  <1>8. /\ HoldersInv' /\ UnsentInv' /\ worker'[w].job = job /\ worker'[w].pc = st
        /\ \A x \in Workers \ {w} : worker'[x] = worker[x]
    BY <1>1, <1>3, <1>4, <1>5, <1>7, MoveKeeps
  <1>9. TypeOK'
    <2>1. command \in [from : Accounts, amount : Amounts, n : Nat]
      BY <1>2, <1>6 DEF IInv, TypeOK, Events
    <2> QED BY <1>3, <1>4, <1>6, <1>7, <2>1 DEF IInv, TypeOK, At, Attempts
  <1>10. WorkerInv(w)' /\ JobInv(worker[w].job)'
    BY <1>4, <1>5, <1>6, <1>8 DEF WorkerInv, JobInv
  <1>11. \A k \in jobs' : JobInv(k)'
    BY <1>4 DEF IInv, JobsInv, JobInv
  <1> QED BY <1>4, <1>8, <1>9, <1>10, <1>11, WorkerStep1

\* The row of what is sent back is committed.
LEMMA RefundWriteKeeps == ASSUME IInv, NEW w \in Workers, RefundWrite(w) PROVE IInv'
  <1>1. PICK job : job = worker[w].job
    OBVIOUS
  <1>2. PICK row : row = Row("refund", "pending", chain[job.of].amount, Inventory, None, 0,
                             worker[w].arg)
    OBVIOUS
  <1>3. PICK new : new = Len(txs) + 1
    OBVIOUS
  <1>4. /\ worker[w].pc = "refund_write" /\ txs' = Append(txs, row)
        /\ worker' = [worker EXCEPT ![w] = At("refund_enqueue", job, new)]
        /\ UNCHANGED <<web, commands, jobs, pool, seqno, chain, sends, faults>>
    BY <1>1, <1>2, <1>3 DEF RefundWrite, onchain, Rest
  <1>5. Busy(w) /\ job.actor = "process_incoming_txn"
    BY <1>1, <1>4 DEF Busy, IInv, WorkersInv, WorkerInv
  <1>6. /\ job \in Jobs /\ job.of \in DOMAIN chain /\ chain[job.of].kind # "out"
        /\ chain[job.of].amount \in Amounts /\ worker[w].arg \in Nat
    BY <1>1, <1>5, WorkerTypes DEF JobInv, IInv, TypeOK, Events
  <1>7. row \in Rows /\ row.version = 0 /\ row.destination = None
    BY <1>2, <1>6 DEF Row, Rows, Parties
  <1>8. /\ txs' \in Seq(Rows) /\ RowsKept /\ new \in Nat \ {0}
        /\ DOMAIN txs' = DOMAIN txs \cup {new} /\ new \notin DOMAIN txs
        /\ \A i \in DOMAIN txs : txs'[i] = txs[i]
        /\ txs'[new] = row
    BY <1>3, <1>4, <1>7, RowAdded DEF IInv, TypeOK
  <1>9. RowsInv' /\ (Alone => RecordedOnce') /\ \A v \in Nat \ {0} : Recorded(v)' <=> Recorded(v)
    BY <1>4, <1>7, NothingRecorded
  <1>10. /\ worker'[w] = At("refund_enqueue", job, new) /\ worker'[w].pc = "refund_enqueue"
         /\ worker'[w].job = job /\ worker'[w].arg = new
         /\ \A x \in Workers \ {w} : worker'[x] = worker[x]
    BY <1>4 DEF At, IInv, TypeOK
  <1>11. TypeOK'
    BY <1>4, <1>6, <1>8 DEF IInv, TypeOK, At, Attempts, WorkerPcs
  <1>12. /\ External(new) \notin jobs /\ \A x \in Workers : Busy(x) => worker[x].job # External(new)
         /\ \A t \in Threads : web[t].pc = "enqueue" => web[t].row # new
         /\ \A x \in Workers : worker[x].pc = "refund_enqueue" => worker[x].arg # new
    BY <1>8, NoJobYet
  <1>13. \A x \in Workers : Busy(x)' => Busy(x) /\ worker'[x].job = worker[x].job
    BY <1>1, <1>5, <1>10 DEF Busy
  <1>14. HoldersInv'
    BY <1>4, <1>13 DEF IInv, HoldersInv, Exclusive
  <1>15. \A i : Unsent(i) => Unsent(i)'
    BY <1>4, <1>8, <1>13 DEF Unsent, RowsKept, External
  <1>16. Unsent(new)'
    BY <1>4, <1>7, <1>8, <1>12, <1>13 DEF Unsent, External
  <1>17. UnsentInv'
    <2>1. ASSUME NEW t \in Threads, web'[t].pc = "enqueue" PROVE Unsent(web[t].row)'
      <3>1. web'[t] = web[t] /\ Unsent(web[t].row)
        BY <1>4, <2>1 DEF IInv, UnsentInv
      <3> QED BY <1>15, <3>1 DEF Unsent
    <2>2. ASSUME NEW x \in Workers, worker'[x].pc = "refund_enqueue" PROVE Unsent(worker[x].arg)'
      <3>1. CASE x = w
        BY <1>10, <1>16, <3>1 DEF Unsent
      <3>2. CASE x # w
        <4>1. worker'[x] = worker[x] /\ Unsent(worker[x].arg)
          BY <1>10, <2>2, <3>2 DEF IInv, UnsentInv
        <4> QED BY <1>15, <4>1 DEF Unsent
      <3> QED BY <3>1, <3>2
    <2> QED BY <1>4, <1>10, <1>12, <2>1, <2>2 DEF IInv, UnsentInv
  <1>18. ChainKept
    BY <1>4 DEF ChainKept
  <1>19. WorkerInv(w)' /\ JobInv(worker[w].job)'
    BY <1>4, <1>5, <1>6, <1>10 DEF WorkerInv, JobInv
  <1>20. WorkersInv' /\ \A x \in Workers : Busy(x)' => JobInv(worker[x].job)'
    <2>1. ASSUME NEW x \in Workers \ {w}, worker[x].pc = "wait"
          PROVE  txs'[worker[x].job.of].status = txs[worker[x].job.of].status
      <3>1. Busy(x) /\ worker[x].job.actor = "async_external_transaction"
        BY <2>1 DEF Busy, IInv, WorkersInv, WorkerInv
      <3>2. worker[x].job.of \in DOMAIN txs
        BY <3>1, WorkerTypes DEF JobInv
      <3> QED BY <1>8, <3>2
    <2>2. ASSUME NEW x \in Workers \ {w}, worker[x].pc = "book"
          PROVE  Recorded(worker[x].job.of)' <=> Recorded(worker[x].job.of)
      <3>1. PICK v \in Nat \ {0} : v = worker[x].job.of
        BY <2>2, WorkerTypes DEF Busy
      <3>2. worker'[x].job.of = v /\ (Recorded(v)' <=> Recorded(v))
        BY <1>9, <1>10, <3>1
      <3> QED BY <3>1, <3>2 DEF Recorded
    <2> QED BY <1>8, <1>10, <1>11, <1>18, <1>19, <2>1, <2>2, OthersKept
  <1>21. JobsInv'
    <2>1. ASSUME NEW k \in jobs' PROVE JobInv(k)'
      BY <1>4, <1>8 DEF IInv, JobsInv, JobInv, RowsKept
    <2> QED BY <1>20, <2>1 DEF JobsInv
  <1>22. Alone' = Alone
    BY DEF Alone
  <1> QED BY <1>9, <1>11, <1>14, <1>17, <1>20, <1>21, <1>22 DEF IInv

\* Its job is sent.
LEMMA RefundEnqueueKeeps == ASSUME IInv, NEW w \in Workers, RefundEnqueue(w) PROVE IInv'
  <1>1. PICK job : job = worker[w].job
    OBVIOUS
  <1>2. PICK i : i = worker[w].arg
    OBVIOUS
  <1>3. /\ worker[w].pc = "refund_enqueue" /\ jobs' = jobs \cup {External(i)}
        /\ worker' = [worker EXCEPT ![w] = At("ack", job, 0)]
        /\ UNCHANGED <<txs, web, commands, pool, seqno, chain, sends, faults>>
    BY <1>1, <1>2 DEF RefundEnqueue, onchain, Rest
  <1>4. Busy(w) /\ job \in Jobs /\ JobInv(job) /\ job.actor = "process_incoming_txn"
    <2>1. Busy(w) /\ job.actor = "process_incoming_txn"
      BY <1>1, <1>3 DEF Busy, IInv, WorkersInv, WorkerInv
    <2> QED BY <1>1, <2>1, WorkerTypes DEF JobInv
  <1>5. /\ i \in DOMAIN txs /\ i \in Nat \ {0} /\ txs[i].destination = None
        /\ \A x \in Workers : Busy(x) => worker[x].job # External(i)
    <2>1. Unsent(i)
      BY <1>2, <1>3 DEF IInv, UnsentInv, Unsent
    <2> QED BY <2>1 DEF Unsent, IInv, TypeOK
  <1>6. /\ worker'[w].pc = "ack" /\ worker'[w].job = job
        /\ \A x \in Workers \ {w} : worker'[x] = worker[x]
    BY <1>3 DEF At, IInv, TypeOK
  <1>7. TypeOK'
    BY <1>3, <1>4, <1>5 DEF IInv, TypeOK, At, Attempts, WorkerPcs, External, Jobs
  <1>8. \A x \in Workers : Busy(x)' => Busy(x) /\ worker'[x].job = worker[x].job
    BY <1>1, <1>4, <1>6 DEF Busy
  <1>9. HoldersInv'
    BY <1>3, <1>5, <1>8 DEF IInv, HoldersInv, Exclusive
  <1>10. \A k : Unsent(k) /\ k # i => Unsent(k)'
    BY <1>3, <1>8 DEF Unsent, External
  <1>11. UnsentInv'
    <2>1. ASSUME NEW t \in Threads, web'[t].pc = "enqueue" PROVE Unsent(web[t].row)'
      <3>1. web'[t] = web[t] /\ Unsent(web[t].row) /\ web[t].row # i
        BY <1>2, <1>3, <2>1 DEF IInv, UnsentInv
      <3> QED BY <1>10, <3>1 DEF Unsent
    <2>2. ASSUME NEW x \in Workers, worker'[x].pc = "refund_enqueue" PROVE Unsent(worker[x].arg)'
      <3>1. x # w /\ worker'[x] = worker[x]
        BY <1>6, <2>2
      <3>2. Unsent(worker[x].arg) /\ worker[x].arg # i
        BY <1>2, <1>3, <2>2, <3>1 DEF IInv, UnsentInv
      <3> QED BY <1>10, <3>1, <3>2 DEF Unsent
    <2>3. \A x \in Workers : worker'[x].pc = "refund_enqueue" => worker'[x] = worker[x]
      BY <1>6
    <2> QED BY <1>3, <2>1, <2>2, <2>3 DEF IInv, UnsentInv
  <1>12. WorkerInv(w)' /\ JobInv(worker[w].job)'
    BY <1>3, <1>4, <1>6 DEF WorkerInv, JobInv
  <1>13. \A k \in jobs' : JobInv(k)'
    BY <1>3, <1>5 DEF IInv, JobsInv, JobInv, External
  <1> QED BY <1>3, <1>6, <1>7, <1>9, <1>11, <1>12, <1>13, WorkerStep1

\* A worker takes the job of a row, and submits the transaction if the row is pending.
LEMMA SubmitKeeps ==
  ASSUME IInv, NEW w \in Workers, NEW job \in jobs, SubmitOnchain(w, job)
  PROVE  IInv'
  <1>1. PICK st \in {"wait", "ack"}, arg \in {seqno, 0} :
            /\ worker' = [worker EXCEPT ![w] = At(st, job, arg)]
            /\ st = "wait" => txs[job.of].status = "pending"
    BY DEF SubmitOnchain
  <1>2. /\ worker[w] = Idle /\ jobs' = jobs \ {job} /\ job.actor = "async_external_transaction"
        /\ pool' \in {pool, pool \cup {Submission(w, job)}}
        /\ UNCHANGED <<txs, web, commands, seqno, chain, sends, faults>>
    BY DEF SubmitOnchain, Rest
  <1>3. job \in Jobs /\ JobInv(job) /\ job.of \in DOMAIN txs /\ job.of \in Nat \ {0}
    BY <1>2 DEF IInv, TypeOK, JobsInv, JobInv, Jobs
  <1>4. Submission(w, job) \in Submissions
    <2>1. txs[job.of] \in Rows /\ seqno \in Nat
      BY <1>3 DEF IInv, TypeOK
    <2>2. txs[job.of].amount \in Amounts
      BY <2>1 DEF Rows
    <2> QED BY <1>3, <2>1, <2>2 DEF Submission, Submissions
  <1>5. st \in WorkerPcs \ {"refund_enqueue"} /\ arg \in Nat
    BY DEF WorkerPcs, IInv, TypeOK
  <1>6. /\ HoldersInv' /\ UnsentInv' /\ worker'[w].job = job /\ worker'[w].pc = st
        /\ \A x \in Workers \ {w} : worker'[x] = worker[x]
    <2>1. /\ worker' = [worker EXCEPT ![w] = At(st, job, arg)] /\ worker[w] = Idle
          /\ jobs' = jobs \ {job} /\ web' = web /\ txs' = txs
      BY <1>1, <1>2
    <2> QED BY <1>5, <2>1, TakeKeeps
  <1>7. TypeOK'
    BY <1>1, <1>2, <1>3, <1>4, <1>5 DEF IInv, TypeOK, At, Attempts
  <1>8. \A k \in jobs' : JobInv(k)'
    BY <1>2 DEF IInv, JobsInv, JobInv
  <1>9. JobInv(worker[w].job)' /\ WorkerInv(w)'
    BY <1>1, <1>2, <1>3, <1>6 DEF JobInv, WorkerInv
  <1> QED BY <1>2, <1>6, <1>7, <1>8, <1>9, WorkerStep1

\* The row of a submitted transaction is completed with its version, or canceled.
LEMMA SettledKeeps ==
  ASSUME IInv, NEW w \in Workers, worker[w].pc = "wait",
         NEW i, i = worker[w].job.of, NEW status \in {"completed", "canceled"}, NEW version \in Nat,
         txs' = [txs EXCEPT ![i] = [@ EXCEPT !.status = status, !.version = version]],
         worker' = [worker EXCEPT ![w] = At("ack", worker[w].job, 0)],
         pool' \in {pool, Abandoned(w)}, faults' \in {faults, faults + 1},
         UNCHANGED <<web, commands, jobs, seqno, chain, sends>>
  PROVE  IInv'
  <1>1. /\ Busy(w) /\ worker[w].job.actor = "async_external_transaction"
        /\ txs[i].status = "pending"
    BY DEF Busy, IInv, WorkersInv, WorkerInv
  <1>2. /\ worker[w].job \in Jobs /\ JobInv(worker[w].job)
        /\ i \in DOMAIN txs /\ txs[i].destination = None /\ i \in Nat \ {0}
    BY <1>1, WorkerTypes DEF JobInv
  <1>3. txs[i] \in Rows /\ txs \in Seq(Rows) /\ txs[i].version = 0
    BY <1>1, <1>2 DEF IInv, TypeOK, RowsInv
  <1>4. PICK row : row = [txs[i] EXCEPT !.status = status, !.version = version]
    OBVIOUS
  <1>5. row \in Rows /\ row.status = status /\ row.destination = None /\ row.version = version
    BY <1>2, <1>3, <1>4 DEF Rows
  <1>6. txs' = [txs EXCEPT ![i] = row]
    BY <1>4
  <1>7. /\ txs' \in Seq(Rows) /\ DOMAIN txs' = DOMAIN txs /\ txs'[i] = row
        /\ \A k \in DOMAIN txs \ {i} : txs'[k] = txs[k]
    BY <1>2, <1>3, <1>5, <1>6
  <1>8. RowsKept
    BY <1>2, <1>3, <1>5, <1>7 DEF RowsKept
  <1>9. /\ HoldersInv' /\ UnsentInv' /\ worker'[w].job = worker[w].job /\ worker'[w].pc = "ack"
        /\ \A x \in Workers \ {w} : worker'[x] = worker[x]
    <2>1. "ack" \in WorkerPcs \ {"refund_enqueue"}
      BY DEF WorkerPcs
    <2> QED BY <1>1, <1>8, <2>1, MoveKeeps
  <1>10. TypeOK'
    <2>1. pool' \subseteq Submissions
      BY AbandonedType DEF IInv, TypeOK
    <2>2. At("ack", worker[w].job, 0) \in Attempts
      BY <1>2 DEF At, Attempts, WorkerPcs
    <2>3. worker' \in [Workers -> Attempts \cup {Idle}] /\ faults' \in Nat
      BY <2>2 DEF IInv, TypeOK
    <2> QED BY <1>7, <2>1, <2>3 DEF IInv, TypeOK
  <1>11. RowsInv'
    BY <1>5, <1>7 DEF IInv, RowsInv
  <1>12. Alone => RecordedOnce'
    <2> SUFFICES ASSUME Alone, NEW k \in DOMAIN txs, NEW j \in DOMAIN txs,
                        txs'[k].destination # None, txs'[k].version # 0,
                        txs'[j].destination # None, txs'[j].version = txs'[k].version
                 PROVE  k = j
      BY <1>7 DEF RecordedOnce
    <2>2. txs'[k] = txs[k] /\ txs'[j] = txs[j]
      <3>1. k # i /\ j # i
        BY <1>5, <1>7
      <3> QED BY <1>7, <3>1
    <2>3. RecordedOnce
      BY DEF IInv
    <2> QED BY <2>2, <2>3 DEF RecordedOnce
  <1>13. ChainKept
    BY DEF ChainKept
  <1>14. WorkerInv(w)' /\ JobInv(worker[w].job)'
    BY <1>1, <1>2, <1>5, <1>7, <1>9 DEF WorkerInv, JobInv
  <1>15. WorkersInv' /\ \A x \in Workers : Busy(x)' => JobInv(worker[x].job)'
    <2>1. ASSUME NEW x \in Workers \ {w}, worker[x].pc = "wait"
          PROVE  txs'[worker[x].job.of].status = txs[worker[x].job.of].status
      <3>1. Busy(x) /\ worker[x].job.actor = "async_external_transaction"
        BY <2>1 DEF Busy, IInv, WorkersInv, WorkerInv
      <3>2. worker[x].job \in Jobs /\ worker[x].job.of \in DOMAIN txs
        BY <3>1, WorkerTypes DEF JobInv
      <3>3. worker[x].job.of # i
        <4> SUFFICES ASSUME worker[x].job.of = i PROVE FALSE
          OBVIOUS
        <4>1. worker[x].job = worker[w].job
          BY <1>1, <1>2, <3>1, <3>2 DEF Jobs
        <4> QED BY <1>1, <3>1, <4>1 DEF IInv, HoldersInv, Exclusive
      <3> QED BY <1>7, <3>2, <3>3
    <2>2. ASSUME NEW x \in Workers \ {w}
          PROVE  Recorded(worker[x].job.of)' <=> Recorded(worker[x].job.of)
      <3>1. PICK v : v = worker[x].job.of
        OBVIOUS
      <3>2. worker'[x].job.of = v /\ (Recorded(v)' <=> Recorded(v))
        BY <1>2, <1>5, <1>7, <1>9, <3>1 DEF Recorded
      <3> QED BY <3>1, <3>2 DEF Recorded
    <2> QED BY <1>8, <1>9, <1>10, <1>13, <1>14, <2>1, <2>2, OthersKept
  <1>16. JobsInv'
    <2>1. ASSUME NEW k \in jobs' PROVE JobInv(k)'
      BY <1>8 DEF IInv, JobsInv, JobInv, RowsKept
    <2> QED BY <1>15, <2>1 DEF JobsInv
  <1>17. Alone' = Alone
    BY DEF Alone
  <1> QED BY <1>9, <1>10, <1>11, <1>12, <1>15, <1>16, <1>17 DEF IInv

\* The answer of the chain, or none in time.
LEMMA WaitKeeps ==
  ASSUME IInv, NEW w \in Workers, SubmitDone(w) \/ SubmitFailed(w) \/ SubmitTimeout(w)
  PROVE  IInv'
  <1>1. PICK i : i = worker[w].job.of
    OBVIOUS
  <1>2. worker[w].pc = "wait"
    BY DEF SubmitDone, SubmitFailed, SubmitTimeout
  <1>3. i \in DOMAIN txs /\ txs[i] \in Rows
    <2>1. Busy(w) /\ worker[w].job.actor = "async_external_transaction"
      BY <1>2 DEF Busy, IInv, WorkersInv, WorkerInv
    <2> QED BY <1>1, <2>1, WorkerTypes DEF JobInv, IInv, TypeOK
  <1>4. CASE SubmitDone(w)
    <2>1. PICK v \in Executed(w) :
             txs' = [txs EXCEPT ![i].status = "completed", ![i].version = v]
      BY <1>1, <1>4 DEF SubmitDone
    <2>2. v \in Nat
      BY DEF Executed, IInv, TypeOK
    <2>3. txs' = [txs EXCEPT ![i] = [@ EXCEPT !.status = "completed", !.version = v]]
      BY <1>3, <2>1
    <2>4. /\ worker' = [worker EXCEPT ![w] = At("ack", worker[w].job, 0)]
          /\ UNCHANGED <<web, commands, jobs, pool, seqno, chain, sends, faults>>
      BY <1>4 DEF SubmitDone, onchain, Rest
    <2> QED BY <1>1, <1>2, <2>2, <2>3, <2>4, SettledKeeps
  <1>5. CASE SubmitFailed(w) \/ SubmitTimeout(w)
    <2>1. /\ txs' = [txs EXCEPT ![i].status = "canceled"]
          /\ worker' = [worker EXCEPT ![w] = At("ack", worker[w].job, 0)]
          /\ pool' = Abandoned(w) /\ faults' \in {faults, faults + 1}
          /\ UNCHANGED <<web, commands, jobs, seqno, chain, sends>>
      BY <1>1, <1>5 DEF SubmitFailed, SubmitTimeout, Cancel, Rest, Fault
    <2>2. txs[i].version \in Nat
      BY <1>3 DEF Rows
    <2>3. txs' = [txs EXCEPT ![i] = [@ EXCEPT !.status = "canceled", !.version = txs[i].version]]
      BY <1>3, <2>1 DEF Rows
    <2> QED BY <1>1, <1>2, <2>1, <2>2, <2>3, SettledKeeps
  <1> QED BY <1>4, <1>5

\* It acknowledges the job, or dies.
LEMMA StopKeeps ==
  ASSUME IInv, NEW w \in Workers, Acknowledge(w) \/ WorkerCrash(w)
  PROVE  IInv'
  <1>1. Busy(w)
    <2>1. worker[w] \in Attempts \/ worker[w] = Idle
      BY DEF IInv, TypeOK
    <2>2. CASE Acknowledge(w)
      BY <2>2 DEF Acknowledge, Busy
    <2>3. CASE WorkerCrash(w)
      BY <2>1, <2>3 DEF WorkerCrash, Busy, Attempts, WorkerPcs
    <2> QED BY <2>2, <2>3
  <1>2. CASE Acknowledge(w)
    <2>1. /\ worker' = [worker EXCEPT ![w] = Idle]
          /\ UNCHANGED <<txs, web, commands, jobs, pool, seqno, chain, sends, faults>>
      BY <1>2 DEF Acknowledge, onchain, Rest
    <2> QED BY <1>1, <2>1, EndKeeps
  <1>3. CASE WorkerCrash(w)
    <2>1. /\ worker' = [worker EXCEPT ![w] = Idle] /\ jobs' = jobs \cup {worker[w].job}
          /\ faults' = faults + 1 /\ pool' = Abandoned(w)
          /\ UNCHANGED <<txs, web, commands, seqno, chain, sends>>
      BY <1>3 DEF WorkerCrash, Rest
    <2> QED BY <1>1, <2>1, EndKeeps
  <1> QED BY <1>2, <1>3

-----------------------------------------------------------------------------
(* All steps, and the theorems.                                            *)

\* The users and the world outside.
LEMMA UserKeeps == ASSUME IInv, UserStep PROVE IInv'
  <1>1. ASSUME NEW t \in Threads, NEW from \in Accounts \ {Inventory}, NEW to \in Parties,
               NEW n \in Amounts, SendTransaction(t, from, to, n)
        PROVE  IInv'
    BY <1>1, SendKeeps
  <1>2. ASSUME NEW to \in Parties, NEW n \in Amounts, NEW b \in BOOLEAN, Deposit(to, n, b)
        PROVE  IInv'
    <2>1. PICK event : event = [kind |-> "deposit", amount |-> n, to |-> to, from_subaddress |-> b]
      OBVIOUS
    <2>2. event \in Events /\ event.kind # "out" /\ Arrive(event)
      BY <1>2, <2>1 DEF Events, Deposit
    <2> QED BY <2>2, ArriveKeeps
  <1>3. ASSUME NEW n \in Amounts, PlainDeposit(n) PROVE IInv'
    <2>1. PICK event : event = [kind |-> "plain", amount |-> n]
      OBVIOUS
    <2>2. event \in Events /\ event.kind # "out" /\ Arrive(event)
      BY <1>3, <2>1 DEF Events, PlainDeposit
    <2> QED BY <2>2, ArriveKeeps
  <1>4. ASSUME NEW v \in DOMAIN chain, RefundByPeer(v) PROVE IInv'
    <2>1. PICK event : event = [kind |-> "refund", amount |-> chain[v].amount, of |-> v]
      OBVIOUS
    <2>2. chain[v] \in Events /\ v \in Nat \ {0}
      BY <1>4 DEF IInv, TypeOK
    <2>3. chain[v].amount \in Amounts
      BY <2>2 DEF Events
    <2>4. event \in Events /\ event.kind # "out"
      BY <2>1, <2>2, <2>3 DEF Events
    <2>5. Arrive(event)
      BY <1>4, <2>1 DEF RefundByPeer
    <2> QED BY <2>4, <2>5, ArriveKeeps
  <1> QED BY <1>1, <1>2, <1>3, <1>4 DEF UserStep

\* Every step keeps the invariant.
LEMMA NextKeeps == ASSUME IInv, [Next]_vars PROVE IInv'
  <1>1. CASE UserStep
    BY <1>1, UserKeeps
  <1>2. CASE FaultStep
    BY <1>2, WebRestartKeeps, ResendKeeps, WaitKeeps, StopKeeps DEF FaultStep
  <1>3. ASSUME NEW t \in Threads, WebStep(t) PROVE IInv'
    BY <1>3, AddTransactionKeeps, EnqueueKeeps DEF WebStep
  <1>4. ASSUME NEW c \in commands, SettleCommand(c) PROVE IInv'
    BY <1>4, SettleKeeps
  <1>5. ASSUME NEW p \in pool, Execute(p) PROVE IInv'
    BY <1>5, ExecuteKeeps
  <1>6. ASSUME NEW w \in Workers, WorkerStep(w) PROVE IInv'
    BY <1>6, ProcessKeeps, SubmitKeeps, RetryKeeps, BookKeeps, RefundKeeps, RefundWriteKeeps,
       RefundEnqueueKeeps, WaitKeeps, StopKeeps DEF WorkerStep
  <1>7. CASE UNCHANGED vars
    <2>1. UNCHANGED <<txs, web, commands, jobs, worker, pool, seqno, chain, sends, faults>>
      BY <1>7 DEF vars
    <2>2. TypeOK' /\ RowsInv' /\ (Alone => RecordedOnce)'
      BY <2>1 DEF IInv, TypeOK, RowsInv, Alone, RecordedOnce
    <2>3. JobsInv' /\ HoldersInv'
      BY <2>1 DEF IInv, JobsInv, JobInv, HoldersInv, Exclusive, Busy
    <2>4. UnsentInv'
      BY <2>1 DEF IInv, UnsentInv, Unsent, Busy, External
    <2>5. WorkersInv'
      BY <2>1 DEF IInv, WorkersInv, WorkerInv, Alone, Recorded, RowsOfVersion
    <2> QED BY <2>2, <2>3, <2>4, <2>5 DEF IInv
  <1> QED BY <1>1, <1>2, <1>3, <1>4, <1>5, <1>6, <1>7 DEF Next

\* The table, the queue, the chain and the workers keep their types; what a
\* worker holds exists; a job for the chain is held once; what a worker is about
\* to book is not in the table.
THEOREM InvariantHolds == Spec => []IInv
  <1>1. IInv /\ [Next]_vars => IInv'
    BY NextKeeps
  <1> QED BY Initially, <1>1, PTL DEF Spec

\* A transfer that arrived has one row in the table at most, whichever of its
\* workers dies and however many times its job is run again, as long as its event
\* is handed over once or there is one worker.
THEOREM RecordedOnceHolds == ASSUME Alone PROVE Spec => []RecordedOnce
  <1>1. IInv => RecordedOnce
    BY DEF IInv
  <1> QED BY InvariantHolds, <1>1, PTL

-----------------------------------------------------------------------------
(* What a table adds up to.                                                *)

HIDE TransactionsAssumption

\* There is a largest amount.
LEMMA LargestAmount ==
    /\ Largest \in Amounts /\ Largest \in Nat
    /\ \A n \in Amounts : n \in Nat /\ 0 < n /\ n <= Largest
  <1>1. \E n \in Amounts : \A m \in Amounts : m <= n
    BY TransactionsAssumption
  <1>2. Largest \in Amounts /\ \A n \in Amounts : n <= Largest
    BY <1>1, Zenon DEF Largest
  <1>3. \A n \in Amounts : n \in Nat /\ 0 < n
    <2>1. Amounts \subseteq Nat \ {0}
      BY TransactionsAssumption, Zenon
    <2> QED  BY <2>1
  <1> QED  BY <1>2, <1>3

\* Disjoint sets.
LEMMA Disjoint ==
    ASSUME NEW S, NEW T, IsFiniteSet(S), IsFiniteSet(T), S \cap T = {}
    PROVE  /\ IsFiniteSet(S \cup T)
           /\ Cardinality(S) \in Nat /\ Cardinality(T) \in Nat
           /\ Cardinality(S \cup T) = Cardinality(S) + Cardinality(T)
  <1>1. PICK m \in Nat, n \in Nat : Cardinality(S) = m /\ Cardinality(T) = n
    BY FS_CardinalityType
  <1>2. Cardinality(S \cap T) = 0
    BY FS_EmptySet
  <1>3. Cardinality(S \cup T) = Cardinality(S) + Cardinality(T) - Cardinality(S \cap T)
    BY FS_Union
  <1>4. Cardinality(S \cup T) = m + n - 0
    BY <1>1, <1>2, <1>3
  <1>5. m + n - 0 = m + n
    OBVIOUS
  <1> QED  BY <1>1, <1>4, <1>5, FS_Union

\* The units of some entries of a table.
UnitsOf(table, I) == {u \in I \X (1..Largest) : u[2] <= table[u[1]].amount}

\* They are finitely many, and as many as those of the entries' parts.
LEMMA TotalUnion ==
    ASSUME NEW table, NEW I, NEW J, IsFiniteSet(I), IsFiniteSet(J), I \cap J = {}
    PROVE  /\ Total(table, I) \in Nat /\ Total(table, J) \in Nat
           /\ IsFiniteSet(I \cup J)
           /\ Total(table, I \cup J) = Total(table, I) + Total(table, J)
  <1>1. IsFiniteSet(1..Largest)
    BY LargestAmount, FS_Interval
  <1>2. IsFiniteSet(I \X (1..Largest)) /\ IsFiniteSet(J \X (1..Largest))
    BY <1>1, FS_Product
  <1>3. UnitsOf(table, I) \subseteq I \X (1..Largest)
        /\ UnitsOf(table, J) \subseteq J \X (1..Largest)
    BY DEF UnitsOf
  <1>4. IsFiniteSet(UnitsOf(table, I)) /\ IsFiniteSet(UnitsOf(table, J))
    BY <1>2, <1>3, FS_Subset
  <1>5. UnitsOf(table, I \cup J) = UnitsOf(table, I) \cup UnitsOf(table, J)
    BY DEF UnitsOf
  <1>6. UnitsOf(table, I) \cap UnitsOf(table, J) = {}
    BY DEF UnitsOf
  <1>7. /\ Cardinality(UnitsOf(table, I)) \in Nat /\ Cardinality(UnitsOf(table, J)) \in Nat
        /\ Cardinality({}) = 0
    BY <1>4, FS_CardinalityType, FS_EmptySet
  <1>8. Cardinality(UnitsOf(table, I \cup J)) =
          Cardinality(UnitsOf(table, I)) + Cardinality(UnitsOf(table, J))
    BY <1>4, <1>5, <1>6, Disjoint
  <1>9. /\ Total(table, I) = Cardinality(UnitsOf(table, I))
        /\ Total(table, J) = Cardinality(UnitsOf(table, J))
        /\ Total(table, I \cup J) = Cardinality(UnitsOf(table, I \cup J))
    BY DEF Total, UnitsOf
  <1> QED  BY <1>7, <1>8, <1>9, FS_Union

\* A single entry has as many units as its amount.
LEMMA TotalOne ==
    ASSUME NEW table, NEW i, table[i].amount \in Amounts
    PROVE  Total(table, {i}) = table[i].amount
  <1>1. PICK n \in Amounts : table[i].amount = n
    OBVIOUS
  <1>2. n \in Nat /\ n <= Largest /\ n > 0
    BY LargestAmount
  <1>3. UnitsOf(table, {i}) = {i} \X (1..n)
    <2>1. ASSUME NEW u \in {i} \X (1..Largest)
          PROVE  u \in {i} \X (1..n) <=> u[2] <= table[u[1]].amount
      BY <1>1, <1>2, LargestAmount
    <2>2. {i} \X (1..n) \subseteq {i} \X (1..Largest)
      BY <1>2, LargestAmount
    <2> QED  BY <2>1, <2>2 DEF UnitsOf
  <1>4. IsFiniteSet({i}) /\ Cardinality({i}) = 1 /\ IsFiniteSet(1..n) /\ Cardinality(1..n) = n
    <2>1. 0 \in Int /\ 1 \in Int /\ n \in Int /\ ~(1 > n) /\ n - 1 + 1 = n
      BY <1>2
    <2> QED  BY <2>1, FS_Singleton, FS_Interval
  <1>5. Cardinality({i} \X (1..n)) = Cardinality({i}) * Cardinality(1..n)
    BY <1>4, FS_Product
  <1>6. 1 * n = n
    BY <1>2
  <1>7. Total(table, {i}) = Cardinality(UnitsOf(table, {i}))
    BY DEF Total, UnitsOf
  <1> QED  BY <1>1, <1>3, <1>4, <1>5, <1>6, <1>7

\* Only the amounts count.
LEMMA TotalSame ==
    ASSUME NEW s, NEW t, NEW I, \A i \in I : s[i].amount = t[i].amount
    PROVE  Total(s, I) = Total(t, I)
  <1>1. UnitsOf(s, I) = UnitsOf(t, I)
    BY DEF UnitsOf
  <1> QED  BY <1>1 DEF Total, UnitsOf

\* Nothing adds up to nothing.
LEMMA TotalNone == ASSUME NEW table PROVE Total(table, {}) = 0 /\ IsFiniteSet({})
  <1>1. UnitsOf(table, {}) = {}
    BY DEF UnitsOf
  <1> QED  BY <1>1, FS_EmptySet DEF Total, UnitsOf

\* An entry adds its amount, and takes it away.
LEMMA TotalAdd ==
    ASSUME NEW table, NEW I, IsFiniteSet(I), NEW i, i \notin I, table[i].amount \in Amounts
    PROVE  /\ Total(table, I \cup {i}) = Total(table, I) + table[i].amount
           /\ IsFiniteSet(I \cup {i}) /\ Total(table, I) \in Nat
  <1>1. IsFiniteSet({i}) /\ I \cap {i} = {}
    BY FS_Singleton
  <1> QED  BY <1>1, TotalUnion, TotalOne

\* A sum of at most so many entries.
LEMMA TotalBound ==
    ASSUME NEW table, NEW I, IsFiniteSet(I)
    PROVE  Total(table, I) \in Nat /\ Total(table, I) <= Cardinality(I) * Largest
  <1>1. IsFiniteSet(1..Largest) /\ Cardinality(1..Largest) = Largest
    BY LargestAmount, FS_Interval
  <1>2. /\ IsFiniteSet(I \X (1..Largest))
        /\ Cardinality(I \X (1..Largest)) = Cardinality(I) * Largest
    BY <1>1, FS_Product
  <1>3. UnitsOf(table, I) \in SUBSET (I \X (1..Largest))
    BY DEF UnitsOf
  <1>4. /\ IsFiniteSet(UnitsOf(table, I))
        /\ Cardinality(UnitsOf(table, I)) <= Cardinality(I) * Largest
    BY <1>2, <1>3, FS_Subset
  <1>5. Total(table, I) = Cardinality(UnitsOf(table, I))
    BY DEF Total, UnitsOf
  <1> QED  BY <1>4, <1>5, FS_CardinalityType

\* A table with finitely many entries, and one with another entry.
Table(t) == IsFiniteSet(DOMAIN t) /\ \A i \in DOMAIN t : t[i].amount \in Amounts
Extended(s, t, n, x) ==
    /\ n \notin DOMAIN s /\ DOMAIN t = DOMAIN s \cup {n} /\ t[n] = x
    /\ \A i \in DOMAIN s : t[i] = s[i]

\* Sums over a table are numbers.
LEMMA TableTotal ==
    ASSUME NEW t, Table(t), NEW I \in SUBSET DOMAIN t
    PROVE  IsFiniteSet(I) /\ Total(t, I) \in Nat
  BY FS_Subset, TotalBound DEF Table

\* Another entry adds its amount to the sums it is in, and changes no other.
LEMMA AddedTotal ==
    ASSUME NEW s, NEW t, NEW n, NEW x, Table(s), Extended(s, t, n, x), x.amount \in Amounts,
           NEW I \in SUBSET DOMAIN s
    PROVE  /\ Total(t, I) = Total(s, I) /\ Total(s, I) \in Nat
           /\ Total(t, I \cup {n}) = Total(s, I) + x.amount
  <1>1. n \notin I /\ t[n].amount = x.amount /\ \A i \in I : t[i].amount = s[i].amount
    BY DEF Extended
  <1>2. Total(t, I) = Total(s, I)
    BY <1>1, TotalSame
  <1>3. IsFiniteSet(I) /\ Total(s, I) \in Nat
    BY TableTotal
  <1>4. Total(t, I \cup {n}) = Total(t, I) + t[n].amount
    BY <1>1, <1>3, TotalAdd
  <1> QED  BY <1>1, <1>2, <1>3, <1>4

\* The transactions and the chain are such tables.
LEMMA RowTable ==
    ASSUME txs \in Seq(Rows)
    PROVE  Table(txs) /\ \A i \in DOMAIN txs : txs[i] \in Rows
  <1>1. PICK n \in Nat : DOMAIN txs = 1..n
    <2>1. Len(txs) \in Nat /\ DOMAIN txs = 1..Len(txs)
      OBVIOUS
    <2> QED  BY <2>1, Zenon
  <1>2. IsFiniteSet(DOMAIN txs)
    <2>1. 1 \in Int /\ n \in Int
      OBVIOUS
    <2> QED  BY <1>1, <2>1, FS_Interval
  <1>3. \A i \in DOMAIN txs : txs[i] \in Rows
    OBVIOUS
  <1> QED  BY <1>2, <1>3 DEF Rows, Table

\* A row that is added to the transactions.
LEMMA RowExtends ==
    ASSUME txs \in Seq(Rows), NEW row \in Rows, txs' = Append(txs, row)
    PROVE  Extended(txs, txs', Len(txs) + 1, row)
  BY RowAdded DEF Extended

\* What a row adds to the balance of the accounts S.
Credit(row, S) == IF row.destination \in S /\ row.status = "completed" THEN row.amount ELSE 0
Debit(row, S) == IF row.source \in S /\ row.status # "canceled" THEN row.amount ELSE 0

\* Balances are differences of such sums.
LEMMA BalanceType ==
    ASSUME Table(txs), NEW S
    PROVE  /\ BalanceOf(S) \in Int /\ Total(txs, Credits(S)) \in Nat
           /\ Total(txs, Debits(S)) \in Nat
           /\ Credits(S) \in SUBSET DOMAIN txs /\ Debits(S) \in SUBSET DOMAIN txs
  <1>1. Credits(S) \in SUBSET DOMAIN txs /\ Debits(S) \in SUBSET DOMAIN txs
    BY DEF Credits, Debits
  <1>2. Total(txs, Credits(S)) \in Nat /\ Total(txs, Debits(S)) \in Nat
    BY <1>1, TableTotal
  <1> QED  BY <1>1, <1>2 DEF BalanceOf

\* A row adds to a balance what it credits and takes what it debits.
LEMMA AddedBalance ==
    ASSUME Table(txs), NEW row, NEW n, Extended(txs, txs', n, row), row.amount \in Amounts, NEW S
    PROVE  /\ BalanceOf(S)' = BalanceOf(S) + Credit(row, S) - Debit(row, S)
           /\ Credit(row, S) \in Nat /\ Debit(row, S) \in Nat
  <1>1. /\ Credits(S) \in SUBSET DOMAIN txs /\ Debits(S) \in SUBSET DOMAIN txs
        /\ Total(txs, Credits(S)) \in Nat /\ Total(txs, Debits(S)) \in Nat
    BY BalanceType
  <1>2. row.amount \in Nat
    BY LargestAmount
  <1>3. \A I \in SUBSET DOMAIN txs :
           Total(txs', I) = Total(txs, I) /\ Total(txs', I \cup {n}) = Total(txs, I) + row.amount
    BY AddedTotal
  <1>5. Total(txs', Credits(S)') = Total(txs, Credits(S)) + Credit(row, S)
    <2>1. CASE row.destination \in S /\ row.status = "completed"
      <3>1. Credits(S)' = Credits(S) \cup {n}
        BY <2>1 DEF Credits, Extended
      <3>2. Total(txs', Credits(S) \cup {n}) = Total(txs, Credits(S)) + row.amount
        BY <1>1, <1>3
      <3> QED  BY <2>1, <3>1, <3>2 DEF Credit
    <2>2. CASE ~(row.destination \in S /\ row.status = "completed")
      <3>1. Credits(S)' = Credits(S)
        BY <2>2 DEF Credits, Extended
      <3>2. Total(txs', Credits(S)) = Total(txs, Credits(S)) /\ Credit(row, S) = 0
        BY <1>1, <1>3, <2>2 DEF Credit
      <3> QED  BY <1>1, <3>1, <3>2
    <2> QED  BY <2>1, <2>2
  <1>6. Total(txs', Debits(S)') = Total(txs, Debits(S)) + Debit(row, S)
    <2>1. CASE row.source \in S /\ row.status # "canceled"
      <3>1. Debits(S)' = Debits(S) \cup {n}
        BY <2>1 DEF Debits, Extended
      <3>2. Total(txs', Debits(S) \cup {n}) = Total(txs, Debits(S)) + row.amount
        BY <1>1, <1>3
      <3> QED  BY <2>1, <3>1, <3>2 DEF Debit
    <2>2. CASE ~(row.source \in S /\ row.status # "canceled")
      <3>1. Debits(S)' = Debits(S)
        BY <2>2 DEF Debits, Extended
      <3>2. Total(txs', Debits(S)) = Total(txs, Debits(S)) /\ Debit(row, S) = 0
        BY <1>1, <1>3, <2>2 DEF Debit
      <3> QED  BY <1>1, <3>1, <3>2
    <2> QED  BY <2>1, <2>2
  <1>7. Credit(row, S) \in Nat /\ Debit(row, S) \in Nat
    BY <1>2 DEF Credit, Debit
  <1>8. BalanceOf(S)' = Total(txs', Credits(S)') - Total(txs', Debits(S)')
    BY DEF BalanceOf
  <1> QED  BY <1>1, <1>5, <1>6, <1>7, <1>8 DEF BalanceOf

\* The row i is settled: nothing else changes.
Settled(i, status) ==
    /\ txs[i].status = "pending" /\ txs[i].destination = None /\ txs'[i].status = status
    /\ DOMAIN txs' = DOMAIN txs
    /\ \A j \in DOMAIN txs \ {i} : txs'[j] = txs[j]
    /\ txs'[i].amount = txs[i].amount /\ txs'[i].source = txs[i].source
    /\ txs'[i].type = txs[i].type /\ txs'[i].destination = None

\* What submit_onchain writes settles the row.
LEMMA RowSettled ==
    ASSUME txs \in Seq(Rows), NEW i \in DOMAIN txs, txs[i].status = "pending",
           txs[i].destination = None,
           NEW status \in {"completed", "canceled"}, NEW version \in Nat,
           txs' = [txs EXCEPT ![i] = [@ EXCEPT !.status = status, !.version = version]]
    PROVE  Settled(i, status)
  <1>1. PICK row : row = [txs[i] EXCEPT !.status = status, !.version = version]
    OBVIOUS
  <1>2. txs[i] \in Rows
    OBVIOUS
  <1>3. /\ row \in Rows /\ row.status = status /\ row.amount = txs[i].amount
        /\ row.source = txs[i].source /\ row.destination = None /\ row.type = txs[i].type
    BY <1>1, <1>2 DEF Rows
  <1>4. txs' = [txs EXCEPT ![i] = row]
    BY <1>1
  <1>5. /\ DOMAIN txs' = DOMAIN txs /\ txs'[i] = row /\ \A j \in DOMAIN txs \ {i} : txs'[j] = txs[j]
    BY <1>3, <1>4
  <1> QED  BY <1>3, <1>5 DEF Settled

\* Its amount goes back to its source unless it was paid.
LEMMA SettledTotals ==
    ASSUME Table(txs), NEW i \in DOMAIN txs, NEW status \in {"completed", "canceled"},
           Settled(i, status), NEW S, None \notin S
    PROVE  /\ txs[i].source \in S /\ status = "canceled"
              => BalanceOf(S)' = BalanceOf(S) + txs[i].amount
           /\ ~(txs[i].source \in S /\ status = "canceled") => BalanceOf(S)' = BalanceOf(S)
           /\ \A I \in SUBSET DOMAIN txs : Total(txs', I) = Total(txs, I)
  <1>6. \A I \in SUBSET DOMAIN txs : Total(txs', I) = Total(txs, I)
    <2> SUFFICES ASSUME NEW I \in SUBSET DOMAIN txs PROVE Total(txs', I) = Total(txs, I)
      OBVIOUS
    <2>1. \A j \in I : txs'[j].amount = txs[j].amount
      BY DEF Settled
    <2> QED  BY <2>1, TotalSame
  <1>7. Credits(S)' = Credits(S)
    BY DEF Credits, Settled
  <1>8. /\ Credits(S) \in SUBSET DOMAIN txs /\ Debits(S) \in SUBSET DOMAIN txs
        /\ Total(txs, Debits(S)) \in Nat /\ BalanceOf(S) \in Int
    BY BalanceType
  <1>9. Total(txs', Credits(S)') = Total(txs, Credits(S)) /\ Total(txs, Credits(S)) \in Nat
    BY <1>6, <1>7, BalanceType
  <1>10. ASSUME txs[i].source \in S, status = "canceled"
         PROVE  BalanceOf(S)' = BalanceOf(S) + txs[i].amount
    <2>1. Debits(S)' = Debits(S) \ {i} /\ i \in Debits(S)
      BY <1>10 DEF Debits, Settled
    <2>2. PICK I : I = Debits(S) \ {i}
      OBVIOUS
    <2>3. I \in SUBSET DOMAIN txs /\ i \notin I /\ I \cup {i} = Debits(S)
      BY <1>8, <2>1, <2>2
    <2>4. txs[i].amount \in Amounts /\ txs[i].amount \in Nat
      BY LargestAmount DEF Table
    <2>5. IsFiniteSet(I) /\ Total(txs, I) \in Nat
      BY <2>3, TableTotal
    <2>6. Total(txs, I \cup {i}) = Total(txs, I) + txs[i].amount
      BY <2>3, <2>4, <2>5, TotalAdd
    <2>7. Total(txs', Debits(S)') = Total(txs, I)
      BY <1>6, <2>1, <2>2, <2>3
    <2> QED  BY <1>9, <2>3, <2>4, <2>5, <2>6, <2>7 DEF BalanceOf
  <1>11. ASSUME ~(txs[i].source \in S /\ status = "canceled")
         PROVE  BalanceOf(S)' = BalanceOf(S)
    <2>1. Debits(S)' = Debits(S)
      BY <1>11 DEF Debits, Settled
    <2> QED  BY <1>6, <1>8, <1>9, <2>1 DEF BalanceOf
  <1> QED  BY <1>6, <1>10, <1>11

-----------------------------------------------------------------------------
(* No account is overdrawn by more than the bound.                         *)

\* What an account may spend, of what was not promised to its travel rule payments.
Margin(a) == CalcAccountBalance(a) + Total(txs, OffchainDebits(a)) - Total(web, Writing(a))

\* Its parts are numbers.
LEMMA MarginParts ==
    ASSUME TypeOK, NEW a
    PROVE  /\ CalcAccountBalance(a) \in Int /\ Total(txs, OffchainDebits(a)) \in Nat
           /\ OffchainDebits(a) \in SUBSET DOMAIN txs
           /\ Total(web, Writing(a)) \in Nat /\ Margin(a) \in Int
           /\ Writing(a) \in SUBSET Threads /\ IsFiniteSet(Writing(a))
           /\ \A t \in Writing(a) : web[t].amount \in Amounts
           /\ Cardinality(Threads) \in Nat /\ Cardinality(Threads) >= 1
  <1>1. Table(txs)
    BY RowTable DEF TypeOK
  <1>2. CalcAccountBalance(a) \in Int
    BY <1>1, BalanceType DEF CalcAccountBalance
  <1>3. OffchainDebits(a) \in SUBSET DOMAIN txs
    BY DEF OffchainDebits
  <1>4. Total(txs, OffchainDebits(a)) \in Nat
    BY <1>1, <1>3, TableTotal
  <1>5. IsFiniteSet(Threads) /\ Threads # {}
    BY TransactionsAssumption
  <1>6. Writing(a) \in SUBSET Threads /\ IsFiniteSet(Writing(a))
    <2>1. Writing(a) \in SUBSET Threads
      BY DEF Writing
    <2> QED  BY <1>5, <2>1, FS_Subset
  <1>7. Total(web, Writing(a)) \in Nat
    BY <1>6, TotalBound
  <1>8. \A t \in Writing(a) : web[t].amount \in Amounts
    BY DEF TypeOK, Writing, WebRequests, Idle
  <1>9. Cardinality(Threads) \in Nat /\ Cardinality(Threads) # 0
    BY <1>5, FS_CardinalityType, FS_EmptySet
  <1>10. Margin(a) \in Int
    BY <1>2, <1>4, <1>7 DEF Margin
  <1> QED  BY <1>2, <1>3, <1>4, <1>6, <1>7, <1>8, <1>9, <1>10

\* A row that is added, unless it takes money that was not reserved.
LEMMA MarginAdded ==
    ASSUME TypeOK, NEW row \in Rows, txs' = Append(txs, row), NEW a
    PROVE  /\ row.source # a \/ row.type = "offchain"
                => CalcAccountBalance(a)' + Total(txs', OffchainDebits(a)')
                      >= CalcAccountBalance(a) + Total(txs, OffchainDebits(a))
           /\ CalcAccountBalance(a)' + Total(txs', OffchainDebits(a)')
                      >= CalcAccountBalance(a) + Total(txs, OffchainDebits(a)) - row.amount
           /\ CalcAccountBalance(a)' + Total(txs', OffchainDebits(a)') \in Int
  <1> DEFINE n == Len(txs) + 1
             B == CalcAccountBalance(a)
             D == Total(txs, OffchainDebits(a))
             BB == CalcAccountBalance(a)'
             DD == Total(txs', OffchainDebits(a)')
  <1>1. Table(txs) /\ Extended(txs, txs', n, row) /\ row.amount \in Amounts /\ row.amount \in Nat
    <2>1. txs \in Seq(Rows)
      BY DEF TypeOK
    <2>2. Table(txs) /\ Extended(txs, txs', n, row)
      BY <2>1, RowTable, RowExtends
    <2>3. row.amount \in Amounts
      BY DEF Rows
    <2> QED  BY <2>2, <2>3, LargestAmount
  <1>2. B \in Int /\ D \in Nat /\ OffchainDebits(a) \in SUBSET DOMAIN txs
    BY MarginParts
  <1> HIDE DEF n
  <1>3. BB = B + Credit(row, {a}) - Debit(row, {a}) /\ Credit(row, {a}) \in Nat
        /\ Debit(row, {a}) \in Nat
    BY <1>1, AddedBalance DEF CalcAccountBalance
  <1>4. Debit(row, {a}) <= row.amount /\ (row.source # a => Debit(row, {a}) = 0)
    BY <1>1 DEF Debit
  <1>5. \A I \in SUBSET DOMAIN txs :
           Total(txs', I) = Total(txs, I) /\ Total(txs', I \cup {n}) = Total(txs, I) + row.amount
    BY <1>1, AddedTotal
  <1>6. ASSUME row.source = a, row.type = "offchain" PROVE DD = D + row.amount
    <2>1. OffchainDebits(a)' = OffchainDebits(a) \cup {n}
      BY <1>1, <1>6 DEF OffchainDebits, Extended
    <2> QED  BY <1>2, <1>5, <2>1
  <1>7. ASSUME row.source # a \/ row.type # "offchain" PROVE DD = D
    <2>1. OffchainDebits(a)' = OffchainDebits(a)
      BY <1>1, <1>7 DEF OffchainDebits, Extended
    <2> QED  BY <1>2, <1>5, <2>1
  <1> HIDE DEF B, D, BB, DD
  <1>8. PICK c \in Nat, d \in Nat : c = Credit(row, {a}) /\ d = Debit(row, {a})
    BY <1>3
  <1>9. BB = B + c - d /\ d <= row.amount /\ (row.source # a => d = 0)
        /\ (DD = D \/ DD = D + row.amount)
    BY <1>3, <1>4, <1>6, <1>7, <1>8
  <1>10. BB + DD \in Int /\ BB + DD >= B + D - row.amount
    BY <1>1, <1>2, <1>9
  <1>11. ASSUME row.source # a \/ row.type = "offchain" PROVE BB + DD >= B + D
    <2>1. CASE row.source # a
      BY <1>2, <1>7, <1>9, <2>1
    <2>2. CASE row.source = a
      BY <1>1, <1>2, <1>6, <1>9, <1>11, <2>2
    <2> QED  BY <2>1, <2>2
  <1> QED  BY <1>10, <1>11 DEF B, D, BB, DD

\* A row that is settled.
LEMMA MarginSettled ==
    ASSUME TypeOK, NEW i \in DOMAIN txs, NEW status \in {"completed", "canceled"},
           Settled(i, status), NEW a \in Accounts
    PROVE  /\ CalcAccountBalance(a)' + Total(txs', OffchainDebits(a)')
                      >= CalcAccountBalance(a) + Total(txs, OffchainDebits(a))
           /\ CalcAccountBalance(a)' + Total(txs', OffchainDebits(a)') \in Int
  <1> DEFINE B == CalcAccountBalance(a)
             D == Total(txs, OffchainDebits(a))
             BB == CalcAccountBalance(a)'
             DD == Total(txs', OffchainDebits(a)')
  <1>1. Table(txs) /\ None \notin {a}
    BY RowTable, TransactionsAssumption DEF TypeOK
  <1>2. B \in Int /\ D \in Nat /\ OffchainDebits(a) \in SUBSET DOMAIN txs
    BY MarginParts
  <1>3. txs[i].amount \in Nat
    BY <1>1, LargestAmount DEF Table
  <1>4. /\ BB = B + txs[i].amount \/ BB = B
        /\ \A I \in SUBSET DOMAIN txs : Total(txs', I) = Total(txs, I)
    BY <1>1, SettledTotals DEF CalcAccountBalance
  <1>5. OffchainDebits(a)' = OffchainDebits(a)
    BY DEF OffchainDebits, Settled
  <1>6. DD = D
    BY <1>2, <1>4, <1>5
  <1> HIDE DEF B, D, BB, DD
  <1>7. BB + DD \in Int /\ BB + DD >= B + D
    BY <1>2, <1>3, <1>4, <1>6
  <1> QED  BY <1>7 DEF B, D, BB, DD

\* The requests of the other threads.
LEMMA WritingSame ==
    ASSUME TypeOK, NEW a, Writing(a)' = Writing(a), \A t \in Writing(a) : web'[t] = web[t]
    PROVE  Total(web', Writing(a)') = Total(web, Writing(a))
  <1>1. \A t \in Writing(a) : web'[t].amount = web[t].amount
    OBVIOUS
  <1>2. Total(web', Writing(a)) = Total(web, Writing(a))
    BY <1>1, TotalSame
  <1> QED  BY <1>2

\* The bound on what the threads overdraw.
LEMMA BoundType ==
    ASSUME IsFiniteSet(Threads), Threads # {}
    PROVE  (Cardinality(Threads) - 1) * Largest \in Nat
  <1>1. Cardinality(Threads) \in Nat /\ Cardinality(Threads) # 0
    BY FS_CardinalityType, FS_EmptySet
  <1>2. Largest \in Nat
    BY LargestAmount
  <1>3. \A m, n \in Nat : m # 0 => (m - 1) * n \in Nat
    OBVIOUS
  <1> QED  BY <1>1, <1>2, <1>3

\* The invariant is a bound on the margins.
LEMMA MarginInv ==
    ASSUME TypeOK
    PROVE  OverdraftInv <=> \A a \in Accounts \ {Inventory} :
                               Margin(a) >= -((Cardinality(Threads) - 1) * Largest)
  <1>1. PICK b \in Nat : b = (Cardinality(Threads) - 1) * Largest
    BY BoundType, TransactionsAssumption
  <1>2. \A x, y, z \in Int : x + y >= z - b <=> x + y - z >= -b
    BY <1>1
  <1>3. ASSUME NEW a \in Accounts
        PROVE  CalcAccountBalance(a) + Total(txs, OffchainDebits(a)) >= Total(web, Writing(a)) - b
                   <=> Margin(a) >= -b
    <2>1. /\ CalcAccountBalance(a) \in Int /\ Total(txs, OffchainDebits(a)) \in Int
          /\ Total(web, Writing(a)) \in Int
      BY MarginParts
    <2> QED  BY <1>2, <2>1 DEF Margin
  <1> QED  BY <1>1, <1>3 DEF OverdraftInv

\* Its parts are numbers.
MarginTypes ==
    \A a \in Accounts : /\ CalcAccountBalance(a) \in Int /\ Total(txs, OffchainDebits(a)) \in Int
                         /\ Total(web, Writing(a)) \in Int

\* They are, in a state of its type.
LEMMA MarginTypesHold == TypeOK => MarginTypes
  BY MarginParts DEF MarginTypes

\* So are they after a step to such a state.
LEMMA MarginTypesNext == TypeOK' => MarginTypes'
  BY MarginTypesHold, PTL

\* A step after which no thread is about to spend more.
LEMMA MarginKept ==
    ASSUME TypeOK, TypeOK', NEW a \in Accounts, NEW b \in Nat, Margin(a) >= -b,
           CalcAccountBalance(a)' + Total(txs', OffchainDebits(a)')
              >= CalcAccountBalance(a) + Total(txs, OffchainDebits(a)),
           Total(web', Writing(a)') <= Total(web, Writing(a))
    PROVE  Margin(a)' >= -b
  <1>1. /\ CalcAccountBalance(a) \in Int /\ Total(txs, OffchainDebits(a)) \in Int
        /\ Total(web, Writing(a)) \in Int
    BY MarginTypesHold DEF MarginTypes
  <1>3. /\ CalcAccountBalance(a)' \in Int /\ Total(txs', OffchainDebits(a)') \in Int
        /\ Total(web', Writing(a)') \in Int
    BY MarginTypesNext DEF MarginTypes
  <1>4. \A x, y, z, xx, yy, zz \in Int :
           x + y - z >= -b /\ xx + yy >= x + y /\ zz <= z => xx + yy - zz >= -b
    OBVIOUS
  <1>5. Margin(a)' = CalcAccountBalance(a)' + Total(txs', OffchainDebits(a)')
                       - Total(web', Writing(a)')
    BY DEF Margin
  <1> QED  BY <1>1, <1>3, <1>4, <1>5 DEF Margin

\* A request that is checked spends what the account has.
LEMMA OverdraftSend ==
    ASSUME IInv, IInv', NEW t \in Threads, NEW from \in Accounts, NEW to \in Parties,
           NEW n \in Amounts,
           SendTransaction(t, from, to, n), NEW a \in Accounts, NEW b \in Nat,
           b = (Cardinality(Threads) - 1) * Largest, Margin(a) >= -b
    PROVE  Margin(a)' >= -b
  <1>1. TypeOK /\ TypeOK' /\ txs' = txs /\ web[t] = Idle
    BY DEF IInv, SendTransaction
  <1>2. /\ CalcAccountBalance(a)' = CalcAccountBalance(a)
        /\ Total(txs', OffchainDebits(a)') = Total(txs, OffchainDebits(a))
    BY <1>1 DEF CalcAccountBalance, BalanceOf, Credits, Debits, OffchainDebits
  <1>3. /\ CalcAccountBalance(a) \in Int /\ Total(txs, OffchainDebits(a)) \in Nat
        /\ Total(web, Writing(a)) \in Nat
        /\ Writing(a) \in SUBSET Threads /\ IsFiniteSet(Writing(a))
    BY <1>1, MarginParts
  <1>4. CASE web' = web
    <2>1. Writing(a)' = Writing(a)
      BY <1>4 DEF Writing
    <2> QED  BY <1>1, <1>2, <1>3, <1>4, <2>1, MarginKept
  <1>5. CASE web' = [web EXCEPT ![t] = [pc |-> "write", from |-> from, to |-> to, amount |-> n]]
    <2>1. /\ web'[t].pc = "write" /\ web'[t].from = from /\ web'[t].amount = n
          /\ \A u \in Threads \ {t} : web'[u] = web[u]
      BY <1>1, <1>5 DEF TypeOK
    <2>2. t \notin Writing(a)
      BY <1>1 DEF Writing, Idle
    <2>3. CASE a # from
      <3>1. Writing(a)' = Writing(a) /\ \A u \in Writing(a) : web'[u] = web[u]
        BY <2>1, <2>2, <2>3 DEF Writing
      <3>2. Total(web', Writing(a)') = Total(web, Writing(a))
        BY <1>1, <3>1, WritingSame
      <3> QED  BY <1>1, <1>2, <1>3, <3>2, MarginKept
    <2>4. CASE a = from
      <3>1. Writing(a)' = Writing(a) \cup {t}
        BY <2>1, <2>2, <2>4 DEF Writing
      <3>2. \A u \in Writing(a) : web'[u].amount = web[u].amount
        BY <1>3, <2>1, <2>2
      <3>3. Total(web', Writing(a)) = Total(web, Writing(a))
        BY <3>2, TotalSame
      <3>4. Total(web', Writing(a)') = Total(web, Writing(a)) + n
        BY <1>3, <2>1, <2>2, <3>1, <3>3, TotalAdd
      <3>5. Total(web, Writing(a)) <= b
        <4>1. Total(web, Writing(a)) <= Cardinality(Writing(a)) * Largest
          BY <1>3, TotalBound
        <4>2. Cardinality(Writing(a)) \in Nat /\ Cardinality(Writing(a)) <= Cardinality(Threads) - 1
          <5>1. Threads \ {t} \subseteq Threads /\ Writing(a) \subseteq Threads \ {t}
            BY <1>3, <2>2
          <5>2. IsFiniteSet(Threads)
            BY TransactionsAssumption
          <5>3. /\ IsFiniteSet(Threads \ {t})
                /\ Cardinality(Threads \ {t}) = Cardinality(Threads) - 1
            BY <5>2, FS_RemoveElement
          <5> QED  BY <1>3, <5>1, <5>3, FS_Subset, FS_CardinalityType
        <4>3. Cardinality(Threads) \in Nat /\ Largest \in Nat
          BY TransactionsAssumption, FS_CardinalityType, LargestAmount
        <4>4. \A k, m, l \in Nat : k <= m - 1 => k * l <= (m - 1) * l
          OBVIOUS
        <4>5. Cardinality(Writing(a)) * Largest <= (Cardinality(Threads) - 1) * Largest
          BY <4>2, <4>3, <4>4
        <4>6. PICK k \in Int : k = Cardinality(Writing(a)) * Largest
          BY <4>2, <4>3
        <4> QED  BY <1>3, <4>1, <4>5, <4>6
      <3>6. n <= CalcAccountBalance(a) /\ n \in Nat
        BY <2>4, LargestAmount DEF SendTransaction, ValidateBalance
      <3>7. \A x, y, z \in Int : y >= 0 /\ z <= b /\ n <= x => x + y - (z + n) >= -b
        BY <3>6
      <3>8. Margin(a)' = CalcAccountBalance(a) + Total(txs, OffchainDebits(a))
                            - (Total(web, Writing(a)) + n)
        BY <1>2, <3>4 DEF Margin
      <3> QED  BY <1>3, <3>5, <3>6, <3>7, <3>8
    <2> QED  BY <2>3, <2>4
  <1> QED  BY <1>4, <1>5 DEF SendTransaction

\* Its row takes what it was about to spend.
LEMMA OverdraftAdd ==
    ASSUME IInv, IInv', NEW t \in Threads, AddTransaction(t), NEW a \in Accounts, NEW b \in Nat,
           Margin(a) >= -b
    PROVE  Margin(a)' >= -b
  <1> DEFINE r == web[t]
             row == IF r.to = None
                    THEN Row("external", "pending", r.amount, r.from, None, 0, 0)
                    ELSE Row("internal", "completed", r.amount, r.from, r.to, 0, 0)
             request == IF r.to = None THEN [pc |-> "enqueue", row |-> Len(txs) + 1] ELSE Idle
  <1>1. TypeOK /\ TypeOK' /\ txs' = Append(txs, row) /\ web' = [web EXCEPT ![t] = request]
    BY DEF IInv, AddTransaction
  <1>2. r.from \in Accounts /\ r.to \in Parties /\ r.amount \in Amounts /\ r.pc = "write"
    BY DEF AddTransaction, IInv, TypeOK, WebRequests, Idle
  <1>3. row \in Rows /\ row.source = r.from /\ row.amount = r.amount /\ request.pc # "write"
    BY <1>2 DEF Row, Rows, Parties, Idle
  <1>4. /\ web'[t].pc # "write" /\ \A u \in Threads \ {t} : web'[u] = web[u]
    BY <1>1, <1>3 DEF TypeOK
  <1> HIDE DEF request, row
  <1>5. /\ row.source # a \/ row.type = "offchain"
                => CalcAccountBalance(a)' + Total(txs', OffchainDebits(a)')
                      >= CalcAccountBalance(a) + Total(txs, OffchainDebits(a))
        /\ CalcAccountBalance(a)' + Total(txs', OffchainDebits(a)')
                      >= CalcAccountBalance(a) + Total(txs, OffchainDebits(a)) - row.amount
    BY <1>1, <1>3, MarginAdded
  <1>6. CASE r.from # a
    <2>1. Writing(a)' = Writing(a) /\ \A u \in Writing(a) : web'[u] = web[u]
      BY <1>4, <1>6 DEF Writing
    <2>2. Total(web', Writing(a)') = Total(web, Writing(a)) /\ Total(web, Writing(a)) \in Nat
      BY <1>1, <2>1, WritingSame, MarginParts
    <2>3. /\ Total(web', Writing(a)') <= Total(web, Writing(a))
          /\ CalcAccountBalance(a)' + Total(txs', OffchainDebits(a)')
                >= CalcAccountBalance(a) + Total(txs, OffchainDebits(a))
      BY <1>3, <1>5, <1>6, <2>2
    <2> HIDE DEF r
    <2> QED  BY <1>1, <2>3, MarginKept
  <1>7. CASE r.from = a
    <2>1. Writing(a)' = Writing(a) \ {t} /\ t \in Writing(a)
      BY <1>2, <1>4, <1>7 DEF Writing
    <2>2. PICK W : W = Writing(a)'
      OBVIOUS
    <2>3. t \notin W /\ W \cup {t} = Writing(a) /\ W \subseteq Writing(a) /\ IsFiniteSet(Writing(a))
      BY <1>1, <2>1, <2>2, MarginParts
    <2>4. IsFiniteSet(W)
      BY <2>3, FS_Subset
    <2>5. Total(web, Writing(a)) = Total(web, W) + r.amount /\ Total(web, W) \in Nat
      BY <1>2, <2>3, <2>4, TotalAdd
    <2>6. \A u \in W : web'[u].amount = web[u].amount
      BY <1>4, <2>3 DEF Writing
    <2>7. Total(web', Writing(a)') = Total(web, W)
      BY <2>2, <2>6, TotalSame
    <2>8. /\ CalcAccountBalance(a) \in Int /\ Total(txs, OffchainDebits(a)) \in Int
          /\ CalcAccountBalance(a)' \in Int /\ Total(txs', OffchainDebits(a)') \in Int
      BY <1>1, MarginTypesHold, MarginTypesNext DEF MarginTypes
    <2>9. r.amount \in Nat
      BY <1>2, LargestAmount
    <2>10. Margin(a) = CalcAccountBalance(a) + Total(txs, OffchainDebits(a))
                            - (Total(web, W) + r.amount)
      BY <2>5 DEF Margin
    <2>11. Margin(a)' = CalcAccountBalance(a)' + Total(txs', OffchainDebits(a)') - Total(web, W)
      BY <2>7 DEF Margin
    <2>12. \A x, y, xx, yy, z, n \in Int :
              x + y - (z + n) >= -b /\ xx + yy >= x + y - n => xx + yy - z >= -b
      OBVIOUS
    <2> HIDE DEF r
    <2> QED  BY <1>3, <1>5, <2>5, <2>8, <2>9, <2>10, <2>11, <2>12
  <1> QED  BY <1>6, <1>7

\* Steps that leave the table alone and check no balance.
LEMMA OverdraftStill ==
    ASSUME IInv, IInv', txs' = txs, NEW a \in Accounts, NEW b \in Nat, Margin(a) >= -b,
           \A t \in Threads : web'[t].pc = "write" => web'[t] = web[t],
           \/ \A t \in Threads : web[t].pc = "write" => web'[t] = web[t]
           \/ web' = [t \in Threads |-> Idle]
    PROVE  Margin(a)' >= -b
  <1>1. TypeOK /\ TypeOK'
    BY DEF IInv
  <1>2. /\ CalcAccountBalance(a)' = CalcAccountBalance(a)
        /\ Total(txs', OffchainDebits(a)') = Total(txs, OffchainDebits(a))
    BY <1>1 DEF CalcAccountBalance, BalanceOf, Credits, Debits, OffchainDebits
  <1>3. Total(web, Writing(a)) \in Nat /\ CalcAccountBalance(a) \in Int
        /\ Total(txs, OffchainDebits(a)) \in Int
    BY <1>1, MarginParts
  <1>4. Total(web', Writing(a)') <= Total(web, Writing(a))
    <2>1. CASE \A t \in Threads : web[t].pc = "write" => web'[t] = web[t]
      <3>1. Writing(a)' = Writing(a) /\ \A u \in Writing(a) : web'[u] = web[u]
        BY <2>1 DEF Writing
      <3> QED  BY <1>1, <1>3, <3>1, WritingSame
    <2>2. CASE web' = [t \in Threads |-> Idle]
      <3>1. Writing(a)' = {}
        BY <2>2 DEF Writing, Idle
      <3> QED  BY <1>3, <3>1, TotalNone
    <2> QED  BY <2>1, <2>2
  <1> QED  BY <1>1, <1>2, <1>3, <1>4, MarginKept

\* Rows that take nothing that was not reserved, and rows that are settled.
LEMMA OverdraftTable ==
    ASSUME IInv, IInv', web' = web, NEW a \in Accounts, NEW b \in Nat, Margin(a) >= -b,
           \/ \E row \in Rows : txs' = Append(txs, row) /\ (row.source # a \/ row.type = "offchain")
           \/ \E i \in DOMAIN txs, status \in {"completed", "canceled"} : Settled(i, status)
    PROVE  Margin(a)' >= -b
  <1>1. TypeOK /\ TypeOK'
    BY DEF IInv
  <1>2. Writing(a)' = Writing(a) /\ Total(web, Writing(a)) \in Nat
    BY <1>1, MarginParts DEF Writing
  <1>3. CalcAccountBalance(a)' + Total(txs', OffchainDebits(a)')
              >= CalcAccountBalance(a) + Total(txs, OffchainDebits(a))
    BY <1>1, MarginAdded, MarginSettled
  <1> QED  BY <1>1, <1>2, <1>3, MarginKept

\* What is booked takes money from nobody.
LEMMA BookedRow ==
    ASSUME IInv, NEW w \in Workers, Book(w)
    PROVE  \E row \in Rows : /\ txs' = Append(txs, row) /\ row = IncomingRow(worker[w].job.of)
                             /\ row.source = None
  <1>1. /\ worker[w].pc = "book" /\ txs' = Append(txs, IncomingRow(worker[w].job.of))
    BY DEF Book
  <1>2. IncomingRow(worker[w].job.of) \in Rows /\ worker[w].job.of \in DOMAIN chain
    BY <1>1, IncomingRowType
  <1>3. chain[worker[w].job.of].kind \in {"deposit", "refund"}
    BY <1>1 DEF IInv, WorkersInv, WorkerInv
  <1>4. IncomingRow(worker[w].job.of).source = None
    <2>1. PICK v : v = worker[w].job.of
      OBVIOUS
    <2>2. CASE chain[v].kind = "refund"
      <3>1. PICK i : i = CHOOSE k \in RowsOfVersion(chain[v].of) : TRUE
        OBVIOUS
      <3>2. IncomingRow(v) = Row("refund", "completed", chain[v].amount, None, txs[i].source, v, i)
        BY <2>2, <3>1 DEF IncomingRow
      <3> QED  BY <2>1, <3>2 DEF Row
    <2>3. CASE chain[v].kind = "deposit"
      <3>1. IncomingRow(v) = IF chain[v].to = None
              THEN Row("external", "need_refund", chain[v].amount, None, Inventory, v, 0)
              ELSE Row("external", "completed", chain[v].amount, None, chain[v].to, v, 0)
        BY <2>3 DEF IncomingRow
      <3> QED  BY <2>1, <3>1 DEF Row
    <2> QED  BY <1>3, <2>1, <2>2, <2>3
  <1> QED  BY <1>1, <1>2, <1>4

\* A worker's wait ends with its row settled.
LEMMA WaitedRow ==
    ASSUME IInv, NEW w \in Workers, SubmitDone(w) \/ SubmitFailed(w) \/ SubmitTimeout(w)
    PROVE  \E i \in DOMAIN txs, status \in {"completed", "canceled"} :
              /\ i = worker[w].job.of /\ Settled(i, status) /\ worker[w].pc = "wait"
              /\ status = "completed" <=> SubmitDone(w)
              /\ SubmitDone(w) => txs'[i].version \in Executed(w)
              /\ ~SubmitDone(w) => txs'[i].version = txs[i].version
  <1>1. PICK i : i = worker[w].job.of
    OBVIOUS
  <1>2. worker[w].pc = "wait"
    BY DEF SubmitDone, SubmitFailed, SubmitTimeout
  <1>3. /\ i \in DOMAIN txs /\ txs[i] \in Rows /\ txs[i].status = "pending"
        /\ txs[i].destination = None
        /\ txs \in Seq(Rows) /\ txs[i].version = 0
    <2>1. /\ Busy(w) /\ worker[w].job.actor = "async_external_transaction"
          /\ txs[i].status = "pending"
      BY <1>1, <1>2 DEF Busy, IInv, WorkersInv, WorkerInv
    <2> QED BY <1>1, <2>1, WorkerTypes DEF JobInv, IInv, TypeOK, RowsInv
  <1>4. CASE SubmitDone(w)
    <2>1. PICK v \in Executed(w) :
             txs' = [txs EXCEPT ![i].status = "completed", ![i].version = v]
      BY <1>1, <1>4 DEF SubmitDone
    <2>2. v \in Nat
      BY DEF Executed, IInv, TypeOK
    <2>3. txs' = [txs EXCEPT ![i] = [@ EXCEPT !.status = "completed", !.version = v]]
      BY <1>3, <2>1
    <2>4. Settled(i, "completed")
      BY <1>3, <2>2, <2>3, RowSettled
    <2>5. txs'[i].version = v
      BY <1>3, <2>3 DEF Rows
    <2> QED BY <1>1, <1>2, <1>3, <1>4, <2>1, <2>4, <2>5
  <1>5. CASE ~SubmitDone(w)
    <2>1. txs' = [txs EXCEPT ![i].status = "canceled"]
      BY <1>1, <1>5 DEF SubmitFailed, SubmitTimeout, Cancel
    <2>2. txs[i].version \in Nat
      BY <1>3 DEF Rows
    <2>3. txs' = [txs EXCEPT ![i] = [@ EXCEPT !.status = "canceled", !.version = txs[i].version]]
      BY <1>3, <2>1 DEF Rows
    <2>4. Settled(i, "canceled")
      BY <1>3, <2>2, <2>3, RowSettled
    <2>5. txs'[i].version = txs[i].version
      BY <1>3, <2>3 DEF Rows
    <2> QED BY <1>1, <1>2, <1>3, <1>5, <2>4, <2>5
  <1> QED BY <1>4, <1>5

\* A payment command's row reserves nothing but is a travel rule payment.
LEMMA CommandRow ==
    ASSUME IInv, NEW c \in commands, SettleCommand(c)
    PROVE  \E row \in Rows : /\ txs' = Append(txs, row) /\ c.from \in Accounts
              /\ row = Row("offchain", "completed", c.amount, c.from, None, Len(chain) + 1, 0)
  <1>1. c.from \in Accounts /\ c.amount \in Amounts /\ Len(chain) + 1 \in Nat
    BY DEF IInv, TypeOK
  <1>2. Row("offchain", "completed", c.amount, c.from, None, Len(chain) + 1, 0) \in Rows
    BY <1>1 DEF Row, Rows, Parties
  <1> QED  BY <1>1, <1>2 DEF SettleCommand

\* The row of what is sent back takes it from the inventory.
LEMMA RefundRow ==
    ASSUME IInv, NEW w \in Workers, RefundWrite(w)
    PROVE  \E row \in Rows : /\ txs' = Append(txs, row) /\ row.type = "refund"
                             /\ row.status = "pending"
                             /\ row.source = Inventory /\ row.destination = None /\ row.version = 0
  <1>1. PICK job : job = worker[w].job
    OBVIOUS
  <1>2. PICK row : row = Row("refund", "pending", chain[job.of].amount, Inventory, None, 0,
             worker[w].arg)
    OBVIOUS
  <1>3. worker[w].pc = "refund_write" /\ txs' = Append(txs, row)
    BY <1>1, <1>2 DEF RefundWrite
  <1>5. Busy(w) /\ job.actor = "process_incoming_txn"
    BY <1>1, <1>3 DEF Busy, IInv, WorkersInv, WorkerInv
  <1>6. chain[job.of].amount \in Amounts /\ worker[w].arg \in Nat
    BY <1>1, <1>5, WorkerTypes DEF JobInv, IInv, TypeOK, Events
  <1>7. row \in Rows
    BY <1>2, <1>6, TransactionsAssumption DEF Row, Rows, Parties
  <1> QED  BY <1>2, <1>3, <1>7 DEF Row

\* The other steps of the workers.
LEMMA WorkerRest ==
    ASSUME NEW w \in Workers, WorkerStep(w),
           ~Book(w), ~RefundWrite(w), ~SubmitDone(w), ~SubmitFailed(w)
    PROVE  txs' = txs /\ web' = web
  BY DEF WorkerStep, ProcessIncomingTxn, SubmitOnchain, Retry, Refund, RefundEnqueue, Acknowledge,
         Rest

\* No margin is below what the threads may overspend.
MarginOK == \A a \in Accounts \ {Inventory} :
               Margin(a) >= -((Cardinality(Threads) - 1) * Largest)

\* The bound on overdrafts is one on the margins.
LEMMA MarginInvNow == TypeOK => (OverdraftInv <=> MarginOK)
  BY MarginInv DEF MarginOK

\* So it is after a step.
LEMMA MarginInvNext == TypeOK' => (OverdraftInv' <=> MarginOK')
  BY MarginInvNow, PTL

\* Every step keeps the bound: one case for each kind of step of Next.
LEMMA OverdraftKeeps ==
    ASSUME IInv, IInv', OverdraftInv, [Next]_vars
    PROVE  OverdraftInv'
  <1>1. PICK b \in Nat : b = (Cardinality(Threads) - 1) * Largest
    BY BoundType, TransactionsAssumption
  <1>2. TypeOK /\ TypeOK'
    BY DEF IInv
  <1>3. \A a \in Accounts \ {Inventory} : Margin(a) >= -b
    BY <1>1, <1>2, MarginInv
  <1>4. ASSUME NEW a \in Accounts \ {Inventory} PROVE Margin(a)' >= -b
    <2> USE <1>1, <1>3, <1>4
    <2>1. ASSUME NEW t \in Threads, NEW from \in Accounts \ {Inventory}, NEW to \in Parties,
                 NEW n \in Amounts, SendTransaction(t, from, to, n)
          PROVE  Margin(a)' >= -b
      BY <2>1, OverdraftSend
    <2>2. ASSUME NEW t \in Threads, AddTransaction(t) PROVE Margin(a)' >= -b
      BY <2>2, OverdraftAdd
    <2>3. ASSUME txs' = txs, web' = web PROVE Margin(a)' >= -b
      BY <2>3, OverdraftStill
    <2>4. ASSUME NEW t \in Threads, Enqueue(t) PROVE Margin(a)' >= -b
      <3>1. txs' = txs /\ web' = [web EXCEPT ![t] = Idle] /\ web[t].pc = "enqueue"
        BY <2>4 DEF Enqueue
      <3>2. /\ \A u \in Threads : web'[u].pc = "write" => web'[u] = web[u]
            /\ \A u \in Threads : web[u].pc = "write" => web'[u] = web[u]
        BY <1>2, <3>1 DEF TypeOK, Idle
      <3> QED  BY <3>1, <3>2, OverdraftStill
    <2>5. CASE WebRestart
      <3>1. txs' = txs /\ web' = [t \in Threads |-> Idle]
        BY <2>5 DEF WebRestart
      <3>2. \A u \in Threads : web'[u].pc = "write" => web'[u] = web[u]
        BY <3>1 DEF Idle
      <3> QED  BY <3>1, <3>2, OverdraftStill
    <2>6. a # Inventory /\ a # None
      BY TransactionsAssumption
    <2>7. ASSUME NEW c \in commands, SettleCommand(c) PROVE Margin(a)' >= -b
      <3>1. PICK row \in Rows : txs' = Append(txs, row) /\ row.type = "offchain"
        BY <2>7, CommandRow DEF Row
      <3>2. web' = web
        BY <2>7 DEF SettleCommand
      <3> QED  BY <3>1, <3>2, OverdraftTable
    <2>8. ASSUME NEW w \in Workers, Book(w) PROVE Margin(a)' >= -b
      <3>1. PICK row \in Rows : txs' = Append(txs, row) /\ row.source # a
        BY <2>6, <2>8, BookedRow
      <3>2. web' = web
        BY <2>8 DEF Book, Rest
      <3> QED  BY <3>1, <3>2, OverdraftTable
    <2>9. ASSUME NEW w \in Workers, RefundWrite(w) PROVE Margin(a)' >= -b
      <3>1. PICK row \in Rows : txs' = Append(txs, row) /\ row.source # a
        BY <2>6, <2>9, RefundRow
      <3>2. web' = web
        BY <2>9 DEF RefundWrite, Rest
      <3> QED  BY <3>1, <3>2, OverdraftTable
    <2>10. ASSUME NEW w \in Workers, SubmitDone(w) \/ SubmitFailed(w) \/ SubmitTimeout(w)
           PROVE  Margin(a)' >= -b
      <3>1. \E i \in DOMAIN txs, status \in {"completed", "canceled"} : Settled(i, status)
        BY <2>10, WaitedRow
      <3>2. web' = web
        BY <2>10 DEF SubmitDone, SubmitFailed, SubmitTimeout, Cancel, Rest
      <3> QED  BY <3>1, <3>2, OverdraftTable
    <2>11. CASE UserStep
      <3>1. ASSUME NEW to, NEW n, NEW f, Deposit(to, n, f) PROVE txs' = txs /\ web' = web
        BY <3>1 DEF Deposit, Arrive
      <3>2. ASSUME NEW n, PlainDeposit(n) PROVE txs' = txs /\ web' = web
        BY <3>2 DEF PlainDeposit, Arrive
      <3>3. ASSUME NEW v, RefundByPeer(v) PROVE txs' = txs /\ web' = web
        BY <3>3 DEF RefundByPeer, Arrive
      <3> QED  BY <2>1, <2>3, <2>11, <3>1, <3>2, <3>3 DEF UserStep
    <2>12. CASE FaultStep
      <3>1. ASSUME NEW v, Resend(v) PROVE txs' = txs /\ web' = web
        BY <3>1 DEF Resend
      <3>2. ASSUME NEW w, WorkerCrash(w) PROVE txs' = txs /\ web' = web
        BY <3>2 DEF WorkerCrash, Rest
      <3> QED  BY <2>3, <2>5, <2>10, <2>12, <3>1, <3>2 DEF FaultStep
    <2>13. ASSUME NEW w \in Workers, WorkerStep(w) PROVE Margin(a)' >= -b
      BY <2>3, <2>8, <2>9, <2>10, <2>13, WorkerRest
    <2>14. ASSUME NEW p \in pool, Execute(p) PROVE txs' = txs /\ web' = web
      BY <2>14 DEF Execute
    <2>15. CASE UNCHANGED vars
      BY <2>3, <2>15 DEF vars
    <2> QED  BY <2>2, <2>3, <2>4, <2>7, <2>11, <2>12, <2>13, <2>14, <2>15 DEF Next, WebStep
  <1> QED  BY <1>1, <1>2, <1>4, MarginInvNext DEF MarginOK

\* The bound holds as if every request between its balance check and its commit
\* had been committed.
THEOREM OverdraftInvariant == Spec => []OverdraftInv
  <1>1. Init => OverdraftInv
    <2> SUFFICES ASSUME Init PROVE OverdraftInv
      OBVIOUS
    <2>1. TypeOK
      BY Initially DEF IInv
    <2>2. \A a : Credits({a}) = {} /\ Debits({a}) = {} /\ OffchainDebits(a) = {} /\ Writing(a) = {}
      BY DEF Init, Credits, Debits, OffchainDebits, Writing, Idle
    <2>3. \A a : Margin(a) = 0
      <3> SUFFICES ASSUME NEW a PROVE Margin(a) = 0
        OBVIOUS
      <3>1. /\ Total(txs, Credits({a})) = 0 /\ Total(txs, Debits({a})) = 0
            /\ Total(txs, OffchainDebits(a)) = 0 /\ Total(web, Writing(a)) = 0
        BY <2>2, TotalNone
      <3> QED  BY <3>1 DEF Margin, CalcAccountBalance, BalanceOf
    <2>4. PICK b \in Nat : b = (Cardinality(Threads) - 1) * Largest
      BY BoundType, TransactionsAssumption
    <2> QED  BY <2>1, <2>3, <2>4, MarginInv
  <1>2. IInv /\ IInv' /\ OverdraftInv /\ [Next]_vars => OverdraftInv'
    BY OverdraftKeeps
  <1> QED  BY <1>1, <1>2, InvariantHolds, PTL DEF Spec

\* An account is overdrawn by no more than the other web threads can spend and
\* what its travel rule payments take without a reservation.
THEOREM Overdraft == Spec => []OverdraftBounded
  <1>1. IInv /\ OverdraftInv => OverdraftBounded
    <2> SUFFICES ASSUME IInv, OverdraftInv, NEW a \in Accounts \ {Inventory}
                 PROVE  CalcAccountBalance(a) + Total(txs, OffchainDebits(a))
                           >= -((Cardinality(Threads) - 1) * Largest)
      BY DEF OverdraftBounded
    <2>1. PICK b \in Nat : b = (Cardinality(Threads) - 1) * Largest
      BY BoundType, TransactionsAssumption
    <2>2. /\ CalcAccountBalance(a) \in Int /\ Total(txs, OffchainDebits(a)) \in Int
          /\ Total(web, Writing(a)) \in Nat
      BY MarginParts DEF IInv
    <2>3. CalcAccountBalance(a) + Total(txs, OffchainDebits(a)) >= Total(web, Writing(a)) - b
      BY <2>1 DEF OverdraftInv
    <2>4. \A x, y, z \in Int : z >= 0 /\ x + y >= z - b => x + y >= -b
      BY <2>1
    <2> QED  BY <2>1, <2>2, <2>3, <2>4
  <1> QED  BY <1>1, OverdraftInvariant, InvariantHolds, PTL

-----------------------------------------------------------------------------
(* The books balance.                                                      *)

\* The chain is a table too.
LEMMA ChainTable ==
    ASSUME chain \in Seq(Events)
    PROVE  Table(chain) /\ \A v \in DOMAIN chain : chain[v] \in Events /\ v \in Nat \ {0}
  <1>1. PICK n \in Nat : DOMAIN chain = 1..n
    <2>1. Len(chain) \in Nat /\ DOMAIN chain = 1..Len(chain)
      OBVIOUS
    <2> QED  BY <2>1, Zenon
  <1>2. IsFiniteSet(DOMAIN chain)
    <2>1. 1 \in Int /\ n \in Int
      OBVIOUS
    <2> QED  BY <1>1, <2>1, FS_Interval
  <1>3. \A v \in DOMAIN chain : chain[v] \in Events /\ v \in Nat \ {0}
    OBVIOUS
  <1> QED  BY <1>2, <1>3 DEF Events, Table

\* A transfer that is added to it.
LEMMA EventExtends ==
    ASSUME chain \in Seq(Events), NEW event \in Events, chain' = Append(chain, event)
    PROVE  Extended(chain, chain', Len(chain) + 1, event)
  <1>1. ChainKept /\ Len(chain) + 1 \notin DOMAIN chain /\ chain'[Len(chain) + 1] = event
        /\ DOMAIN chain' = DOMAIN chain \cup {Len(chain) + 1}
    BY EventAdded
  <1> QED  BY <1>1 DEF ChainKept, Extended

\* What a transfer that is added changes.
LEMMA ChainGrows ==
    ASSUME NEW v, NEW event, Extended(chain, chain', v, event)
    PROVE  /\ event.kind # "out" => Arrivals' = Arrivals \cup {v} /\ Payouts' = Payouts
           /\ event.kind = "out" => Arrivals' = Arrivals /\ Payouts' = Payouts \cup {v}
           /\ \A i : Paid(i)' <=> Paid(i) \/ (event.kind = "out" /\ event.row = i)
  <1>1. /\ event.kind # "out" => Arrivals' = Arrivals \cup {v} /\ Payouts' = Payouts
        /\ event.kind = "out" => Arrivals' = Arrivals /\ Payouts' = Payouts \cup {v}
    BY DEF Extended, Arrivals, Payouts
  <1>2. Payouts \subseteq DOMAIN chain /\ v \notin DOMAIN chain /\ chain'[v] = event
        /\ \A u \in DOMAIN chain : chain'[u] = chain[u]
    BY DEF Payouts, Extended
  <1>3. ASSUME NEW i PROVE Paid(i)' <=> Paid(i) \/ (event.kind = "out" /\ event.row = i)
    <2>1. CASE event.kind = "out"
      <3>1. Payouts' = Payouts \cup {v}
        BY <1>1, <2>1
      <3>2. Paid(i)' <=> \E u \in Payouts' : chain'[u].row = i
        BY DEF Paid
      <3>3. (\E u \in Payouts : chain'[u].row = i) <=> Paid(i)
        BY <1>2 DEF Paid
      <3>4. (\E u \in Payouts \cup {v} : chain'[u].row = i)
               <=> (\E u \in Payouts : chain'[u].row = i) \/ chain'[v].row = i
        OBVIOUS
      <3>5. chain'[v].row = event.row
        BY <1>2
      <3>6. Paid(i)' <=> Paid(i) \/ event.row = i
        BY <3>1, <3>2, <3>3, <3>4, <3>5
      <3> QED  BY <2>1, <3>6
    <2>2. CASE event.kind # "out"
      <3>1. Payouts' = Payouts
        BY <1>1, <2>2
      <3>2. Paid(i)' <=> \E u \in Payouts' : chain'[u].row = i
        BY DEF Paid
      <3>3. (\E u \in Payouts : chain'[u].row = i) <=> Paid(i)
        BY <1>2 DEF Paid
      <3> QED  BY <2>2, <3>1, <3>2, <3>3
    <2> QED  BY <2>1, <2>2
  <1> QED  BY <1>1, <1>3

\* A worker that waits has a pending row, and nobody else waits for it.
LEMMA WaiterFacts ==
    ASSUME IInv, NEW w, NEW i, NEW s, Waiting(w, i, s)
    PROVE  /\ w \in Workers /\ Busy(w) /\ i \in DOMAIN txs /\ txs[i].status = "pending"
           /\ worker[w].job = External(i) /\ worker[w].job \notin jobs
           /\ \A x \in Workers : worker[x].pc = "wait" /\ worker[x].job.of = i => x = w
  <1>1. w \in Workers /\ worker[w].pc = "wait" /\ worker[w].job.of = i
    BY DEF Waiting
  <1>2. \A x \in Workers : worker[x].pc = "wait"
            => /\ Busy(x) /\ worker[x].job.actor = "async_external_transaction"
               /\ worker[x].job \in Jobs
               /\ txs[worker[x].job.of].status = "pending" /\ JobInv(worker[x].job)
    BY WorkerTypes DEF Busy, IInv, WorkersInv, WorkerInv
  <1>3. \A x \in Workers : worker[x].pc = "wait" => worker[x].job = External(worker[x].job.of)
    BY <1>2 DEF Jobs, External
  <1>4. /\ worker[w].job \notin jobs
        /\ \A x \in Workers : worker[x].pc = "wait" /\ worker[x].job.of = i => x = w
    BY <1>1, <1>2, <1>3 DEF IInv, HoldersInv, Exclusive
  <1> QED  BY <1>1, <1>2, <1>3, <1>4 DEF JobInv

\* Rows and events as before, and nobody stops waiting.
LEMMA BooksStill ==
    ASSUME IInv, BooksInv, UNCHANGED <<txs, chain, seqno>>,
           \A w \in Workers : worker[w].pc = "wait" => worker'[w] = worker[w],
           \A p \in pool' : p \in pool \/ (p.seq \in Nat /\ p.seq < seqno) \/ PoolInv(p)',
           seqno \in Nat,
           \A t \in Threads : web'[t].pc = "write" => web'[t] = web[t] \/ web'[t].from # web'[t].to
    PROVE  BooksInv'
  <1>1. \A w, i, s : Waiting(w, i, s) => Waiting(w, i, s)'
    BY DEF Waiting
  <1>2. Payouts' = Payouts /\ \A i : Paid(i)' <=> Paid(i)
    BY DEF Payouts, Arrivals, Paid
  <1>3. \A i \in DOMAIN txs' : RowInv(i)'
    BY <1>2 DEF BooksInv, RowInv
  <1>4. \A v \in DOMAIN chain' : EventInv(v)'
    BY <1>1, <1>2 DEF BooksInv, EventInv
  <1>5. \A p \in pool' : PoolInv(p)'
    <2> SUFFICES ASSUME NEW p \in pool' PROVE PoolInv(p)'
      OBVIOUS
    <2>1. CASE p \in pool
      BY <1>1, <1>2, <2>1 DEF BooksInv, PoolInv
    <2>2. CASE p.seq \in Nat /\ p.seq < seqno
      BY <2>2 DEF PoolInv
    <2> QED  BY <2>1, <2>2
  <1>6. \A t \in Threads : web'[t].pc = "write" => web'[t].from # web'[t].to
    BY DEF BooksInv
  <1> QED  BY <1>3, <1>4, <1>5, <1>6 DEF BooksInv

\* The rows, the transfers and the submissions that BooksInv is about, after a
\* step that adds to the table or to the chain.
LEMMA BooksGrow ==
    ASSUME IInv, BooksInv, NEW n, NEW v, NEW row, NEW event,
           Extended(txs, txs', n, row) \/ txs' = txs,
           Extended(chain, chain', v, event) \/ chain' = chain,
           worker' = worker,
           web' = web \/ \A t \in Threads : web'[t].pc = "write" => web'[t] = web[t]
    PROVE  /\ \A i \in DOMAIN txs : RowInv(i)'
           /\ \A u \in DOMAIN chain : EventInv(u)'
           /\ \A t \in Threads : web'[t].pc = "write" => web'[t].from # web'[t].to
           /\ \A w, i, s : Waiting(w, i, s) <=> Waiting(w, i, s)'
           /\ \A u \in DOMAIN chain : u \in Payouts <=> u \in Payouts'
  <1>1. /\ \A i \in DOMAIN txs : i \in DOMAIN txs' /\ txs'[i] = txs[i]
        /\ \A u \in DOMAIN chain : u \in DOMAIN chain' /\ chain'[u] = chain[u]
    BY DEF Extended
  <1>2. \A w, i, s : Waiting(w, i, s) <=> Waiting(w, i, s)'
    BY DEF Waiting
  <1>3. \A u \in DOMAIN chain : u \in Payouts <=> u \in Payouts'
    BY <1>1 DEF Payouts, Arrivals
  <1>4. \A i \in DOMAIN txs : RowInv(i)'
    BY <1>1, <1>3 DEF BooksInv, RowInv
  <1>5. \A u \in DOMAIN chain : EventInv(u)'
    <2> SUFFICES ASSUME NEW u \in DOMAIN chain PROVE EventInv(u)'
      OBVIOUS
    <2>1. EventInv(u)
      BY DEF BooksInv
    <2>2. chain[u].kind = "refund" => chain[u].of \in Payouts' 
      BY <1>3, <2>1 DEF EventInv, Payouts
    <2> QED  BY <1>1, <1>2, <2>1, <2>2 DEF EventInv
  <1>6. \A t \in Threads : web'[t].pc = "write" => web'[t].from # web'[t].to
    BY DEF BooksInv
  <1> QED  BY <1>2, <1>3, <1>4, <1>5, <1>6

\* A row that is added, and no transfer.
LEMMA BooksAdd ==
    ASSUME IInv, BooksInv, NEW row \in Rows, txs' = Append(txs, row),
           UNCHANGED <<chain, pool, seqno>>,
           \A t \in Threads : web'[t].pc = "write" => web'[t] = web[t],
           \A w \in Workers : worker[w].pc = "wait" => worker'[w] = worker[w],
           row.status = "pending" => /\ row.source \in Accounts /\ row.destination = None
                                     /\ row.type \in {"external", "refund"},
           row.version = 0 \/ (row.version \in Arrivals /\ row.destination # None)
    PROVE  BooksInv'
  <1> PICK n : n = Len(txs) + 1
    OBVIOUS
  <1>1. Extended(txs, txs', n, row)
    BY RowExtends DEF IInv, TypeOK
  <1>2. /\ \A i \in DOMAIN txs : i \in DOMAIN txs' /\ txs'[i] = txs[i]
        /\ DOMAIN txs' = DOMAIN txs \cup {n} /\ txs'[n] = row
    BY <1>1 DEF Extended
  <1>3. \A w, i, s : Waiting(w, i, s) => Waiting(w, i, s)'
    BY DEF Waiting
  <1>4. Payouts' = Payouts /\ Arrivals' = Arrivals /\ \A i : Paid(i)' <=> Paid(i)
    BY DEF Payouts, Arrivals, Paid
  <1>5. \A i \in DOMAIN txs : RowInv(i)'
    BY <1>2, <1>4 DEF BooksInv, RowInv
  <1>6. RowInv(n)'
    BY <1>2, <1>4 DEF RowInv, Arrivals, Payouts
  <1>7. \A u \in DOMAIN chain' : EventInv(u)'
    BY <1>2, <1>3, <1>4 DEF BooksInv, EventInv
  <1>8. \A p \in pool' : PoolInv(p)'
    <2> SUFFICES ASSUME NEW p \in pool, p.seq >= seqno PROVE PoolInv(p)'
      BY DEF PoolInv
    <2>1. Waiting(p.by, p.row, p.seq) /\ p.amount = txs[p.row].amount /\ ~Paid(p.row)
      BY DEF BooksInv, PoolInv
    <2>2. p.row \in DOMAIN txs
      BY <2>1, WaiterFacts
    <2> QED  BY <1>2, <1>3, <1>4, <2>1, <2>2 DEF PoolInv
  <1>9. \A t \in Threads : web'[t].pc = "write" => web'[t].from # web'[t].to
    BY DEF BooksInv
  <1> QED  BY <1>2, <1>5, <1>6, <1>7, <1>8, <1>9 DEF BooksInv

\* A transfer that is added.
LEMMA BooksArrive ==
    ASSUME IInv, BooksInv, NEW event \in Events, event.kind # "out",
           chain' = Append(chain, event), UNCHANGED <<txs, web, worker, pool, seqno>>,
           event.kind = "refund" => event.of \in Payouts
    PROVE  BooksInv'
  <1> PICK v : v = Len(chain) + 1
    OBVIOUS
  <1>1. Extended(chain, chain', v, event)
    BY EventExtends DEF IInv, TypeOK
  <1>2. /\ \A i \in DOMAIN txs : RowInv(i)'
        /\ \A u \in DOMAIN chain : EventInv(u)'
        /\ \A t \in Threads : web'[t].pc = "write" => web'[t].from # web'[t].to
        /\ \A w, i, s : Waiting(w, i, s) <=> Waiting(w, i, s)'
    BY <1>1, BooksGrow
  <1>3. Payouts' = Payouts /\ \A i : Paid(i)' <=> Paid(i)
    BY <1>1, ChainGrows
  <1>4. EventInv(v)'
    BY <1>1, <1>3 DEF EventInv, Extended
  <1>5. \A p \in pool' : PoolInv(p)'
    BY <1>2, <1>3 DEF BooksInv, PoolInv
  <1>6. DOMAIN txs' = DOMAIN txs /\ DOMAIN chain' = DOMAIN chain \cup {v}
    BY <1>1 DEF Extended
  <1> QED  BY <1>2, <1>4, <1>5, <1>6 DEF BooksInv

\* A payment command is paid and booked.
LEMMA BooksSettle == ASSUME IInv, BooksInv, NEW c \in commands, SettleCommand(c) PROVE BooksInv'
  <1> PICK v, n : v = Len(chain) + 1 /\ n = Len(txs) + 1
    OBVIOUS
  <1> PICK event : event = [kind |-> "out", amount |-> c.amount, row |-> n, seq |-> seqno,
                            by |-> None]
    OBVIOUS
  <1> PICK row : row = Row("offchain", "completed", c.amount, c.from, None, v, 0)
    OBVIOUS
  <1>1. /\ UNCHANGED <<web, worker, pool>> /\ seqno' = seqno + 1 /\ chain' = Append(chain, event)
        /\ txs' = Append(txs, row)
    BY DEF SettleCommand
  <1>2. /\ txs \in Seq(Rows) /\ chain \in Seq(Events) /\ seqno \in Nat
        /\ c.from \in Accounts /\ c.amount \in Amounts /\ n \in Nat \ {0} /\ v \in Nat
        /\ pool \subseteq Submissions
    BY DEF IInv, TypeOK
  <1>3. event \in Events /\ row \in Rows
    BY <1>2, TransactionsAssumption DEF Events, Row, Rows, Parties
  <1>4. Extended(chain, chain', v, event) /\ Extended(txs, txs', n, row)
    BY <1>1, <1>2, <1>3, EventExtends, RowExtends
  <1>5. event.kind = "out" /\ event.row = n
    OBVIOUS
  <1>6. row.status = "completed" /\ row.version = v /\ row.source \in Accounts
        /\ row.type = "offchain"
    BY <1>2 DEF Row
  <1>7. /\ \A i \in DOMAIN txs : RowInv(i)'
        /\ \A u \in DOMAIN chain : EventInv(u)'
        /\ \A t \in Threads : web'[t].pc = "write" => web'[t].from # web'[t].to
        /\ \A w, i, s : Waiting(w, i, s) <=> Waiting(w, i, s)'
    BY <1>1, <1>4, BooksGrow
  <1>8. Payouts' = Payouts \cup {v} /\ \A i : Paid(i)' <=> Paid(i) \/ n = i
    BY <1>4, <1>5, ChainGrows
  <1>9. /\ DOMAIN txs' = DOMAIN txs \cup {n} /\ DOMAIN chain' = DOMAIN chain \cup {v}
        /\ txs'[n] = row /\ chain'[v] = event /\ n \notin DOMAIN txs /\ v \notin DOMAIN chain
        /\ \A i \in DOMAIN txs : txs'[i] = txs[i]
    BY <1>4 DEF Extended
  <1>10. RowInv(n)'
    BY <1>5, <1>6, <1>8, <1>9 DEF RowInv
  <1>11. EventInv(v)'
    BY <1>5, <1>6, <1>9 DEF EventInv
  <1>12. \A p \in pool' : PoolInv(p)'
    <2> SUFFICES ASSUME NEW p \in pool, p.seq >= seqno + 1 PROVE PoolInv(p)'
      BY <1>1 DEF PoolInv
    <2>1. p.seq >= seqno
      BY <1>2 DEF Submissions
    <2>2. Waiting(p.by, p.row, p.seq) /\ p.amount = txs[p.row].amount /\ ~Paid(p.row)
      BY <2>1 DEF BooksInv, PoolInv
    <2>3. p.row \in DOMAIN txs
      BY <2>2, WaiterFacts
    <2> QED  BY <1>7, <1>8, <1>9, <2>2, <2>3 DEF PoolInv
  <1> QED  BY <1>7, <1>9, <1>10, <1>11, <1>12 DEF BooksInv

\* What is to be executed takes money out for its row, for the first time.
LEMMA PoolFacts ==
    ASSUME IInv, BooksInv, NEW p \in pool, p.seq >= seqno
    PROVE  /\ Waiting(p.by, p.row, p.seq) /\ p.row \in Unsettled /\ ~Paid(p.row)
           /\ p.amount = txs[p.row].amount /\ txs[p.row].source \in Accounts
           /\ txs[p.row].type \in {"external", "refund"} /\ txs[p.row].status = "pending"
           /\ txs[p.row].destination = None
  <1>1. Waiting(p.by, p.row, p.seq) /\ p.amount = txs[p.row].amount /\ ~Paid(p.row)
    BY DEF BooksInv, PoolInv
  <1>2. p.row \in DOMAIN txs /\ txs[p.row].status = "pending"
    BY <1>1, WaiterFacts
  <1>3. /\ txs[p.row].source \in Accounts /\ txs[p.row].destination = None
        /\ txs[p.row].type \in {"external", "refund"}
    BY <1>2 DEF BooksInv, RowInv
  <1> QED  BY <1>1, <1>2, <1>3, TransactionsAssumption DEF Unsettled

\* The event of what is executed, if the wallet has the funds.
LEMMA ExecuteEffect ==
    ASSUME IInv, NEW p \in pool, Execute(p)
    PROVE  /\ p.seq = seqno /\ seqno \in Nat /\ UNCHANGED <<txs, web, worker>>
           /\ pool' = pool \ {p} /\ seqno' = seqno + 1
           /\ \/ chain' = chain
              \/ \E event \in Events : /\ event.kind = "out" /\ event.row = p.row
                                       /\ event.seq = p.seq
                                       /\ event.by = p.by /\ event.amount = p.amount
                                       /\ chain' = Append(chain, event)
  <1>1. [kind |-> "out", amount |-> p.amount, row |-> p.row, seq |-> p.seq, by |-> p.by] \in Events
    BY DEF IInv, TypeOK, Events, Submissions
  <1> QED  BY <1>1 DEF Execute, IInv, TypeOK

\* It keeps the books: the payment is for a row whose worker waits for it.
LEMMA BooksExecute == ASSUME IInv, BooksInv, NEW p \in pool, Execute(p) PROVE BooksInv'
  <1>1. /\ p.seq = seqno /\ seqno \in Nat /\ UNCHANGED <<txs, web, worker>>
        /\ pool' = pool \ {p} /\ seqno' = seqno + 1 /\ pool \subseteq Submissions
    BY ExecuteEffect DEF IInv, TypeOK
  <1>2. Waiting(p.by, p.row, p.seq) /\ p.row \in DOMAIN txs
    BY <1>1, PoolFacts DEF Unsettled
  <1>3. ASSUME NEW q \in pool', q.seq >= seqno + 1
        PROVE  /\ Waiting(q.by, q.row, q.seq) /\ q.amount = txs[q.row].amount /\ ~Paid(q.row)
               /\ q.row # p.row
    <2>1. q \in pool /\ q.seq \in Nat /\ q.seq >= seqno /\ q.seq # p.seq
      BY <1>1, <1>3 DEF Submissions
    <2>2. Waiting(q.by, q.row, q.seq) /\ q.amount = txs[q.row].amount /\ ~Paid(q.row)
      BY <2>1, PoolFacts
    <2>3. q.row # p.row
      <3> SUFFICES ASSUME q.row = p.row PROVE FALSE
        OBVIOUS
      <3>1. q.by = p.by
        BY <1>2, <2>2, WaiterFacts DEF Waiting
      <3> QED  BY <1>2, <2>1, <2>2, <3>1 DEF Waiting
    <2> QED  BY <2>2, <2>3
  <1>4. CASE chain' = chain
    <2>1. \A w, i, s : Waiting(w, i, s) => Waiting(w, i, s)'
      BY <1>1 DEF Waiting
    <2>2. Payouts' = Payouts /\ \A i : Paid(i)' <=> Paid(i)
      BY <1>4 DEF Payouts, Arrivals, Paid
    <2>3. \A i \in DOMAIN txs' : RowInv(i)'
      BY <1>1, <1>4, <2>2 DEF BooksInv, RowInv
    <2>4. \A v \in DOMAIN chain' : EventInv(v)'
      BY <1>1, <1>4, <2>1, <2>2 DEF BooksInv, EventInv
    <2>5. \A q \in pool' : PoolInv(q)'
      BY <1>1, <1>3, <2>1, <2>2 DEF PoolInv
    <2> QED  BY <1>1, <2>3, <2>4, <2>5 DEF BooksInv
  <1>5. ASSUME NEW event \in Events, event.kind = "out", event.row = p.row, event.seq = p.seq,
               event.by = p.by, chain' = Append(chain, event)
        PROVE  BooksInv'
    <2> PICK v : v = Len(chain) + 1
      OBVIOUS
    <2>1. Extended(chain, chain', v, event)
      BY <1>5, EventExtends DEF IInv, TypeOK
    <2>2. /\ \A i \in DOMAIN txs : RowInv(i)'
          /\ \A u \in DOMAIN chain : EventInv(u)'
          /\ \A t \in Threads : web'[t].pc = "write" => web'[t].from # web'[t].to
          /\ \A w, i, s : Waiting(w, i, s) <=> Waiting(w, i, s)'
      BY <1>1, <2>1, BooksGrow
    <2>3. \A i : Paid(i)' <=> Paid(i) \/ p.row = i
      BY <1>5, <2>1, ChainGrows
    <2>4. /\ txs[p.row].source \in Accounts /\ txs[p.row].type # "internal"
      BY <1>1, PoolFacts
    <2>5. EventInv(v)'
      BY <1>1, <1>2, <1>5, <2>1, <2>2, <2>4 DEF EventInv, Extended
    <2>6. \A q \in pool' : PoolInv(q)'
      BY <1>1, <1>3, <2>2, <2>3 DEF PoolInv
    <2>7. DOMAIN chain' = DOMAIN chain \cup {v} /\ DOMAIN txs' = DOMAIN txs
      BY <1>1, <2>1 DEF Extended
    <2> QED  BY <2>2, <2>5, <2>6, <2>7 DEF BooksInv
  <1> QED  BY <1>4, <1>5, ExecuteEffect

\* A row that failed was not paid.
LEMMA FailedUnpaid ==
    ASSUME IInv, BooksInv, NEW w \in Workers, SubmitFailed(w)
    PROVE  ~Paid(worker[w].job.of) /\ worker[w].job.of \in Unsettled
  <1> PICK i : i = worker[w].job.of
    OBVIOUS
  <1>1. Waiting(w, i, worker[w].arg) /\ Executed(w) = {}
    BY DEF SubmitFailed, Waiting
  <1>2. i \in DOMAIN txs /\ txs[i].status = "pending"
        /\ \A x \in Workers : worker[x].pc = "wait" /\ worker[x].job.of = i => x = w
    BY <1>1, WaiterFacts
  <1>3. ~Paid(i)
    <2> SUFFICES ASSUME NEW v \in Payouts, chain[v].row = i PROVE FALSE
      BY DEF Paid
    <2>1. v \in DOMAIN chain /\ chain[v].kind = "out"
      BY DEF Payouts, Arrivals
    <2>2. Waiting(chain[v].by, i, chain[v].seq)
      BY <1>2, <2>1 DEF BooksInv, EventInv
    <2>3. chain[v].by = w /\ chain[v].seq = worker[w].arg
      BY <1>2, <2>2 DEF Waiting
    <2> QED  BY <1>1, <2>1, <2>3 DEF Executed
  <1>4. txs[i].type \in {"external", "refund"} /\ txs[i].source # None
    BY <1>2, TransactionsAssumption DEF BooksInv, RowInv
  <1> QED  BY <1>2, <1>3, <1>4 DEF Unsettled

\* A row is settled.
LEMMA BooksWaited ==
    ASSUME IInv, BooksInv, NEW w \in Workers, SubmitDone(w) \/ SubmitFailed(w)
    PROVE  BooksInv'
  <1>1. PICK i \in DOMAIN txs, status \in {"completed", "canceled"} :
              /\ i = worker[w].job.of /\ Settled(i, status) /\ worker[w].pc = "wait"
              /\ status = "completed" <=> SubmitDone(w)
              /\ SubmitDone(w) => txs'[i].version \in Executed(w)
              /\ ~SubmitDone(w) => txs'[i].version = txs[i].version
    BY WaitedRow
  <1>2. /\ worker' = [worker EXCEPT ![w] = At("ack", worker[w].job, 0)]
        /\ UNCHANGED <<web, seqno, chain>> /\ pool' \in {pool, Abandoned(w)}
    BY DEF SubmitDone, SubmitFailed, Cancel, onchain, Rest
  <1>3. /\ seqno \in Nat /\ pool \subseteq Submissions /\ worker[w].arg \in Nat
        /\ \A x \in Workers \ {w} : worker'[x] = worker[x]
    <2>1. Busy(w)
      BY <1>1 DEF Busy
    <2> QED  BY <1>2, <2>1, WorkerTypes DEF IInv, TypeOK
  <1>4. /\ Waiting(w, i, worker[w].arg)
        /\ \A x \in Workers : worker[x].pc = "wait" /\ worker[x].job.of = i => x = w
    <2>1. Waiting(w, i, worker[w].arg)
      BY <1>1 DEF Waiting
    <2> QED  BY <2>1, WaiterFacts
  <1>5. \A x, k, s : Waiting(x, k, s) /\ k # i => Waiting(x, k, s)'
    BY <1>1, <1>3 DEF Waiting
  <1>6. Payouts' = Payouts /\ \A k : Paid(k)' <=> Paid(k)
    BY <1>2 DEF Payouts, Arrivals, Paid
  <1>7. \A k \in DOMAIN txs' : RowInv(k)'
    <2> SUFFICES ASSUME NEW k \in DOMAIN txs PROVE RowInv(k)'
      BY <1>1 DEF Settled
    <2>1. CASE k # i
      BY <1>1, <1>2, <1>6, <2>1 DEF BooksInv, RowInv, Settled
    <2>2. CASE k = i
      <3>1. CASE SubmitDone(w)
        <4>1. txs'[i].version \in DOMAIN chain /\ chain[txs'[i].version].kind = "out"
              /\ chain[txs'[i].version].row = i
          BY <1>1, <3>1 DEF Executed
        <4>2. txs'[i].version \in Payouts
          BY <4>1 DEF Payouts, Arrivals
        <4> QED  BY <1>1, <1>2, <1>6, <2>2, <3>1, <4>1, <4>2 DEF RowInv, Settled
      <3>2. CASE ~SubmitDone(w)
        <4>1. txs'[i].version = 0
          BY <1>1, <3>2 DEF IInv, RowsInv, Settled
        <4> QED  BY <1>1, <2>2, <3>2, <4>1 DEF RowInv, Settled
      <3> QED  BY <3>1, <3>2
    <2> QED  BY <2>1, <2>2
  <1>8. \A v \in DOMAIN chain' : EventInv(v)'
    <2> SUFFICES ASSUME NEW v \in DOMAIN chain PROVE EventInv(v)'
      BY <1>2
    <2>1. EventInv(v)
      BY DEF BooksInv
    <2>2. CASE chain[v].kind # "out"
      BY <1>2, <1>6, <2>1, <2>2 DEF EventInv
    <2>3. CASE chain[v].kind = "out" /\ chain[v].row # i
      <3>1. chain[v].row \in DOMAIN txs /\ txs'[chain[v].row] = txs[chain[v].row]
        BY <1>1, <2>1, <2>3 DEF EventInv, Settled
      <3>2. DOMAIN txs' = DOMAIN txs
        BY <1>1 DEF Settled
      <3> QED  BY <1>2, <1>5, <2>1, <2>3, <3>1, <3>2 DEF EventInv
    <2>4. CASE chain[v].kind = "out" /\ chain[v].row = i
      <3>1. SubmitDone(w)
        <4> SUFFICES ASSUME SubmitFailed(w) PROVE FALSE
          OBVIOUS
        <4>1. v \in Payouts
          BY <2>4 DEF Payouts, Arrivals
        <4> QED  BY <1>1, <2>4, <4>1, FailedUnpaid DEF Paid
      <3>2. txs'[i].status = "completed" /\ txs'[i].source = txs[i].source
            /\ txs'[i].type = txs[i].type
            /\ i \in DOMAIN txs'
        BY <1>1, <3>1 DEF Settled
      <3> QED  BY <1>2, <2>1, <2>4, <3>2 DEF EventInv
    <2> QED  BY <2>2, <2>3, <2>4
  <1>9. \A p \in pool' : PoolInv(p)'
    <2>1. ASSUME NEW p \in pool, p.seq >= seqno PROVE p.row # i /\ p.by # w
      <3>1. Waiting(p.by, p.row, p.seq) /\ ~Paid(p.row) /\ p.seq \in Nat
        BY <2>1, <1>3, PoolFacts DEF Submissions
      <3>2. SUFFICES p.row # i
        BY <1>1, <3>1 DEF Waiting
      <3>3. SUFFICES ASSUME p.row = i PROVE FALSE
        OBVIOUS
      <3>4. p.by = w /\ p.seq = worker[w].arg
        BY <1>4, <3>1, <3>3 DEF Waiting
      <3>5. CASE SubmitDone(w)
        <4>1. PICK v \in Executed(w) : TRUE
          BY <1>1, <3>5
        <4>2. v \in Payouts /\ chain[v].row = i
          BY <1>1 DEF Executed, Payouts, Arrivals
        <4> QED  BY <3>1, <3>3, <4>2 DEF Paid
      <3>6. CASE SubmitFailed(w)
        <4>1. worker[w].arg < seqno
          BY <3>6 DEF SubmitFailed
        <4> QED  BY <1>3, <2>1, <3>4, <4>1
      <3> QED  BY <3>5, <3>6
    <2>2. ASSUME NEW p \in pool, p.seq >= seqno PROVE PoolInv(p)'
      <3>1. /\ Waiting(p.by, p.row, p.seq) /\ ~Paid(p.row) /\ p.amount = txs[p.row].amount
            /\ p.row \in DOMAIN txs /\ p.row # i
        BY <2>1, <2>2, PoolFacts DEF Unsettled
      <3>2. txs'[p.row] = txs[p.row]
        BY <1>1, <3>1 DEF Settled
      <3> QED  BY <1>5, <1>6, <3>1, <3>2 DEF PoolInv
    <2>3. ASSUME NEW p \in pool' PROVE p \in pool \/ ~(p.seq >= seqno)
      <3>1. CASE p \in pool
        BY <3>1
      <3>2. CASE p \notin pool
        <4>1. PICK q \in pool : q.by = w /\ p = [q EXCEPT !.by = None]
          BY <1>2, <2>3, <3>2 DEF Abandoned
        <4>2. p.seq = q.seq
          BY <1>3, <4>1 DEF Submissions
        <4> QED  BY <2>1, <4>1, <4>2
      <3> QED  BY <3>1, <3>2
    <2> QED  BY <1>2, <2>2, <2>3 DEF PoolInv
  <1>10. \A t \in Threads : web'[t].pc = "write" => web'[t].from # web'[t].to
    BY <1>2 DEF BooksInv
  <1> QED  BY <1>7, <1>8, <1>9, <1>10 DEF BooksInv

\* A user's row.
LEMMA AddedRow ==
    ASSUME IInv, NEW t \in Threads, AddTransaction(t)
    PROVE  \E row \in Rows, from \in Accounts, to \in Parties, n \in Amounts :
              /\ web[t].pc = "write" /\ from = web[t].from /\ to = web[t].to
              /\ txs' = Append(txs, row) /\ UNCHANGED <<worker, pool, seqno, chain>>
              /\ row = IF to = None THEN Row("external", "pending", n, from, None, 0, 0)
                                    ELSE Row("internal", "completed", n, from, to, 0, 0)
              /\ \A u \in Threads : web'[u].pc = "write" => web'[u] = web[u]
  <1> DEFINE r == web[t]
             row == IF r.to = None
                    THEN Row("external", "pending", r.amount, r.from, None, 0, 0)
                    ELSE Row("internal", "completed", r.amount, r.from, r.to, 0, 0)
             request == IF r.to = None THEN [pc |-> "enqueue", row |-> Len(txs) + 1] ELSE Idle
  <1>1. /\ txs' = Append(txs, row) /\ web' = [web EXCEPT ![t] = request]
        /\ UNCHANGED <<worker, pool, seqno, chain>>
    BY DEF AddTransaction, onchain
  <1>2. r.from \in Accounts /\ r.to \in Parties /\ r.amount \in Amounts /\ r.pc = "write"
    BY DEF AddTransaction, IInv, TypeOK, WebRequests, Idle
  <1>3. row \in Rows /\ request.pc # "write"
    BY <1>2, TransactionsAssumption DEF Row, Rows, Parties, Idle
  <1>4. \A u \in Threads : web'[u].pc = "write" => web'[u] = web[u]
    BY <1>1, <1>3 DEF IInv, TypeOK
  <1>5. row = IF r.to = None THEN Row("external", "pending", r.amount, r.from, None, 0, 0)
                             ELSE Row("internal", "completed", r.amount, r.from, r.to, 0, 0)
    OBVIOUS
  <1> HIDE DEF row, request
  <1> QED  BY <1>1, <1>2, <1>3, <1>4, <1>5

\* What a worker books is for an account of the wallet, or is parked.
LEMMA BookEffect ==
    ASSUME IInv, BooksInv, Alone, NEW w \in Workers, Book(w)
    PROVE  \E row \in Rows, v \in Unbooked :
              /\ v = worker[w].job.of /\ txs' = Append(txs, row)
              /\ UNCHANGED <<web, pool, seqno, chain>>
              /\ row.source = None /\ row.destination \in Accounts /\ row.version = v
              /\ row.amount = chain[v].amount /\ row.status \in {"completed", "need_refund"}
              /\ chain[v].kind \in {"deposit", "refund"}
              /\ row.status = "need_refund" <=> AccountOf(chain[v]) = None
              /\ row.status = "completed" => row.destination = AccountOf(chain[v])
  <1>1. PICK row \in Rows : txs' = Append(txs, row) /\ row = IncomingRow(worker[w].job.of)
             /\ row.source = None
    BY BookedRow
  <1>2. PICK v : v = worker[w].job.of
    OBVIOUS
  <1>3. /\ worker[w].pc = "book" /\ UNCHANGED <<web, pool, seqno, chain>>
    BY DEF Book, onchain, Rest
  <1>4. /\ v \in DOMAIN chain /\ v \in Nat \ {0} /\ row.version = v /\ row = IncomingRow(v)
        /\ chain[v].kind \in {"deposit", "refund"} /\ ~Recorded(v) /\ chain[v] \in Events
        /\ chain[v].kind = "refund" => RowsOfVersion(chain[v].of) # {}
    BY <1>1, <1>2, <1>3, IncomingRowType DEF IInv, WorkersInv, WorkerInv, TypeOK
  <1>5. v \in Unbooked
    BY <1>4 DEF Unbooked, Arrivals
  <1>6. CASE chain[v].kind = "refund"
    <2>1. PICK i : i = CHOOSE k \in RowsOfVersion(chain[v].of) : TRUE
      OBVIOUS
    <2>2. i \in DOMAIN txs /\ txs[i].version = chain[v].of
      <3>1. \A S : S # {} => (CHOOSE k \in S : TRUE) \in S
        OBVIOUS
      <3> QED  BY <1>4, <1>6, <2>1, <3>1 DEF RowsOfVersion
    <2>3. chain[v].of \in Payouts /\ chain[v].of # 0
      BY <1>4, <1>6 DEF BooksInv, EventInv, Events
    <2>4. chain[chain[v].of].row = i
      BY <2>2, <2>3 DEF BooksInv, RowInv
    <2>5. txs[i].source \in Accounts
      BY <2>3, <2>4 DEF BooksInv, EventInv, Payouts, Arrivals
    <2>6. row = Row("refund", "completed", chain[v].amount, None, txs[i].source, v, i)
      BY <1>4, <1>6, <2>1 DEF IncomingRow
    <2>7. AccountOf(chain[v]) = txs[i].source
      BY <1>6, <2>4 DEF AccountOf
    <2> QED  BY <1>1, <1>2, <1>3, <1>4, <1>5, <2>5, <2>6, <2>7, TransactionsAssumption DEF Row
  <1>7. CASE chain[v].kind = "deposit"
    <2>1. chain[v].to \in Parties /\ AccountOf(chain[v]) = chain[v].to
      BY <1>4, <1>7 DEF Events, AccountOf
    <2>2. row = IF chain[v].to = None
                THEN Row("external", "need_refund", chain[v].amount, None, Inventory, v, 0)
                ELSE Row("external", "completed", chain[v].amount, None, chain[v].to, v, 0)
      BY <1>4, <1>7 DEF IncomingRow
    <2> QED  BY <1>1, <1>2, <1>3, <1>4, <1>5, <2>1, <2>2, TransactionsAssumption DEF Row, Parties
  <1> QED  BY <1>4, <1>6, <1>7

\* What arrives.
LEMMA ArriveEffect ==
    ASSUME IInv, BooksInv,
           \/ \E to \in Parties, n \in Amounts, b \in BOOLEAN : Deposit(to, n, b)
           \/ \E n \in Amounts : PlainDeposit(n)
           \/ \E v \in DOMAIN chain : RefundByPeer(v)
    PROVE  \E event \in Events : /\ event.kind # "out" /\ chain' = Append(chain, event)
                                 /\ event.kind = "refund" => event.of \in Payouts
                                 /\ UNCHANGED <<txs, web, worker, pool, seqno>>
  <1>1. ASSUME NEW to \in Parties, NEW n \in Amounts, NEW b \in BOOLEAN, Deposit(to, n, b)
        PROVE  \E event \in Events : event.kind = "deposit" /\ Arrive(event)
    <2>1. [kind |-> "deposit", amount |-> n, to |-> to, from_subaddress |-> b] \in Events
      BY DEF Events
    <2> QED  BY <1>1, <2>1 DEF Deposit
  <1>2. ASSUME NEW n \in Amounts, PlainDeposit(n)
        PROVE  \E event \in Events : event.kind = "plain" /\ Arrive(event)
    <2>1. [kind |-> "plain", amount |-> n] \in Events
      BY DEF Events
    <2> QED  BY <1>2, <2>1 DEF PlainDeposit
  <1>3. ASSUME NEW v \in DOMAIN chain, RefundByPeer(v)
        PROVE  \E event \in Events : event.kind = "refund" /\ event.of \in Payouts /\ Arrive(event)
    <2>1. chain[v].amount \in Amounts /\ v \in Nat \ {0}
      BY ChainTable DEF IInv, TypeOK, Table
    <2>2. [kind |-> "refund", amount |-> chain[v].amount, of |-> v] \in Events
      BY <2>1 DEF Events
    <2>3. v \in Payouts
      BY <1>3 DEF RefundByPeer, Payouts, Arrivals
    <2> QED  BY <1>3, <2>2, <2>3 DEF RefundByPeer
  <1>4. PICK event \in Events : event.kind # "out" /\ Arrive(event)
             /\ (event.kind = "refund" => event.of \in Payouts)
    BY <1>1, <1>2, <1>3
  <1> QED  BY <1>4 DEF Arrive

\* The steps of a worker that concern neither the table nor the chain.
LEMMA BooksWorker ==
    ASSUME IInv, BooksInv, Heard, NEW w \in Workers,
           \/ \E job \in jobs : ProcessIncomingTxn(w, job) \/ SubmitOnchain(w, job)
           \/ Retry(w) \/ Refund(w) \/ RefundEnqueue(w) \/ Acknowledge(w) \/ WorkerCrash(w)
    PROVE  BooksInv' /\ txs' = txs /\ chain' = chain
  <1>1. /\ UNCHANGED <<txs, chain, seqno, web>> /\ seqno \in Nat /\ pool \subseteq Submissions
        /\ worker \in [Workers -> Attempts \cup {Idle}]
    BY DEF ProcessIncomingTxn, SubmitOnchain, Retry, Refund, RefundEnqueue, Acknowledge,
           WorkerCrash,
           Rest, onchain, IInv, TypeOK
  <1>2. worker[w].pc # "wait"
    BY DEF ProcessIncomingTxn, SubmitOnchain, Retry, Refund, RefundEnqueue, Acknowledge,
           WorkerCrash,
           Heard, Idle
  <1>3. \A x \in Workers \ {w} : worker'[x] = worker[x]
    <2>1. \A e : worker' = [worker EXCEPT ![w] = e]
          => \A x \in Workers \ {w} : worker'[x] = worker[x]
      BY <1>1
    <2>2. \E e : worker' = [worker EXCEPT ![w] = e]
      <3>1. ASSUME NEW job \in jobs, ProcessIncomingTxn(w, job)
            PROVE  \E e : worker' = [worker EXCEPT ![w] = e]
        BY <3>1, Zenon DEF ProcessIncomingTxn, Attempt
      <3>2. ASSUME NEW job \in jobs, SubmitOnchain(w, job)
            PROVE  \E e : worker' = [worker EXCEPT ![w] = e]
        BY <3>2, Zenon DEF SubmitOnchain
      <3>3. ASSUME Retry(w) PROVE \E e : worker' = [worker EXCEPT ![w] = e]
        BY <3>3, Zenon DEF Retry, Attempt
      <3>4. ASSUME Refund(w) PROVE \E e : worker' = [worker EXCEPT ![w] = e]
        BY <3>4, Zenon DEF Refund
      <3>5. ASSUME RefundEnqueue(w) \/ Acknowledge(w) \/ WorkerCrash(w)
            PROVE \E e : worker' = [worker EXCEPT ![w] = e]
        BY <3>5, Zenon DEF RefundEnqueue, Acknowledge, WorkerCrash
      <3> QED  BY <3>1, <3>2, <3>3, <3>4, <3>5
    <2> QED  BY <2>1, <2>2
  <1>4. \A x \in Workers : worker[x].pc = "wait" => worker'[x] = worker[x]
    BY <1>2, <1>3
  <1>5. \A p \in pool' : p \in pool \/ (p.seq \in Nat /\ p.seq < seqno) \/ PoolInv(p)'
    <2>1. ASSUME NEW p, NEW job \in jobs, SubmitOnchain(w, job), txs[job.of].status = "pending",
                 p = Submission(w, job)
          PROVE  PoolInv(p)'
      <3>1. p.row = job.of /\ p.seq = seqno /\ p.amount = txs[job.of].amount /\ p.by = w
        BY <2>1 DEF Submission
      <3>2. job = External(job.of) /\ job.of \in DOMAIN txs
        BY <2>1 DEF SubmitOnchain, IInv, TypeOK, Jobs, External, JobsInv, JobInv
      <3>3. worker'[w] = At("wait", job, seqno)
        BY <1>1, <2>1 DEF SubmitOnchain
      <3>4. Waiting(w, job.of, seqno)'
        BY <1>1, <3>3 DEF Waiting, At
      <3>5. ~Paid(job.of)
        <4> SUFFICES ASSUME NEW v \in Payouts, chain[v].row = job.of PROVE FALSE
          BY DEF Paid
        <4>1. Waiting(chain[v].by, job.of, chain[v].seq)
          BY <2>1 DEF BooksInv, EventInv, Payouts, Arrivals
        <4>2. External(job.of) \notin jobs
          BY <4>1, WaiterFacts
        <4> QED  BY <3>2, <4>2
      <3>6. ~Paid(job.of)'
        BY <1>1, <3>5 DEF Paid, Payouts, Arrivals
      <3> QED  BY <1>1, <3>1, <3>4, <3>6 DEF PoolInv
    <2>2. ASSUME WorkerCrash(w), NEW p \in pool', p \notin pool
          PROVE  p.seq \in Nat /\ p.seq < seqno
      <3>1. PICK q \in pool : q.by = w /\ p = [q EXCEPT !.by = None]
        BY <2>2 DEF WorkerCrash, Abandoned
      <3>2. p.seq = q.seq /\ q.seq \in Nat
        BY <1>1, <3>1 DEF Submissions
      <3>3. ~(q.seq >= seqno)
        <4> SUFFICES ASSUME q.seq >= seqno PROVE FALSE
          OBVIOUS
        <4>1. Waiting(q.by, q.row, q.seq)
          BY PoolFacts
        <4> QED  BY <1>2, <3>1, <4>1 DEF Waiting
      <3> QED  BY <1>1, <3>2, <3>3
    <2>3. ASSUME ~WorkerCrash(w), NEW p \in pool', p \notin pool
          PROVE  \E job \in jobs : /\ SubmitOnchain(w, job) /\ txs[job.of].status = "pending"
                                   /\ p = Submission(w, job)
      BY <2>3 DEF ProcessIncomingTxn, SubmitOnchain, Retry, Refund, RefundEnqueue, Acknowledge,
         Rest, onchain
    <2> QED  BY <2>1, <2>2, <2>3
  <1> QED  BY <1>1, <1>4, <1>5, BooksStill

\* The sums that Reconciled compares.
LEMMA ReconciledParts ==
    ASSUME IInv
    PROVE  /\ Table(txs) /\ Table(chain)
           /\ Arrivals \in SUBSET DOMAIN chain /\ Payouts \in SUBSET DOMAIN chain
           /\ Unbooked \in SUBSET DOMAIN chain
           /\ Unsettled \in SUBSET DOMAIN txs /\ Parked \in SUBSET DOMAIN txs
           /\ Total(chain, Arrivals) \in Nat /\ Total(chain, Payouts) \in Nat
           /\ Total(chain, Unbooked) \in Nat /\ BalanceOf(Accounts) \in Int
           /\ Total(txs, Unsettled) \in Nat /\ Total(txs, Parked) \in Nat
  <1>1. Table(txs) /\ Table(chain)
    BY RowTable, ChainTable DEF IInv, TypeOK
  <1>2. /\ Arrivals \in SUBSET DOMAIN chain /\ Payouts \in SUBSET DOMAIN chain
        /\ Unbooked \in SUBSET DOMAIN chain
        /\ Unsettled \in SUBSET DOMAIN txs /\ Parked \in SUBSET DOMAIN txs
    BY DEF Arrivals, Payouts, Unbooked, Unsettled, Parked
  <1>3. /\ Total(chain, Arrivals) \in Nat /\ Total(chain, Payouts) \in Nat
        /\ Total(chain, Unbooked) \in Nat
    BY <1>1, <1>2, TableTotal
  <1>4. Total(txs, Unsettled) \in Nat /\ Total(txs, Parked) \in Nat
    BY <1>1, <1>2, TableTotal
  <1>5. BalanceOf(Accounts) \in Int
    BY <1>1, BalanceType
  <1> QED  BY <1>1, <1>2, <1>3, <1>4, <1>5

\* A step that adds h to what the wallet holds, b to what it owes, u to what it
\* reserved, k to what it keeps and n to what it has not booked.
LEMMA ReconciledKept ==
    ASSUME IInv, Reconciled, NEW h \in Int, NEW b \in Int, NEW u \in Int, NEW k \in Int,
           NEW n \in Int,
           Holdings' = Holdings + h, BalanceOf(Accounts)' = BalanceOf(Accounts) + b,
           Total(txs', Unsettled') = Total(txs, Unsettled) + u,
           Total(txs', Parked') = Total(txs, Parked) + k,
           Total(chain', Unbooked') = Total(chain, Unbooked) + n,
           h = b + u + k + n
    PROVE  Reconciled'
  <1>1. /\ Holdings \in Int /\ BalanceOf(Accounts) \in Int /\ Total(txs, Unsettled) \in Int
        /\ Total(txs, Parked) \in Int /\ Total(chain, Unbooked) \in Int
    BY ReconciledParts DEF Holdings
  <1>2. Holdings = BalanceOf(Accounts) + Total(txs, Unsettled) + Total(txs, Parked)
                   + Total(chain, Unbooked)
    BY DEF Reconciled
  <1>3. Holdings' = BalanceOf(Accounts)' + Total(txs', Unsettled') + Total(txs', Parked')
                       + Total(chain', Unbooked')
    BY <1>1, <1>2
  <1> QED  BY <1>3 DEF Reconciled

\* Only the table and the chain matter.
LEMMA ReconciledStill == ASSUME Reconciled, txs' = txs, chain' = chain PROVE Reconciled'
  <1>1. Arrivals' = Arrivals /\ Payouts' = Payouts
    BY DEF Arrivals, Payouts
  <1>2. Holdings' = Holdings /\ Unsettled' = Unsettled
    BY <1>1 DEF Holdings, Unsettled, Paid
  <1>3. Parked' = Parked /\ Unbooked' = Unbooked /\ BalanceOf(Accounts)' = BalanceOf(Accounts)
    BY <1>1 DEF Parked, Unbooked, Recorded, BalanceOf, Credits, Debits
  <1> QED  BY <1>2, <1>3 DEF Reconciled

\* What the wallet holds.
LEMMA HoldingsGrow ==
    ASSUME IInv, NEW event \in Events, NEW v, Extended(chain, chain', v, event)
    PROVE  /\ event.amount \in Nat /\ event.amount \in Amounts
           /\ event.kind # "out" => Holdings' = Holdings + event.amount
           /\ event.kind = "out" => Holdings' = Holdings - event.amount
           /\ \A V \in SUBSET DOMAIN chain :
                 /\ Total(chain', V) = Total(chain, V)
                 /\ Total(chain', V \cup {v}) = Total(chain, V) + event.amount
  <1>1. event.amount \in Amounts /\ event.amount \in Nat
    BY LargestAmount DEF Events
  <1>2. /\ Arrivals \in SUBSET DOMAIN chain /\ Payouts \in SUBSET DOMAIN chain /\ Table(chain)
        /\ Total(chain, Arrivals) \in Nat /\ Total(chain, Payouts) \in Nat
    BY ReconciledParts
  <1>3. \A V \in SUBSET DOMAIN chain :
           /\ Total(chain', V) = Total(chain, V)
           /\ Total(chain', V \cup {v}) = Total(chain, V) + event.amount
    BY <1>1, <1>2, AddedTotal
  <1>4. Holdings' = Total(chain', Arrivals') - Total(chain', Payouts')
    BY DEF Holdings
  <1>5. ASSUME event.kind # "out" PROVE Holdings' = Holdings + event.amount
    <2>1. Arrivals' = Arrivals \cup {v} /\ Payouts' = Payouts
      BY <1>5, ChainGrows
    <2>2. Total(chain', Arrivals') = Total(chain, Arrivals) + event.amount
          /\ Total(chain', Payouts') = Total(chain, Payouts)
      BY <1>2, <1>3, <2>1
    <2> QED  BY <1>1, <1>2, <1>4, <2>2 DEF Holdings
  <1>6. ASSUME event.kind = "out" PROVE Holdings' = Holdings - event.amount
    <2>1. Arrivals' = Arrivals /\ Payouts' = Payouts \cup {v}
      BY <1>6, ChainGrows
    <2>2. Total(chain', Arrivals') = Total(chain, Arrivals)
          /\ Total(chain', Payouts') = Total(chain, Payouts) + event.amount
      BY <1>2, <1>3, <2>1
    <2> QED  BY <1>1, <1>2, <1>4, <2>2 DEF Holdings
  <1> QED  BY <1>1, <1>3, <1>5, <1>6

\* A transfer arrives: it is unbooked.
LEMMA ReconciledArrive ==
    ASSUME IInv, BooksInv, Reconciled, NEW event \in Events, event.kind # "out",
           chain' = Append(chain, event), txs' = txs
    PROVE  Reconciled'
  <1> PICK v : v = Len(chain) + 1
    OBVIOUS
  <1>1. Extended(chain, chain', v, event)
    BY EventExtends DEF IInv, TypeOK
  <1>2. /\ Holdings' = Holdings + event.amount /\ event.amount \in Int
        /\ \A V \in SUBSET DOMAIN chain : Total(chain', V \cup {v}) = Total(chain, V) + event.amount
    BY <1>1, HoldingsGrow
  <1>3. Arrivals' = Arrivals \cup {v} /\ \A i : Paid(i)' <=> Paid(i)
    BY <1>1, ChainGrows
  <1>4. ~Recorded(v)' /\ \A u \in Arrivals : Recorded(u)' <=> Recorded(u)
    <2>1. v \notin DOMAIN chain /\ v # 0
      BY <1>1, EventAdded DEF Extended, IInv, TypeOK
    <2>2. \A i \in DOMAIN txs : txs[i].version # v
      BY <2>1 DEF BooksInv, RowInv
    <2> QED  BY <2>2 DEF Recorded
  <1>5. Unbooked' = Unbooked \cup {v}
    BY <1>3, <1>4 DEF Unbooked
  <1>6. Total(chain', Unbooked') = Total(chain, Unbooked) + event.amount
    BY <1>2, <1>5, ReconciledParts
  <1>7. Unsettled' = Unsettled /\ Parked' = Parked /\ BalanceOf(Accounts)' = BalanceOf(Accounts)
    BY <1>3 DEF Unsettled, Parked, BalanceOf, Credits, Debits
  <1>8. /\ BalanceOf(Accounts)' = BalanceOf(Accounts) + 0
        /\ Total(txs', Unsettled') = Total(txs, Unsettled) + 0
        /\ Total(txs', Parked') = Total(txs, Parked) + 0
    BY <1>7, ReconciledParts
  <1>9. event.amount = 0 + 0 + 0 + event.amount
    BY <1>2
  <1> QED  BY <1>2, <1>6, <1>8, <1>9, ReconciledKept

\* A submission is executed: what was reserved is paid.
LEMMA ReconciledExecute ==
    ASSUME IInv, BooksInv, Reconciled, NEW p \in pool, p.seq >= seqno, NEW event \in Events,
           event.kind = "out", event.row = p.row, event.amount = p.amount,
           chain' = Append(chain, event), txs' = txs
    PROVE  Reconciled'
  <1> PICK v : v = Len(chain) + 1
    OBVIOUS
  <1>1. Extended(chain, chain', v, event)
    BY EventExtends DEF IInv, TypeOK
  <1>2. /\ Holdings' = Holdings - event.amount /\ event.amount \in Nat /\ event.amount \in Amounts
        /\ \A V \in SUBSET DOMAIN chain : Total(chain', V) = Total(chain, V)
    BY <1>1, HoldingsGrow
  <1>3. Arrivals' = Arrivals /\ \A i : Paid(i)' <=> Paid(i) \/ p.row = i
    BY <1>1, ChainGrows
  <1>4. Unbooked' = Unbooked
    BY <1>3 DEF Unbooked, Recorded
  <1>5. p.row \in Unsettled /\ event.amount = txs[p.row].amount
    BY PoolFacts
  <1>6. Unsettled' = Unsettled \ {p.row}
    BY <1>3, <1>5 DEF Unsettled
  <1>7. PICK I : I = Unsettled \ {p.row}
    OBVIOUS
  <1>8. p.row \notin I /\ I \cup {p.row} = Unsettled /\ I \in SUBSET DOMAIN txs
    BY <1>5, <1>7, ReconciledParts
  <1>9. Total(txs, Unsettled) = Total(txs, I) + event.amount /\ Total(txs, I) \in Nat
    <2>1. IsFiniteSet(I) /\ Total(txs, I) \in Nat
      BY <1>8, ReconciledParts, TableTotal
    <2>2. Total(txs, I \cup {p.row}) = Total(txs, I) + txs[p.row].amount
      BY <1>2, <1>5, <1>8, <2>1, TotalAdd
    <2> QED  BY <1>5, <1>8, <2>1, <2>2
  <1>10. Total(txs', Unsettled') = Total(txs, Unsettled) + (-event.amount)
    BY <1>2, <1>6, <1>7, <1>9
  <1>11. Holdings' = Holdings + (-event.amount) /\ -event.amount \in Int
    BY <1>2, ReconciledParts DEF Holdings
  <1>12. Parked' = Parked /\ BalanceOf(Accounts)' = BalanceOf(Accounts)
    BY DEF Parked, BalanceOf, Credits, Debits
  <1>13. /\ BalanceOf(Accounts)' = BalanceOf(Accounts) + 0
         /\ Total(txs', Parked') = Total(txs, Parked) + 0
         /\ Total(chain', Unbooked') = Total(chain, Unbooked) + 0
    BY <1>2, <1>4, <1>12, ReconciledParts
  <1>14. PICK m \in Int : m = -event.amount
    BY <1>2
  <1>15. Holdings' = Holdings + m /\ Total(txs', Unsettled') = Total(txs, Unsettled) + m
         /\ m = 0 + m + 0 + 0 /\ 0 \in Int
    BY <1>10, <1>11, <1>14
  <1> QED  BY <1>13, <1>14, <1>15, ReconciledKept, Zenon

\* A row that is added, and perhaps the transfer that it records: the sums of the table.
LEMMA TableGrow ==
    ASSUME IInv, NEW row \in Rows, NEW n, Extended(txs, txs', n, row),
           \A i \in DOMAIN txs : Paid(i)' <=> Paid(i)
    PROVE  /\ row.amount \in Nat
           /\ BalanceOf(Accounts)'
                 = BalanceOf(Accounts) + Credit(row, Accounts) - Debit(row, Accounts)
           /\ (n \in Unsettled)' /\ row.status = "pending"
                => Total(txs', Unsettled') = Total(txs, Unsettled) + row.amount
           /\ n \notin Unsettled' => Total(txs', Unsettled') = Total(txs, Unsettled)
           /\ row.status = "need_refund" => Total(txs', Parked') = Total(txs, Parked) + row.amount
           /\ row.status # "need_refund" => Total(txs', Parked') = Total(txs, Parked)
  <1>1. row.amount \in Amounts /\ row.amount \in Nat
    BY LargestAmount DEF Rows
  <1>2. /\ Table(txs) /\ Unsettled \in SUBSET DOMAIN txs /\ Parked \in SUBSET DOMAIN txs
        /\ Total(txs, Unsettled) \in Nat /\ Total(txs, Parked) \in Nat
    BY ReconciledParts
  <1>3. \A I \in SUBSET DOMAIN txs :
           Total(txs', I) = Total(txs, I) /\ Total(txs', I \cup {n}) = Total(txs, I) + row.amount
    BY <1>1, <1>2, AddedTotal
  <1>4. BalanceOf(Accounts)' = BalanceOf(Accounts) + Credit(row, Accounts) - Debit(row, Accounts)
    BY <1>1, <1>2, AddedBalance
  <1>5. ASSUME n \in Unsettled' PROVE Total(txs', Unsettled') = Total(txs, Unsettled) + row.amount
    <2>1. Unsettled' = Unsettled \cup {n}
      BY <1>5 DEF Unsettled, Extended
    <2> QED  BY <1>2, <1>3, <2>1
  <1>6. ASSUME n \notin Unsettled' PROVE Total(txs', Unsettled') = Total(txs, Unsettled)
    <2>1. Unsettled' = Unsettled
      BY <1>6 DEF Unsettled, Extended
    <2> QED  BY <1>2, <1>3, <2>1
  <1>7. ASSUME row.status = "need_refund"
        PROVE  Total(txs', Parked') = Total(txs, Parked) + row.amount
    <2>1. Parked' = Parked \cup {n}
      BY <1>7 DEF Parked, Extended
    <2> QED  BY <1>2, <1>3, <2>1
  <1>8. ASSUME row.status # "need_refund" PROVE Total(txs', Parked') = Total(txs, Parked)
    <2>1. Parked' = Parked
      BY <1>8 DEF Parked, Extended
    <2> QED  BY <1>2, <1>3, <2>1
  <1> QED  BY <1>1, <1>4, <1>5, <1>6, <1>7, <1>8

\* A payment command: paid from what the wallet holds, and owed no longer.
LEMMA ReconciledSettle ==
    ASSUME IInv, BooksInv, Reconciled, NEW c \in commands, SettleCommand(c)
    PROVE  Reconciled'
  <1> PICK v, n : v = Len(chain) + 1 /\ n = Len(txs) + 1
    OBVIOUS
  <1> PICK event : event = [kind |-> "out", amount |-> c.amount, row |-> n, seq |-> seqno,
                            by |-> None]
    OBVIOUS
  <1> PICK row : row = Row("offchain", "completed", c.amount, c.from, None, v, 0)
    OBVIOUS
  <1>1. chain' = Append(chain, event) /\ txs' = Append(txs, row)
    BY DEF SettleCommand
  <1>2. /\ txs \in Seq(Rows) /\ chain \in Seq(Events) /\ seqno \in Nat
        /\ c.from \in Accounts /\ c.amount \in Amounts /\ n \in Nat \ {0} /\ v \in Nat
    BY DEF IInv, TypeOK
  <1>3. event \in Events /\ row \in Rows
    BY <1>2, TransactionsAssumption DEF Events, Row, Rows, Parties
  <1>4. Extended(chain, chain', v, event) /\ Extended(txs, txs', n, row)
    BY <1>1, <1>2, <1>3, EventExtends, RowExtends
  <1>5. event.kind = "out" /\ event.row = n /\ event.amount = row.amount
    BY DEF Row
  <1>6. /\ Holdings' = Holdings - row.amount
        /\ \A V \in SUBSET DOMAIN chain : Total(chain', V) = Total(chain, V)
    BY <1>3, <1>4, <1>5, HoldingsGrow
  <1>7. Arrivals' = Arrivals /\ \A i : Paid(i)' <=> Paid(i) \/ n = i
    BY <1>4, <1>5, ChainGrows
  <1>8. \A i \in DOMAIN txs : Paid(i)' <=> Paid(i)
    BY <1>4, <1>7 DEF Extended
  <1>9. /\ row.type = "offchain" /\ row.source \in Accounts /\ row.destination = None
        /\ row.status = "completed"
    BY <1>2 DEF Row
  <1>10. n \notin Unsettled'
    BY <1>4, <1>9 DEF Unsettled, Extended
  <1>11. /\ row.amount \in Nat
         /\ BalanceOf(Accounts)'
               = BalanceOf(Accounts) + Credit(row, Accounts) - Debit(row, Accounts)
         /\ Total(txs', Unsettled') = Total(txs, Unsettled)
         /\ Total(txs', Parked') = Total(txs, Parked)
    BY <1>3, <1>4, <1>8, <1>9, <1>10, TableGrow
  <1>12. Credit(row, Accounts) = 0 /\ Debit(row, Accounts) = row.amount
    BY <1>9, TransactionsAssumption DEF Credit, Debit
  <1>13. \A u : Recorded(u)' <=> Recorded(u)
    BY <1>4, <1>9 DEF Recorded, Extended
  <1>14. Unbooked' = Unbooked
    BY <1>7, <1>13 DEF Unbooked
  <1>15. Total(chain', Unbooked') = Total(chain, Unbooked)
    BY <1>6, <1>14, ReconciledParts
  <1>16. PICK m \in Int : m = -row.amount
    BY <1>11
  <1>17. /\ Holdings \in Int /\ BalanceOf(Accounts) \in Int /\ Total(txs, Unsettled) \in Int
         /\ Total(txs, Parked) \in Int /\ Total(chain, Unbooked) \in Int
    BY ReconciledParts DEF Holdings
  <1>18. /\ Holdings' = Holdings + m /\ BalanceOf(Accounts)' = BalanceOf(Accounts) + m
         /\ Total(txs', Unsettled') = Total(txs, Unsettled) + 0
         /\ Total(txs', Parked') = Total(txs, Parked) + 0
         /\ Total(chain', Unbooked') = Total(chain, Unbooked) + 0
         /\ m = m + 0 + 0 + 0
    <2>1. PICK x \in Nat : x = row.amount
      BY <1>11
    <2>2. \A h \in Int : h - x = h + (-x) /\ h + 0 - x = h + (-x) /\ h + 0 = h
      OBVIOUS
    <2>3. Holdings' = Holdings + m
      BY <1>6, <1>16, <1>17, <2>1, <2>2
    <2>4. BalanceOf(Accounts)' = BalanceOf(Accounts) + m
      BY <1>11, <1>12, <1>16, <1>17, <2>1, <2>2
    <2>5. /\ Total(txs', Unsettled') = Total(txs, Unsettled) + 0
          /\ Total(txs', Parked') = Total(txs, Parked) + 0
          /\ Total(chain', Unbooked') = Total(chain, Unbooked) + 0
      BY <1>11, <1>15, <1>17, <2>2
    <2> QED  BY <1>16, <2>3, <2>4, <2>5
  <1> QED  BY <1>18, ReconciledKept

\* A user's row, or that of a refund: what is paid out is reserved.
LEMMA ReconciledAdd ==
    ASSUME IInv, BooksInv, Reconciled, NEW row \in Rows, txs' = Append(txs, row), chain' = chain,
           row.version = 0, row.source \in Accounts,
           \/ /\ row.destination = None /\ row.status = "pending"
              /\ row.type \in {"external", "refund"}
           \/ /\ row.destination \in Accounts /\ row.status = "completed"
    PROVE  Reconciled'
  <1> PICK n : n = Len(txs) + 1
    OBVIOUS
  <1>1. Extended(txs, txs', n, row)
    BY RowExtends DEF IInv, TypeOK
  <1>2. Payouts' = Payouts /\ Arrivals' = Arrivals /\ Holdings' = Holdings
        /\ \A i : Paid(i)' <=> Paid(i)
    BY DEF Payouts, Arrivals, Paid, Holdings
  <1>3. ~Paid(n)
    BY <1>1 DEF Paid, BooksInv, EventInv, Payouts, Arrivals, Extended
  <1>4. n \in Unsettled' <=> row.destination = None
    BY <1>1, <1>2, <1>3, TransactionsAssumption DEF Unsettled, Extended
  <1>5. /\ row.amount \in Nat
        /\ BalanceOf(Accounts)' = BalanceOf(Accounts) + Credit(row, Accounts) - Debit(row, Accounts)
        /\ n \in Unsettled' /\ row.status = "pending"
             => Total(txs', Unsettled') = Total(txs, Unsettled) + row.amount
        /\ n \notin Unsettled' => Total(txs', Unsettled') = Total(txs, Unsettled)
        /\ Total(txs', Parked') = Total(txs, Parked)
    BY <1>1, <1>2, TableGrow
  <1>6. Unbooked' = Unbooked
    <2>1. \A u \in Arrivals : u \in Nat \ {0}
      BY ChainTable DEF Arrivals, IInv, TypeOK
    <2>2. \A u \in Arrivals : Recorded(u)' <=> Recorded(u)
      BY <1>1, <2>1 DEF Recorded, Extended
    <2> QED  BY <1>2, <2>2 DEF Unbooked
  <1>7. /\ Holdings \in Int /\ BalanceOf(Accounts) \in Int /\ Total(txs, Unsettled) \in Int
        /\ Total(txs, Parked) \in Int /\ Total(chain, Unbooked) \in Int
    BY ReconciledParts DEF Holdings
  <1>8. /\ Holdings' = Holdings + 0 /\ Total(txs', Parked') = Total(txs, Parked) + 0
        /\ Total(chain', Unbooked') = Total(chain, Unbooked) + 0
    BY <1>2, <1>5, <1>6, <1>7
  <1>9. CASE row.destination = None
    <2>1. Credit(row, Accounts) = 0 /\ Debit(row, Accounts) = row.amount /\ row.status = "pending"
      BY <1>9, TransactionsAssumption DEF Credit, Debit
    <2>2. PICK m \in Int : m = -row.amount
      BY <1>5
    <2>3. /\ BalanceOf(Accounts)' = BalanceOf(Accounts) + m
          /\ Total(txs', Unsettled') = Total(txs, Unsettled) + row.amount
          /\ 0 = m + row.amount + 0 + 0
      BY <1>4, <1>5, <1>7, <1>9, <2>1, <2>2
    <2> QED  BY <1>5, <1>8, <2>2, <2>3, ReconciledKept
  <1>10. CASE row.destination # None
    <2>1. Credit(row, Accounts) = row.amount /\ Debit(row, Accounts) = row.amount
      BY <1>10 DEF Credit, Debit
    <2>2. /\ BalanceOf(Accounts)' = BalanceOf(Accounts) + 0
          /\ Total(txs', Unsettled') = Total(txs, Unsettled) + 0
          /\ 0 = 0 + 0 + 0 + 0
      BY <1>4, <1>5, <1>7, <1>10, <2>1
    <2> QED  BY <1>8, <2>2, ReconciledKept
  <1> QED  BY <1>9, <1>10

\* A transfer is booked: owed to its account, or kept.
LEMMA ReconciledBook ==
    ASSUME IInv, BooksInv, Reconciled, NEW row \in Rows, NEW v \in Unbooked,
           txs' = Append(txs, row), chain' = chain,
           row.source = None, row.destination \in Accounts, row.version = v,
           row.amount = chain[v].amount, row.status \in {"completed", "need_refund"}
    PROVE  Reconciled'
  <1> PICK n : n = Len(txs) + 1
    OBVIOUS
  <1>1. Extended(txs, txs', n, row)
    BY RowExtends DEF IInv, TypeOK
  <1>2. Payouts' = Payouts /\ Arrivals' = Arrivals /\ Holdings' = Holdings
        /\ \A i : Paid(i)' <=> Paid(i)
    BY DEF Payouts, Arrivals, Paid, Holdings
  <1>3. n \notin Unsettled'
    BY <1>1 DEF Unsettled, Extended
  <1>4. /\ row.amount \in Nat
        /\ BalanceOf(Accounts)' = BalanceOf(Accounts) + Credit(row, Accounts) - Debit(row, Accounts)
        /\ Total(txs', Unsettled') = Total(txs, Unsettled)
        /\ row.status = "need_refund" => Total(txs', Parked') = Total(txs, Parked) + row.amount
        /\ row.status # "need_refund" => Total(txs', Parked') = Total(txs, Parked)
    BY <1>1, <1>2, <1>3, TableGrow
  <1>5. v \in Arrivals /\ v \in Nat \ {0} /\ chain[v].amount \in Amounts
    BY ChainTable DEF Unbooked, Arrivals, IInv, TypeOK, Table
  <1>6. \A u \in Arrivals : Recorded(u)' <=> Recorded(u) \/ u = v
    BY <1>1, <1>2, <1>5, TransactionsAssumption DEF Recorded, Extended
  <1>7. Unbooked' = Unbooked \ {v}
    BY <1>2, <1>6 DEF Unbooked
  <1>8. PICK V : V = Unbooked \ {v}
    OBVIOUS
  <1>9. v \notin V /\ V \cup {v} = Unbooked /\ V \in SUBSET DOMAIN chain
    BY <1>8, ReconciledParts
  <1>10. Total(chain, Unbooked) = Total(chain, V) + row.amount /\ Total(chain, V) \in Nat
    <2>1. IsFiniteSet(V) /\ Total(chain, V) \in Nat
      BY <1>9, ReconciledParts, TableTotal
    <2>2. Total(chain, V \cup {v}) = Total(chain, V) + chain[v].amount
      BY <1>5, <1>9, <2>1, TotalAdd
    <2> QED  BY <1>9, <2>1, <2>2
  <1>11. PICK x \in Nat : x = row.amount
    BY <1>4
  <1>12. PICK m \in Int : m = -x
    BY <1>11
  <1>13. Total(chain', Unbooked') = Total(chain, Unbooked) + m
    BY <1>7, <1>8, <1>10, <1>11, <1>12
  <1>14. /\ Holdings \in Int /\ BalanceOf(Accounts) \in Int /\ Total(txs, Unsettled) \in Int
         /\ Total(txs, Parked) \in Int
    BY ReconciledParts DEF Holdings
  <1>15. Holdings' = Holdings + 0 /\ Total(txs', Unsettled') = Total(txs, Unsettled) + 0
    BY <1>2, <1>4, <1>14
  <1>16. Debit(row, Accounts) = 0
    BY TransactionsAssumption DEF Debit
  <1>17. CASE row.status = "completed"
    <2>1. Credit(row, Accounts) = x
      BY <1>11, <1>17 DEF Credit
    <2>2. BalanceOf(Accounts)' = BalanceOf(Accounts) + x
      BY <1>4, <1>14, <1>16, <2>1
    <2>3. Total(txs', Parked') = Total(txs, Parked) + 0
      BY <1>4, <1>14, <1>17
    <2>4. 0 = x + 0 + 0 + m
      BY <1>12
    <2>5. ASSUME NEW h \in Int, NEW k \in Int, h = 0, k = x,
                 Holdings' = Holdings + h, BalanceOf(Accounts)' = BalanceOf(Accounts) + k,
                 Total(txs', Unsettled') = Total(txs, Unsettled) + h,
                 Total(txs', Parked') = Total(txs, Parked) + h,
                 Total(chain', Unbooked') = Total(chain, Unbooked) + m
          PROVE  Reconciled'
      <3>1. h = k + h + h + m
        BY <2>4, <2>5
      <3> QED  BY <2>5, <3>1, ReconciledKept
    <2> QED  BY <1>13, <1>15, <2>2, <2>3, <2>5
  <1>18. CASE row.status = "need_refund"
    <2>1. Credit(row, Accounts) = 0
      BY <1>18 DEF Credit
    <2>2. BalanceOf(Accounts)' = BalanceOf(Accounts) + 0
      BY <1>4, <1>14, <1>16, <2>1
    <2>3. Total(txs', Parked') = Total(txs, Parked) + x
      BY <1>4, <1>11, <1>18
    <2>4. 0 = 0 + 0 + x + m
      BY <1>12
    <2> QED  BY <1>13, <1>15, <2>2, <2>3, <2>4, ReconciledKept
  <1> QED  BY <1>17, <1>18

\* A row is settled: paid before, or given back now.
LEMMA ReconciledWaited ==
    ASSUME IInv, BooksInv, Reconciled, NEW w \in Workers, SubmitDone(w) \/ SubmitFailed(w)
    PROVE  Reconciled'
  <1>1. PICK i \in DOMAIN txs, status \in {"completed", "canceled"} :
              /\ i = worker[w].job.of /\ Settled(i, status)
              /\ status = "completed" <=> SubmitDone(w)
              /\ SubmitDone(w) => txs'[i].version \in Executed(w)
    BY WaitedRow
  <1>2. chain' = chain
    BY DEF SubmitDone, SubmitFailed, Cancel, onchain
  <1>3. Payouts' = Payouts /\ Arrivals' = Arrivals /\ Holdings' = Holdings
        /\ \A k : Paid(k)' <=> Paid(k)
    BY <1>2 DEF Payouts, Arrivals, Paid, Holdings
  <1>4. /\ Table(txs) /\ Unsettled \in SUBSET DOMAIN txs /\ Parked \in SUBSET DOMAIN txs
        /\ BalanceOf(Accounts) \in Int /\ Total(txs, Unsettled) \in Int
        /\ Total(txs, Parked) \in Int /\ Total(chain, Unbooked) \in Int /\ Holdings \in Int
    BY ReconciledParts DEF Holdings
  <1>5. txs[i].source \in Accounts /\ txs[i].status = "pending" /\ txs[i].amount \in Amounts
        /\ txs[i].amount \in Nat
    BY <1>1, <1>4, LargestAmount DEF BooksInv, RowInv, Settled, Table
  <1>6. /\ status = "canceled" => BalanceOf(Accounts)' = BalanceOf(Accounts) + txs[i].amount
        /\ status # "canceled" => BalanceOf(Accounts)' = BalanceOf(Accounts)
        /\ \A I \in SUBSET DOMAIN txs : Total(txs', I) = Total(txs, I)
    BY <1>1, <1>4, <1>5, SettledTotals, TransactionsAssumption
  <1>7. Unbooked' = Unbooked
    <2>1. \A u : Recorded(u)' <=> Recorded(u)
      BY <1>1 DEF Recorded, Settled
    <2> QED  BY <1>3, <2>1 DEF Unbooked
  <1>8. Parked' = Parked
    BY <1>1 DEF Parked, Settled
  <1>9. /\ Holdings' = Holdings + 0 /\ Total(chain', Unbooked') = Total(chain, Unbooked) + 0
        /\ Total(txs', Parked') = Total(txs, Parked) + 0
    BY <1>2, <1>3, <1>4, <1>6, <1>7, <1>8
  <1>10. CASE SubmitDone(w)
    <2>1. Paid(i)
      BY <1>1, <1>10 DEF Executed, Paid, Payouts, Arrivals
    <2>2. Unsettled' = Unsettled
      BY <1>1, <1>3, <2>1 DEF Unsettled, Settled
    <2>3. Total(txs', Unsettled') = Total(txs, Unsettled) + 0
      BY <1>4, <1>6, <2>2
    <2>4. BalanceOf(Accounts)' = BalanceOf(Accounts) + 0
      BY <1>1, <1>4, <1>6, <1>10
    <2> QED  BY <1>9, <2>3, <2>4, ReconciledKept
  <1>11. CASE ~SubmitDone(w)
    <2>1. i \in Unsettled /\ status = "canceled"
      BY <1>1, <1>11, FailedUnpaid
    <2>2. Unsettled' = Unsettled \ {i}
      BY <1>1, <1>3, <2>1 DEF Unsettled, Settled
    <2>3. PICK I : I = Unsettled \ {i}
      OBVIOUS
    <2>4. i \notin I /\ I \cup {i} = Unsettled /\ I \in SUBSET DOMAIN txs
      BY <1>4, <2>1, <2>3
    <2>5. PICK x \in Nat, m \in Int : x = txs[i].amount /\ m = -x
      BY <1>5
    <2>6. Total(txs, Unsettled) = Total(txs, I) + x /\ Total(txs, I) \in Nat
      <3>1. IsFiniteSet(I) /\ Total(txs, I) \in Nat
        BY <1>4, <2>4, TableTotal
      <3>2. Total(txs, I \cup {i}) = Total(txs, I) + txs[i].amount
        BY <1>5, <2>4, <3>1, TotalAdd
      <3> QED  BY <2>4, <2>5, <3>1, <3>2
    <2>7. Total(txs', Unsettled') = Total(txs, I)
      BY <1>6, <2>2, <2>3, <2>4
    <2>8. Total(txs', Unsettled') = Total(txs, Unsettled) + m
      BY <2>5, <2>6, <2>7
    <2>9. BalanceOf(Accounts)' = BalanceOf(Accounts) + x
      BY <1>6, <2>1, <2>5
    <2>10. 0 = x + m + 0 + 0
      BY <2>5
    <2> QED  BY <1>9, <2>5, <2>8, <2>9, <2>10, ReconciledKept
  <1> QED  BY <1>10, <1>11

\* Every step keeps the books.
LEMMA BooksKeep ==
    ASSUME IInv, Heard, BooksInv, [Next]_vars
    PROVE  BooksInv' /\ (Reconciled => Reconciled')
  <1>0. Alone
    BY DEF Heard
  <1>1. ASSUME \/ \E to \in Parties, n \in Amounts, b \in BOOLEAN : Deposit(to, n, b)
               \/ \E n \in Amounts : PlainDeposit(n)
               \/ \E v \in DOMAIN chain : RefundByPeer(v)
        PROVE  BooksInv' /\ (Reconciled => Reconciled')
    <2>1. PICK event \in Events : /\ event.kind # "out" /\ chain' = Append(chain, event)
                                  /\ event.kind = "refund" => event.of \in Payouts
                                  /\ UNCHANGED <<txs, web, worker, pool, seqno>>
      BY <1>1, ArriveEffect
    <2>2. BooksInv'
      BY <2>1, BooksArrive
    <2>3. Reconciled => Reconciled'
      BY <2>1, ReconciledArrive
    <2> QED  BY <2>2, <2>3
  <1>2. ASSUME UNCHANGED <<txs, chain, seqno, pool, worker>>,
               \A t \in Threads :
                  web'[t].pc = "write" => web'[t] = web[t] \/ web'[t].from # web'[t].to
        PROVE  BooksInv' /\ (Reconciled => Reconciled')
    <2>1. seqno \in Nat
      BY DEF IInv, TypeOK
    <2> QED  BY <1>2, <2>1, BooksStill, ReconciledStill
  <1>3. ASSUME NEW t \in Threads, NEW from \in Accounts \ {Inventory}, NEW to \in Parties,
               NEW n \in Amounts, SendTransaction(t, from, to, n)
        PROVE  BooksInv' /\ (Reconciled => Reconciled')
    <2>1. UNCHANGED <<txs, chain, seqno, pool, worker>>
      BY <1>3 DEF SendTransaction, onchain
    <2>2. \A u \in Threads : web'[u].pc = "write" => web'[u] = web[u] \/ web'[u].from # web'[u].to
      BY <1>3 DEF SendTransaction, IInv, TypeOK
    <2> QED  BY <1>2, <2>1, <2>2
  <1>4. ASSUME NEW t \in Threads, AddTransaction(t) PROVE BooksInv' /\ (Reconciled => Reconciled')
    <2>1. PICK row \in Rows, from \in Accounts, to \in Parties, n \in Amounts :
              /\ web[t].pc = "write" /\ from = web[t].from /\ to = web[t].to
              /\ txs' = Append(txs, row) /\ UNCHANGED <<worker, pool, seqno, chain>>
              /\ row = IF to = None THEN Row("external", "pending", n, from, None, 0, 0)
                                    ELSE Row("internal", "completed", n, from, to, 0, 0)
              /\ \A u \in Threads : web'[u].pc = "write" => web'[u] = web[u]
      BY <1>4, AddedRow
    <2>2. /\ row.version = 0 /\ row.source \in Accounts
          /\ \/ /\ row.destination = None /\ row.status = "pending"
                /\ row.type \in {"external", "refund"}
             \/ /\ row.destination \in Accounts /\ row.status = "completed"
      BY <2>1 DEF Row, Parties
    <2>3. BooksInv'
      BY <2>1, <2>2, BooksAdd
    <2> QED  BY <2>1, <2>2, <2>3, ReconciledAdd
  <1>5. ASSUME NEW t \in Threads, Enqueue(t) PROVE BooksInv' /\ (Reconciled => Reconciled')
    <2>1. UNCHANGED <<txs, chain, seqno, pool, worker>>
      BY <1>5 DEF Enqueue, onchain
    <2>2. \A u \in Threads : web'[u].pc = "write" => web'[u] = web[u]
      BY <1>5 DEF Enqueue, IInv, TypeOK, Idle
    <2> QED  BY <1>2, <2>1, <2>2
  <1>6. CASE WebRestart
    <2>1. UNCHANGED <<txs, chain, seqno, pool, worker>>
      BY <1>6 DEF WebRestart, onchain
    <2>2. \A u \in Threads : web'[u].pc = "write" => web'[u] = web[u]
      BY <1>6 DEF WebRestart, Idle
    <2> QED  BY <1>2, <2>1, <2>2
  <1>7. ASSUME NEW v, Resend(v) PROVE BooksInv' /\ (Reconciled => Reconciled')
    BY <1>2, <1>7 DEF Resend, onchain
  <1>8. ASSUME NEW c \in commands, SettleCommand(c) PROVE BooksInv' /\ (Reconciled => Reconciled')
    BY <1>8, BooksSettle, ReconciledSettle
  <1>9. ASSUME NEW p \in pool, Execute(p) PROVE BooksInv' /\ (Reconciled => Reconciled')
    <2>1. BooksInv'
      BY <1>9, BooksExecute
    <2>2. p.seq >= seqno /\ txs' = txs
      BY <1>9, ExecuteEffect
    <2>3. Reconciled => Reconciled'
      BY <1>9, <2>2, ExecuteEffect, ReconciledStill, ReconciledExecute
    <2> QED  BY <2>1, <2>3
  <1>10. ASSUME NEW w \in Workers, Book(w) PROVE BooksInv' /\ (Reconciled => Reconciled')
    <2>1. PICK row \in Rows, v \in Unbooked :
              /\ v = worker[w].job.of /\ txs' = Append(txs, row)
              /\ UNCHANGED <<web, pool, seqno, chain>>
              /\ row.source = None /\ row.destination \in Accounts /\ row.version = v
              /\ row.amount = chain[v].amount /\ row.status \in {"completed", "need_refund"}
      BY <1>0, <1>10, BookEffect
    <2>2. \A x \in Workers : worker[x].pc = "wait" => worker'[x] = worker[x]
      BY <1>10 DEF Book, IInv, TypeOK
    <2>3. row.version \in Arrivals /\ row.destination # None
      BY <2>1, TransactionsAssumption DEF Unbooked
    <2>4. BooksInv'
      BY <2>1, <2>2, <2>3, BooksAdd
    <2> QED  BY <2>1, <2>4, ReconciledBook
  <1>11. ASSUME NEW w \in Workers, RefundWrite(w) PROVE BooksInv' /\ (Reconciled => Reconciled')
    <2>1. PICK row \in Rows : /\ txs' = Append(txs, row) /\ row.type = "refund"
                              /\ row.status = "pending"
                              /\ row.source = Inventory /\ row.destination = None /\ row.version = 0
      BY <1>11, RefundRow
    <2>2. \A x \in Workers : worker[x].pc = "wait" => worker'[x] = worker[x]
      BY <1>11 DEF RefundWrite, IInv, TypeOK
    <2>3. UNCHANGED <<web, pool, seqno, chain>> /\ Inventory \in Accounts
      BY <1>11, TransactionsAssumption DEF RefundWrite, onchain, Rest
    <2>4. BooksInv'
      BY <2>1, <2>2, <2>3, BooksAdd
    <2> QED  BY <2>1, <2>3, <2>4, ReconciledAdd
  <1>12. ASSUME NEW w \in Workers, SubmitDone(w) \/ SubmitFailed(w)
         PROVE  BooksInv' /\ (Reconciled => Reconciled')
    BY <1>12, BooksWaited, ReconciledWaited
  <1>13. ASSUME NEW w \in Workers,
                \/ \E job \in jobs : ProcessIncomingTxn(w, job) \/ SubmitOnchain(w, job)
                \/ Retry(w) \/ Refund(w) \/ RefundEnqueue(w) \/ Acknowledge(w) \/ WorkerCrash(w)
         PROVE  BooksInv' /\ (Reconciled => Reconciled')
    BY <1>13, BooksWorker, ReconciledStill
  <1>14. \A w \in Workers : ~SubmitTimeout(w)
    BY DEF SubmitTimeout, Fault, Heard
  <1>15. CASE UNCHANGED vars
    BY <1>2, <1>15 DEF vars
  <1>16. CASE UserStep
    BY <1>1, <1>3, <1>16 DEF UserStep
  <1>17. CASE FaultStep
    BY <1>6, <1>7, <1>13, <1>14, <1>17 DEF FaultStep
  <1>18. ASSUME NEW w \in Workers, WorkerStep(w) PROVE BooksInv' /\ (Reconciled => Reconciled')
    BY <1>10, <1>11, <1>12, <1>13, <1>18 DEF WorkerStep
  <1> QED  BY <1>4, <1>5, <1>8, <1>9, <1>15, <1>16, <1>17, <1>18 DEF Next, WebStep

\* Pending rows take money out, versions say which payment or arrival a row is
\* about, a payment is for a row whose worker knows or will know of it, and what
\* can still be executed is waited for.  submit_onchain gives its row up when its
\* worker stops waiting, so that no worker may time out or die while it waits.
THEOREM BooksInvariant == ASSUME Heard PROVE Spec => []BooksInv
  <1>1. Init => BooksInv
    <2> SUFFICES ASSUME Init PROVE BooksInv
      OBVIOUS
    <2>1. txs = << >> /\ DOMAIN txs = {} /\ chain = << >> /\ DOMAIN chain = {} /\ pool = {}
      BY DEF Init
    <2>2. \A t \in Threads : web[t].pc # "write"
      BY DEF Init, Idle
    <2> QED  BY <2>1, <2>2 DEF BooksInv
  <1>2. Heard /\ IInv /\ BooksInv /\ [Next]_vars => BooksInv'
    BY BooksKeep
  <1>3. Heard' = Heard
    BY DEF Heard, Alone
  <1> QED  BY <1>1, <1>2, <1>3, InvariantHolds, PTL DEF Spec

\* The wallet's chain account holds what the accounts own, what is reserved for
\* withdrawals, what is parked and what is not booked yet, to the last unit.
THEOREM BooksBalance == ASSUME Heard PROVE Spec => []Reconciled
  <1>1. Init => Reconciled
    <2> SUFFICES ASSUME Init PROVE Reconciled
      OBVIOUS
    <2>1. txs = << >> /\ DOMAIN txs = {} /\ chain = << >> /\ DOMAIN chain = {}
      BY DEF Init
    <2>2. /\ Arrivals = {} /\ Payouts = {} /\ Unsettled = {} /\ Parked = {} /\ Unbooked = {}
          /\ Credits(Accounts) = {} /\ Debits(Accounts) = {}
      BY <2>1 DEF Arrivals, Payouts, Unsettled, Parked, Unbooked, Credits, Debits
    <2>3. Total(txs, {}) = 0 /\ Total(chain, {}) = 0
      BY TotalNone
    <2> QED  BY <2>2, <2>3 DEF Reconciled, Holdings, BalanceOf
  <1>2. Heard /\ IInv /\ BooksInv /\ Reconciled /\ [Next]_vars => Reconciled'
    BY BooksKeep
  <1> QED  BY <1>1, <1>2, InvariantHolds, BooksInvariant, PTL DEF Spec

-----------------------------------------------------------------------------
(* The ledger is a custody of the customers' money.                        *)

\* A row that credits the arrival u.
Credited(u) == \E i \in DOMAIN txs : txs[i].version = u /\ txs[i].status = "completed"

\* What is recorded of a deposit, and whose it is, as long as its rows stay.
LEMMA DepositKept ==
    ASSUME IInv, BooksInv, NEW u \in Arrivals,
           \A x \in DOMAIN chain : chain'[x] = chain[x],
           \A i \in DOMAIN txs : txs'[i].source = txs[i].source,
           Recorded(u)' <=> Recorded(u), Credited(u)' <=> Credited(u)
    PROVE  DepositState(u)' = DepositState(u)
  <1>1. u \in DOMAIN chain /\ chain'[u] = chain[u]
    BY DEF Arrivals
  <1>2. AccountOf(chain[u])' = AccountOf(chain[u])
    <2>1. CASE chain[u].kind = "refund"
      <3>1. /\ chain[u].of \in DOMAIN chain /\ chain[chain[u].of].row \in DOMAIN txs
        BY <1>1, <2>1 DEF BooksInv, EventInv, Payouts, Arrivals
      <3> QED  BY <1>1, <2>1, <3>1 DEF AccountOf
    <2>2. CASE chain[u].kind = "deposit"
      BY <1>1, <2>2 DEF AccountOf
    <2>3. CASE chain[u].kind = "plain"
      BY <1>1, <2>3 DEF AccountOf
    <2>4. chain[u] \in Events /\ chain[u].kind # "out"
      BY <1>1 DEF IInv, TypeOK, Arrivals
    <2>5. chain[u].kind \in {"refund", "deposit", "plain"}
      BY <2>4 DEF Events
    <2> QED  BY <2>1, <2>2, <2>3, <2>5
  <1> DEFINE st == IF Credited(u) THEN "credited" ELSE IF Recorded(u) THEN "parked" ELSE "due"
  <1>3. st' = st
    OBVIOUS
  <1>4. DepositState(u) = [state |-> st, to |-> AccountOf(chain[u]), amount |-> chain[u].amount]
    BY DEF DepositState, Credited
  <1>5. DepositState(u)' = [state |-> st', to |-> AccountOf(chain[u])', amount |-> chain'[u].amount]
    BY DEF DepositState, Credited
  <1> QED  BY <1>1, <1>2, <1>3, <1>4, <1>5

\* The same for all of them.
LEMMA DepositsKept ==
    ASSUME IInv, BooksInv, Arrivals' = Arrivals,
           \A x \in DOMAIN chain : chain'[x] = chain[x],
           \A i \in DOMAIN txs : txs'[i].source = txs[i].source,
           \A u \in Arrivals : (Recorded(u)' <=> Recorded(u)) /\ (Credited(u)' <=> Credited(u))
    PROVE  DepositStates' = DepositStates
  <1>1. \A u \in Arrivals : DepositState(u)' = DepositState(u)
    BY DepositKept
  <1> QED  BY <1>1 DEF DepositStates

\* What became of a withdrawal, as long as its row stays and its payment.
LEMMA WithdrawalKept ==
    ASSUME NEW i, txs'[i] = txs[i], Paid(i)' <=> Paid(i)
    PROVE  WithdrawalState(i)' = WithdrawalState(i)
  BY DEF WithdrawalState

\* The balances after a row was added.
LEMMA BalancesAdd ==
    ASSUME IInv, NEW row \in Rows, NEW n, Extended(txs, txs', n, row)
    PROVE  /\ Balances' = [a \in Accounts |->
                             Balances[a] + Credit(row, {a}) - Debit(row, {a})]
           /\ Balances \in [Accounts -> Int] /\ row.amount \in Nat
  <1>1. row.amount \in Amounts /\ row.amount \in Nat
    BY LargestAmount DEF Rows
  <1>2. Table(txs)
    BY RowTable DEF IInv, TypeOK
  <1>3. \A a \in Accounts :
            /\ CalcAccountBalance(a)' = CalcAccountBalance(a) + Credit(row, {a}) - Debit(row, {a})
            /\ CalcAccountBalance(a) \in Int
    BY <1>1, <1>2, AddedBalance, BalanceType DEF CalcAccountBalance
  <1> QED  BY <1>1, <1>3 DEF Balances

\* Only the table and the chain matter.
LEMMA CustodyStill == ASSUME txs' = txs, chain' = chain PROVE C!CustodyNext
  <1>1. Arrivals' = Arrivals /\ Withdrawals' = Withdrawals /\ Payouts' = Payouts
    BY DEF Arrivals, Withdrawals, Payouts
  <1>2. /\ \A u : DepositState(u)' = DepositState(u)
        /\ \A i : WithdrawalState(i)' = WithdrawalState(i)
        /\ \A a : CalcAccountBalance(a)' = CalcAccountBalance(a)
    BY <1>1 DEF DepositState, Recorded, AccountOf, WithdrawalState, Paid, CalcAccountBalance,
                BalanceOf, Credits, Debits
  <1>3. DepositStates' = DepositStates /\ WithdrawalStates' = WithdrawalStates
        /\ Balances' = Balances
    BY <1>1, <1>2 DEF DepositStates, WithdrawalStates, Balances
  <1> QED  BY <1>3 DEF C!CustodyNext, C!Other, C!custodyVars

\* A transfer arrives: a deposit that is due.
LEMMA CustodyArrive ==
    ASSUME IInv, BooksInv, NEW event \in Events, event.kind # "out",
           event.kind = "refund" => event.of \in Payouts, chain' = Append(chain, event), txs' = txs
    PROVE  C!CustodyNext
  <1> PICK v : v = Len(chain) + 1
    OBVIOUS
  <1>1. Extended(chain, chain', v, event)
    BY EventExtends DEF IInv, TypeOK
  <1>2. Arrivals' = Arrivals \cup {v} /\ \A i : Paid(i)' <=> Paid(i)
    BY <1>1, ChainGrows
  <1>3. v \notin DOMAIN chain /\ v # 0 /\ chain'[v] = event
        /\ \A x \in DOMAIN chain : chain'[x] = chain[x]
    BY <1>1, EventAdded DEF Extended, IInv, TypeOK
  <1>4. \A i \in DOMAIN txs : txs[i].version # v
    BY <1>3 DEF BooksInv, RowInv
  <1>5. PICK to \in Accounts \cup {None} : to = AccountOf(event)'
    <2>1. CASE event.kind = "refund"
      <3>1. event.of \in DOMAIN chain /\ txs[chain[event.of].row].source \in Accounts
        BY <2>1 DEF BooksInv, EventInv, Payouts, Arrivals
      <3> QED  BY <1>3, <2>1, <3>1 DEF AccountOf
    <2>2. CASE event.kind # "refund"
      BY <2>2 DEF AccountOf, Events, Parties
    <2> QED  BY <2>1, <2>2
  <1>6. PICK n \in Amounts : n = event.amount
    BY DEF Events
  <1>7. DepositState(v)' = C!Deposit("due", to, n)
    BY <1>3, <1>4, <1>5, <1>6 DEF DepositState, Recorded, C!Deposit
  <1>8. \A u \in Arrivals : DepositState(u)' = DepositState(u)
    <2>1. \A u : (Recorded(u)' <=> Recorded(u)) /\ (Credited(u)' <=> Credited(u))
      BY DEF Recorded, Credited
    <2> QED  BY <1>3, <2>1, DepositKept
  <1>9. v \notin DOMAIN DepositStates /\ DOMAIN DepositStates = Arrivals
        /\ v \in DOMAIN DepositStates'
    BY <1>2, <1>3 DEF DepositStates, Arrivals
  <1>10. DepositStates' = C!With(DepositStates, v, C!Deposit("due", to, n))
    BY <1>2, <1>3, <1>7, <1>8, <1>9 DEF DepositStates, C!With, Arrivals
  <1>11. Balances' = Balances
    BY DEF Balances, CalcAccountBalance, BalanceOf, Credits, Debits
  <1>12. WithdrawalStates' = WithdrawalStates
    <2>1. Withdrawals' = Withdrawals
      BY DEF Withdrawals
    <2>2. \A i : WithdrawalState(i)' = WithdrawalState(i)
      BY <1>2, WithdrawalKept
    <2> QED  BY <2>1, <2>2 DEF WithdrawalStates
  <1>13. C!Arrive(v, to, n)
    BY <1>9, <1>10, <1>11, <1>12 DEF C!Arrive
  <1> QED  BY <1>9, <1>13 DEF C!CustodyNext

\* What a row that is added changes of the deposits: at most the one it records.
LEMMA RowDeposits ==
    ASSUME IInv, BooksInv, NEW row, NEW n, Extended(txs, txs', n, row),
           \A x \in DOMAIN chain : chain'[x] = chain[x],
           NEW u \in Arrivals, row.version # u
    PROVE  DepositState(u)' = DepositState(u)
  <1>1. /\ DOMAIN txs' = DOMAIN txs \cup {n} /\ txs'[n].version # u
        /\ \A i \in DOMAIN txs : txs'[i] = txs[i]
    BY DEF Extended
  <1>2. (Recorded(u)' <=> Recorded(u)) /\ (Credited(u)' <=> Credited(u))
    BY <1>1 DEF Recorded, Credited
  <1> QED  BY <1>1, <1>2, DepositKept

\* And of the withdrawals: it is one more if it takes money out.
LEMMA RowWithdrawals ==
    ASSUME NEW row, NEW n, Extended(txs, txs', n, row), \A i \in DOMAIN txs : Paid(i)' <=> Paid(i)
    PROVE  /\ row.source = None \/ row.type = "internal" => WithdrawalStates' = WithdrawalStates
           /\ row.source # None /\ row.type # "internal" =>
                 /\ n \notin DOMAIN WithdrawalStates /\ n \in DOMAIN WithdrawalStates'
                 /\ WithdrawalStates' = C!With(WithdrawalStates, n, WithdrawalState(n)')
  <1>1. /\ DOMAIN txs' = DOMAIN txs \cup {n} /\ txs'[n] = row /\ n \notin DOMAIN txs
        /\ \A i \in DOMAIN txs : txs'[i] = txs[i]
    BY DEF Extended
  <1>2. \A i \in DOMAIN txs : WithdrawalState(i)' = WithdrawalState(i)
    BY <1>1, WithdrawalKept
  <1>3. Withdrawals \subseteq DOMAIN txs
    BY DEF Withdrawals
  <1>4. ASSUME row.source = None \/ row.type = "internal" PROVE WithdrawalStates' = WithdrawalStates
    <2>1. Withdrawals' = Withdrawals
      BY <1>1, <1>4 DEF Withdrawals
    <2> QED  BY <1>2, <1>3, <2>1 DEF WithdrawalStates
  <1>5. ASSUME row.source # None, row.type # "internal"
        PROVE  /\ n \notin DOMAIN WithdrawalStates /\ n \in DOMAIN WithdrawalStates'
               /\ WithdrawalStates' = C!With(WithdrawalStates, n, WithdrawalState(n)')
    <2>1. Withdrawals' = Withdrawals \cup {n}
      BY <1>1, <1>5 DEF Withdrawals
    <2>2. \A i \in Withdrawals : WithdrawalState(i)' = WithdrawalState(i) /\ i # n
      BY <1>1, <1>2, <1>3
    <2> QED  BY <2>1, <2>2 DEF WithdrawalStates, C!With
  <1> QED  BY <1>4, <1>5

\* A row that takes money from an account.
LEMMA BalancesTaken ==
    ASSUME IInv, NEW row \in Rows, NEW n, Extended(txs, txs', n, row),
           row.source \in Accounts, row.destination = None, row.status # "canceled"
    PROVE  Balances' = [Balances EXCEPT ![row.source] = @ - row.amount]
  <1>1. /\ Balances' = [a \in Accounts |-> Balances[a] + Credit(row, {a}) - Debit(row, {a})]
        /\ Balances \in [Accounts -> Int] /\ row.amount \in Nat
    BY BalancesAdd
  <1>2. \A a \in Accounts : Credit(row, {a}) = 0
    BY TransactionsAssumption DEF Credit
  <1>3. \A a \in Accounts : Debit(row, {a}) = IF a = row.source THEN row.amount ELSE 0
    BY DEF Debit
  <1>4. \A x \in Int, m \in Nat : x + 0 - m = x - m /\ x + 0 - 0 = x
    OBVIOUS
  <1>5. \A a \in Accounts : Balances'[a] = IF a = row.source THEN Balances[a] - row.amount
                                                            ELSE Balances[a]
    <2> TAKE a \in Accounts
    <2>1. Balances'[a] = Balances[a] + 0 - Debit(row, {a}) /\ Balances[a] \in Int
      BY <1>1, <1>2
    <2> QED  BY <1>1, <1>3, <1>4, <2>1
  <1> QED  BY <1>1, <1>5

\* Money is taken from a balance for a withdrawal.
LEMMA CustodyTaken ==
    ASSUME IInv, BooksInv, NEW row \in Rows, NEW n, Extended(txs, txs', n, row),
           row.source \in Accounts, row.destination = None, row.status # "canceled",
           row.type # "internal", row.version \notin Arrivals, Arrivals' = Arrivals,
           \A x \in DOMAIN chain : chain'[x] = chain[x],
           \A i \in DOMAIN txs : Paid(i)' <=> Paid(i)
    PROVE  C!CustodyNext
  <1>1. DepositStates' = DepositStates
    <2>1. \A u \in Arrivals : DepositState(u)' = DepositState(u)
      BY RowDeposits
    <2> QED  BY <2>1 DEF DepositStates
  <1>2. Balances' = [Balances EXCEPT ![row.source] = @ - row.amount]
    BY BalancesTaken
  <1>3. /\ n \notin DOMAIN WithdrawalStates /\ n \in DOMAIN WithdrawalStates'
        /\ WithdrawalStates' = C!With(WithdrawalStates, n, WithdrawalState(n)')
    BY RowWithdrawals, TransactionsAssumption
  <1>4. PICK status \in {"reserved", "paid"} :
            WithdrawalState(n)' = C!Withdrawal(status, row.source, row.amount)
    <2>1. txs'[n] = row
      BY DEF Extended
    <2> QED  BY <2>1 DEF WithdrawalState, C!Withdrawal
  <1>5. C!Withdraw(n, row.source, row.amount, status)
    BY <1>1, <1>2, <1>3, <1>4 DEF C!Withdraw
  <1>6. row.amount \in Amounts
    BY DEF Rows
  <1> QED  BY <1>3, <1>5, <1>6 DEF C!CustodyNext

\* A customer's transfer: to another one, or out of the wallet.
LEMMA CustodyAdd == ASSUME IInv, BooksInv, NEW t \in Threads, AddTransaction(t) PROVE C!CustodyNext
  <1>1. PICK row \in Rows, from \in Accounts, to \in Parties, n \in Amounts :
            /\ web[t].pc = "write" /\ from = web[t].from /\ to = web[t].to
            /\ txs' = Append(txs, row) /\ UNCHANGED <<worker, pool, seqno, chain>>
            /\ row = IF to = None THEN Row("external", "pending", n, from, None, 0, 0)
                                  ELSE Row("internal", "completed", n, from, to, 0, 0)
            /\ \A u \in Threads : web'[u].pc = "write" => web'[u] = web[u]
    BY AddedRow
  <1> PICK k : k = Len(txs) + 1
    OBVIOUS
  <1>2. Extended(txs, txs', k, row)
    BY <1>1, RowExtends DEF IInv, TypeOK
  <1>3. chain' = chain /\ Arrivals' = Arrivals /\ \A i : Paid(i)' <=> Paid(i)
    BY <1>1 DEF Arrivals, Payouts, Paid
  <1>4. 0 \notin Arrivals
    BY ChainTable DEF IInv, TypeOK, Arrivals
  <1>5. CASE to = None
    <2>1. /\ row.source \in Accounts /\ row.destination = None /\ row.status # "canceled"
          /\ row.type # "internal" /\ row.version = 0
      BY <1>1, <1>5 DEF Row
    <2> QED  BY <1>2, <1>3, <1>4, <2>1, CustodyTaken
  <1>6. CASE to # None
    <2>1. /\ row.source = from /\ row.destination = to /\ row.status = "completed"
          /\ row.type = "internal" /\ row.version = 0 /\ row.amount = n
      BY <1>1, <1>6 DEF Row
    <2>2. from # to /\ to \in Accounts
      BY <1>1, <1>6 DEF BooksInv, Parties
    <2>3. DepositStates' = DepositStates
      <3>1. \A u \in Arrivals : DepositState(u)' = DepositState(u)
        BY <1>2, <1>3, <1>4, <2>1, RowDeposits
      <3> QED  BY <1>3, <3>1 DEF DepositStates
    <2>4. WithdrawalStates' = WithdrawalStates
      BY <1>2, <1>3, <2>1, RowWithdrawals
    <2>5. /\ Balances' = [a \in Accounts |-> Balances[a] + Credit(row, {a}) - Debit(row, {a})]
          /\ Balances \in [Accounts -> Int] /\ n \in Nat
      BY <1>2, <2>1, BalancesAdd
    <2>6. \A a \in Accounts : /\ Credit(row, {a}) = IF a = to THEN n ELSE 0
                              /\ Debit(row, {a}) = IF a = from THEN n ELSE 0
      BY <2>1 DEF Credit, Debit
    <2>7. \A x \in Int, m \in Nat : x + 0 - m = x - m /\ x + 0 - 0 = x /\ x + m - 0 = x + m
      OBVIOUS
    <2>8. ASSUME NEW a \in Accounts
          PROVE  Balances'[a] = IF a = to THEN Balances[a] + n
                                ELSE IF a = from THEN Balances[a] - n ELSE Balances[a]
      BY <2>2, <2>5, <2>6, <2>7
    <2>9. Balances' = [Balances EXCEPT ![from] = @ - n, ![to] = @ + n]
      <3>1. DOMAIN Balances' = Accounts /\ DOMAIN Balances = Accounts
        BY <2>5
      <3> QED  BY <2>2, <2>5, <2>8, <3>1
    <2>10. C!Move(from, to, n)
      BY <2>2, <2>3, <2>4, <2>9 DEF C!Move
    <2> QED  BY <2>2, <2>10 DEF C!CustodyNext
  <1> QED  BY <1>5, <1>6

\* What is sent back from the inventory.
LEMMA CustodyRefund == ASSUME IInv, BooksInv, NEW w \in Workers, RefundWrite(w) PROVE C!CustodyNext
  <1>1. PICK row \in Rows : /\ txs' = Append(txs, row) /\ row.type = "refund"
                            /\ row.status = "pending"
                            /\ row.source = Inventory /\ row.destination = None /\ row.version = 0
    BY RefundRow
  <1> PICK k : k = Len(txs) + 1
    OBVIOUS
  <1>2. Extended(txs, txs', k, row)
    BY <1>1, RowExtends DEF IInv, TypeOK
  <1>3. chain' = chain /\ Inventory \in Accounts
    BY TransactionsAssumption DEF RefundWrite, onchain
  <1>4. Arrivals' = Arrivals /\ \A i : Paid(i)' <=> Paid(i)
    BY <1>3 DEF Arrivals, Payouts, Paid
  <1>5. 0 \notin Arrivals
    BY ChainTable DEF IInv, TypeOK, Arrivals
  <1> QED  BY <1>1, <1>2, <1>3, <1>4, <1>5, CustodyTaken

\* A travel rule payment.
LEMMA CustodySettle ==
    ASSUME IInv, BooksInv, NEW c \in commands, SettleCommand(c)
    PROVE  C!CustodyNext
  <1>1. PICK row \in Rows : /\ txs' = Append(txs, row) /\ c.from \in Accounts
            /\ row = Row("offchain", "completed", c.amount, c.from, None, Len(chain) + 1, 0)
    BY CommandRow
  <1> PICK k : k = Len(txs) + 1
    OBVIOUS
  <1> PICK v : v = Len(chain) + 1
    OBVIOUS
  <1>2. Extended(txs, txs', k, row)
    BY <1>1, RowExtends DEF IInv, TypeOK
  <1>3. PICK event \in Events : event.kind = "out" /\ event.row = k /\ chain' = Append(chain, event)
    <2>1. PICK e : /\ e = [kind |-> "out", amount |-> c.amount, row |-> k, seq |-> seqno,
                           by |-> None]
                   /\ chain' = Append(chain, e)
      BY DEF SettleCommand
    <2>2. e \in Events
      BY <2>1, RowAdded, <1>1 DEF IInv, TypeOK, Events
    <2> QED  BY <2>1, <2>2
  <1>4. Extended(chain, chain', v, event)
    BY <1>3, EventExtends DEF IInv, TypeOK
  <1>5. Arrivals' = Arrivals /\ \A i : Paid(i)' <=> Paid(i) \/ k = i
    BY <1>3, <1>4, ChainGrows
  <1>6. v \notin Arrivals /\ k \notin DOMAIN txs /\ \A x \in DOMAIN chain : chain'[x] = chain[x]
    BY <1>2, <1>4 DEF Extended, Arrivals
  <1>7. /\ row.source \in Accounts /\ row.destination = None /\ row.status # "canceled"
        /\ row.type # "internal" /\ row.version = v
    BY <1>1 DEF Row
  <1> QED  BY <1>2, <1>5, <1>6, <1>7, CustodyTaken

\* The transfer that a worker books is credited or parked.
LEMMA CustodyBook == ASSUME IInv, BooksInv, Alone, NEW w \in Workers, Book(w) PROVE C!CustodyNext
  <1>1. PICK row \in Rows, v \in Unbooked :
            /\ v = worker[w].job.of /\ txs' = Append(txs, row)
            /\ UNCHANGED <<web, pool, seqno, chain>>
            /\ row.source = None /\ row.destination \in Accounts /\ row.version = v
            /\ row.amount = chain[v].amount /\ row.status \in {"completed", "need_refund"}
            /\ chain[v].kind \in {"deposit", "refund"}
            /\ row.status = "need_refund" <=> AccountOf(chain[v]) = None
            /\ row.status = "completed" => row.destination = AccountOf(chain[v])
    BY BookEffect
  <1> PICK k : k = Len(txs) + 1
    OBVIOUS
  <1>2. Extended(txs, txs', k, row)
    BY <1>1, RowExtends DEF IInv, TypeOK
  <1>3. /\ k \notin DOMAIN txs /\ DOMAIN txs' = DOMAIN txs \cup {k} /\ txs'[k] = row
        /\ \A i \in DOMAIN txs : txs'[i] = txs[i]
    BY <1>2 DEF Extended
  <1>4. Arrivals' = Arrivals /\ (\A i : Paid(i)' <=> Paid(i)) /\ v \in Arrivals /\ ~Recorded(v)
    BY <1>1 DEF Arrivals, Payouts, Paid, Unbooked
  <1>5. \A i \in DOMAIN txs : txs[i].version # v
    <2> SUFFICES ASSUME NEW i \in DOMAIN txs, txs[i].version = v PROVE FALSE
      OBVIOUS
    <2>1. v # 0 /\ v \notin Payouts
      BY <1>4, ChainTable DEF IInv, TypeOK, Arrivals, Payouts
    <2>2. txs[i].destination # None
      BY <2>1 DEF BooksInv, RowInv
    <2> QED  BY <1>4, <2>2 DEF Recorded
  <1>6. PICK to : to = AccountOf(chain[v])
    OBVIOUS
  <1>7. AccountOf(chain[v])' = to
    <2>1. CASE chain[v].kind = "deposit"
      BY <1>1, <1>6, <2>1 DEF AccountOf
    <2>2. CASE chain[v].kind = "refund"
      <3>1. /\ chain[v].of \in DOMAIN chain /\ chain[chain[v].of].row \in DOMAIN txs
        BY <1>4, <2>2 DEF BooksInv, EventInv, Payouts, Arrivals
      <3>2. txs'[chain[chain[v].of].row] = txs[chain[chain[v].of].row]
        BY <1>3, <3>1
      <3> QED  BY <1>1, <1>6, <2>2, <3>1, <3>2 DEF AccountOf
    <2> QED  BY <1>1, <2>1, <2>2
  <1> PICK m : m = chain[v].amount
    OBVIOUS
  <1>8. DepositState(v) = C!Deposit("due", to, m)
    BY <1>4, <1>5, <1>6 DEF DepositState, C!Deposit
  <1>9. Recorded(v)' /\ (Credited(v)' <=> row.status = "completed")
    BY <1>1, <1>3, <1>5, TransactionsAssumption DEF Recorded, Credited
  <1>10. DepositState(v)' = C!Deposit(IF to = None THEN "parked" ELSE "credited", to, m)
    <2>1. chain'[v].amount = m /\ AccountOf(chain[v])' = to
      BY <1>1, <1>7
    <2>2. Credited(v)' <=> to # None
      BY <1>1, <1>6, <1>9
    <2>3. DepositState(v)' = [state |-> IF Credited(v)' THEN "credited"
                                        ELSE IF Recorded(v)' THEN "parked" ELSE "due",
                              to |-> AccountOf(chain[v])', amount |-> chain'[v].amount]
      BY DEF DepositState, Credited
    <2> QED  BY <1>9, <2>1, <2>2, <2>3 DEF C!Deposit
  <1>11. \A u \in Arrivals \ {v} : DepositState(u)' = DepositState(u)
    BY <1>1, <1>2, RowDeposits
  <1>12. /\ v \in DOMAIN DepositStates /\ DepositStates[v] = C!Deposit("due", to, m)
    BY <1>4, <1>8 DEF DepositStates
  <1>13. DepositStates' = [DepositStates EXCEPT
                             ![v].state = IF to = None THEN "parked" ELSE "credited"]
    <2>1. [C!Deposit("due", to, m) EXCEPT !.state = IF to = None THEN "parked" ELSE "credited"]
             = C!Deposit(IF to = None THEN "parked" ELSE "credited", to, m)
      BY DEF C!Deposit
    <2>2. DepositStates' = [u \in Arrivals |-> DepositState(u)']
      BY <1>4 DEF DepositStates
    <2>3. DepositStates' = [DepositStates EXCEPT ![v] =
              C!Deposit(IF to = None THEN "parked" ELSE "credited", to, m)]
      BY <1>4, <1>10, <1>11, <2>2 DEF DepositStates
    <2> QED  BY <1>12, <2>1, <2>3
  <1>14. WithdrawalStates' = WithdrawalStates
    BY <1>1, <1>2, <1>4, RowWithdrawals
  <1>15. /\ Balances' = [a \in Accounts |-> Balances[a] + Credit(row, {a}) - Debit(row, {a})]
         /\ Balances \in [Accounts -> Int] /\ m \in Nat
    BY <1>1, <1>2, BalancesAdd
  <1>16. \A a \in Accounts : Debit(row, {a}) = 0
    BY <1>1, TransactionsAssumption DEF Debit
  <1>17. \A x \in Int, y \in Nat : x + 0 - 0 = x /\ x + y - 0 = x + y
    OBVIOUS
  <1>18. CASE to = None
    <2>1. \A a \in Accounts : Credit(row, {a}) = 0
      BY <1>1, <1>6, <1>18 DEF Credit
    <2>2. Balances' = Balances
      BY <1>15, <1>16, <1>17, <2>1
    <2>3. DepositStates' = [DepositStates EXCEPT ![v].state = "parked"]
      BY <1>13, <1>18
    <2>4. C!Park(v)
      BY <1>12, <1>14, <1>18, <2>2, <2>3 DEF C!Park, C!Deposit
    <2> QED  BY <1>12, <2>4 DEF C!CustodyNext
  <1>19. CASE to # None
    <2>1. row.status = "completed" /\ row.destination = to /\ to \in Accounts
      BY <1>1, <1>6, <1>19
    <2>2. \A a \in Accounts : Credit(row, {a}) = IF a = to THEN m ELSE 0
      BY <1>1, <2>1 DEF Credit
    <2>3. ASSUME NEW a \in Accounts
          PROVE  Balances'[a] = IF a = to THEN Balances[a] + m ELSE Balances[a]
      BY <1>15, <1>16, <1>17, <2>2
    <2>4. Balances' = [Balances EXCEPT ![to] = @ + m]
      BY <1>15, <2>1, <2>3
    <2>5. DepositStates' = [DepositStates EXCEPT ![v].state = "credited"]
      BY <1>13, <1>19
    <2>6. DepositStates[v].state = "due" /\ DepositStates[v].to = to /\ DepositStates[v].amount = m
      BY <1>12 DEF C!Deposit
    <2>7. C!Credit(v)
      BY <1>14, <1>19, <2>4, <2>5, <2>6 DEF C!Credit
    <2> QED  BY <1>12, <2>7 DEF C!CustodyNext
  <1> QED  BY <1>18, <1>19

\* What the chain executes is a withdrawal that is paid.
LEMMA CustodyExecute == ASSUME IInv, BooksInv, NEW p \in pool, Execute(p) PROVE C!CustodyNext
  <1>1. /\ p.seq = seqno /\ seqno \in Nat /\ txs' = txs
        /\ \/ chain' = chain
           \/ \E event \in Events : /\ event.kind = "out" /\ event.row = p.row /\ event.seq = p.seq
                                    /\ event.by = p.by /\ event.amount = p.amount
                                    /\ chain' = Append(chain, event)
    BY ExecuteEffect
  <1>2. CASE chain' = chain
    BY <1>1, <1>2, CustodyStill
  <1>3. ASSUME NEW event \in Events, event.kind = "out", event.row = p.row,
               chain' = Append(chain, event)
        PROVE  C!CustodyNext
    <2> PICK v : v = Len(chain) + 1
      OBVIOUS
    <2> PICK i : i = p.row
      OBVIOUS
    <2>1. Extended(chain, chain', v, event)
      BY <1>3, EventExtends DEF IInv, TypeOK
    <2>2. Arrivals' = Arrivals /\ \A j : Paid(j)' <=> Paid(j) \/ i = j
      BY <1>3, <2>1, ChainGrows
    <2>3. \A x \in DOMAIN chain : chain'[x] = chain[x]
      BY <2>1 DEF Extended
    <2>4. /\ i \in DOMAIN txs /\ ~Paid(i) /\ txs[i].source \in Accounts
          /\ txs[i].type \in {"external", "refund"} /\ txs[i].status = "pending"
      BY <1>1, PoolFacts DEF Unsettled
    <2>5. DepositStates' = DepositStates
      <3>1. \A u : (Recorded(u)' <=> Recorded(u)) /\ (Credited(u)' <=> Credited(u))
        BY <1>1 DEF Recorded, Credited
      <3> QED  BY <1>1, <2>2, <2>3, <3>1, DepositsKept
    <2>6. Balances' = Balances
      BY <1>1 DEF Balances, CalcAccountBalance, BalanceOf, Credits, Debits
    <2>7. Withdrawals' = Withdrawals /\ i \in Withdrawals
      BY <1>1, <2>4, TransactionsAssumption DEF Withdrawals
    <2>8. \A j \in Withdrawals \ {i} : WithdrawalState(j)' = WithdrawalState(j)
      BY <1>1, <2>2, WithdrawalKept
    <2>9. /\ WithdrawalState(i) = C!Withdrawal("reserved", txs[i].source, txs[i].amount)
          /\ WithdrawalState(i)' = C!Withdrawal("paid", txs[i].source, txs[i].amount)
      BY <1>1, <2>2, <2>4 DEF WithdrawalState, C!Withdrawal
    <2>10. /\ i \in DOMAIN WithdrawalStates
           /\ WithdrawalStates[i] = C!Withdrawal("reserved", txs[i].source, txs[i].amount)
      BY <2>7, <2>9 DEF WithdrawalStates
    <2>11. WithdrawalStates' = [WithdrawalStates EXCEPT ![i].state = "paid"]
      <3>1. [C!Withdrawal("reserved", txs[i].source, txs[i].amount) EXCEPT !.state = "paid"]
               = C!Withdrawal("paid", txs[i].source, txs[i].amount)
        BY DEF C!Withdrawal
      <3>2. WithdrawalStates' = [j \in Withdrawals |-> WithdrawalState(j)']
        BY <2>7 DEF WithdrawalStates
      <3>3. WithdrawalStates' = [WithdrawalStates EXCEPT ![i] =
                C!Withdrawal("paid", txs[i].source, txs[i].amount)]
        BY <2>7, <2>8, <2>9, <3>2 DEF WithdrawalStates
      <3> QED  BY <2>10, <3>1, <3>3
    <2>12. C!Pay(i)
      BY <2>5, <2>6, <2>10, <2>11 DEF C!Pay, C!Withdrawal
    <2> QED  BY <2>10, <2>12 DEF C!CustodyNext
  <1> QED  BY <1>1, <1>2, <1>3

\* A withdrawal that was paid is booked; one that failed is released.
LEMMA CustodyWaited ==
    ASSUME IInv, BooksInv, NEW w \in Workers, SubmitDone(w) \/ SubmitFailed(w)
    PROVE  C!CustodyNext
  <1>1. PICK i \in DOMAIN txs, status \in {"completed", "canceled"} :
            /\ i = worker[w].job.of /\ Settled(i, status)
            /\ status = "completed" <=> SubmitDone(w)
            /\ SubmitDone(w) => txs'[i].version \in Executed(w)
            /\ ~SubmitDone(w) => txs'[i].version = txs[i].version
    BY WaitedRow
  <1>2. chain' = chain
    BY DEF SubmitDone, SubmitFailed, Cancel, onchain
  <1>3. Arrivals' = Arrivals /\ Payouts' = Payouts /\ \A k : Paid(k)' <=> Paid(k)
    BY <1>2 DEF Payouts, Arrivals, Paid
  <1>4. /\ DOMAIN txs' = DOMAIN txs /\ \A j \in DOMAIN txs \ {i} : txs'[j] = txs[j]
        /\ txs'[i].source = txs[i].source /\ txs'[i].amount = txs[i].amount
        /\ txs'[i].type = txs[i].type /\ txs'[i].destination = None /\ txs[i].destination = None
        /\ txs'[i].status = status /\ txs[i].status = "pending"
    BY <1>1 DEF Settled
  <1>5. txs[i].source \in Accounts /\ txs[i].type # "internal" /\ txs[i].version = 0
    BY <1>4 DEF BooksInv, RowInv, IInv, RowsInv
  <1>6. txs'[i].version \notin Arrivals
    <2>1. 0 \notin Arrivals
      BY ChainTable DEF IInv, TypeOK, Arrivals
    <2> QED  BY <1>1, <1>5, <2>1 DEF Executed, Arrivals
  <1>7. DepositStates' = DepositStates
    <2>1. \A u \in Arrivals : (Recorded(u)' <=> Recorded(u)) /\ (Credited(u)' <=> Credited(u))
      <3> TAKE u \in Arrivals
      <3>1. txs[i].version # u \/ txs[i].status # "completed"
        BY <1>4
      <3> QED  BY <1>4, <1>6, <3>1 DEF Recorded, Credited
    <2>2. \A j \in DOMAIN txs : txs'[j].source = txs[j].source
      BY <1>4
    <2> QED  BY <1>2, <1>3, <2>1, <2>2, DepositsKept
  <1>8. Withdrawals' = Withdrawals /\ i \in Withdrawals
    BY <1>4, <1>5, TransactionsAssumption DEF Withdrawals
  <1>9. \A j \in Withdrawals \ {i} : WithdrawalState(j)' = WithdrawalState(j)
    BY <1>3, <1>4, WithdrawalKept DEF Withdrawals
  <1>10. WithdrawalStates' = [j \in Withdrawals |-> WithdrawalState(j)']
    BY <1>8 DEF WithdrawalStates
  <1>11. Table(txs) /\ txs[i].amount \in Nat
    <2>1. Table(txs)
      BY RowTable DEF IInv, TypeOK
    <2> QED  BY <2>1, LargestAmount DEF Table
  <1>12. CASE SubmitDone(w)
    <2>1. Paid(i) /\ status = "completed"
      BY <1>1, <1>12 DEF Executed, Paid, Payouts, Arrivals
    <2>2. WithdrawalState(i)' = WithdrawalState(i)
      BY <1>3, <1>4, <2>1 DEF WithdrawalState
    <2>3. WithdrawalStates' = WithdrawalStates
      BY <1>9, <1>10, <2>2 DEF WithdrawalStates
    <2>4. \A a \in Accounts : CalcAccountBalance(a)' = CalcAccountBalance(a)
      <3> TAKE a \in Accounts
      <3>1. None \notin {a}
        BY TransactionsAssumption
      <3> QED  BY <1>1, <1>11, <2>1, <3>1, SettledTotals DEF CalcAccountBalance
    <2>5. Balances' = Balances
      BY <2>4 DEF Balances
    <2> QED  BY <1>7, <2>3, <2>5 DEF C!CustodyNext, C!Other, C!custodyVars
  <1>13. CASE ~SubmitDone(w)
    <2>1. ~Paid(i) /\ status = "canceled"
      BY <1>1, <1>13, FailedUnpaid
    <2> PICK a : a = txs[i].source
      OBVIOUS
    <2> PICK m : m = txs[i].amount
      OBVIOUS
    <2>2. /\ WithdrawalState(i) = C!Withdrawal("reserved", a, m)
          /\ WithdrawalState(i)' = C!Withdrawal("released", a, m)
      BY <1>3, <1>4, <2>1 DEF WithdrawalState, C!Withdrawal
    <2>3. i \in DOMAIN WithdrawalStates /\ WithdrawalStates[i] = C!Withdrawal("reserved", a, m)
      BY <1>8, <2>2 DEF WithdrawalStates
    <2>4. WithdrawalStates' = [WithdrawalStates EXCEPT ![i].state = "released"]
      <3>1. [C!Withdrawal("reserved", a, m) EXCEPT !.state = "released"]
               = C!Withdrawal("released", a, m)
        BY DEF C!Withdrawal
      <3>2. WithdrawalStates' = [WithdrawalStates EXCEPT ![i] = C!Withdrawal("released", a, m)]
        BY <1>8, <1>9, <1>10, <2>2 DEF WithdrawalStates
      <3> QED  BY <2>3, <3>1, <3>2
    <2>5. \A b \in Accounts : CalcAccountBalance(b)' = IF b = a THEN CalcAccountBalance(b) + m
                                                       ELSE CalcAccountBalance(b)
      <3> TAKE b \in Accounts
      <3>1. None \notin {b}
        BY TransactionsAssumption
      <3> QED  BY <1>1, <1>11, <2>1, <3>1, SettledTotals DEF CalcAccountBalance
    <2>6. Balances' = [Balances EXCEPT ![a] = @ + m]
      BY <1>5, <2>5 DEF Balances
    <2>7. C!Release(i)
      BY <1>7, <2>3, <2>4, <2>6 DEF C!Release, C!Withdrawal
    <2> QED  BY <2>3, <2>7 DEF C!CustodyNext
  <1> QED  BY <1>12, <1>13

\* Every step of the ledger is one of the custody's.
LEMMA CustodyKeeps ==
    ASSUME Heard, IInv, BooksInv, [Next]_vars
    PROVE  C!CustodyNext
  <1>1. ASSUME \/ \E to \in Parties, n \in Amounts, b \in BOOLEAN : Deposit(to, n, b)
               \/ \E n \in Amounts : PlainDeposit(n)
               \/ \E v \in DOMAIN chain : RefundByPeer(v)
        PROVE  C!CustodyNext
    BY <1>1, ArriveEffect, CustodyArrive
  <1>2. ASSUME \/ UNCHANGED vars
               \/ \E t \in Threads, from \in Accounts \ {Inventory}, to \in Parties, n \in Amounts :
                     SendTransaction(t, from, to, n)
               \/ \E t \in Threads : Enqueue(t)
               \/ WebRestart \/ \E v \in DOMAIN chain : Resend(v)
        PROVE  C!CustodyNext
    <2>1. txs' = txs /\ chain' = chain
      BY <1>2 DEF vars, SendTransaction, Enqueue, WebRestart, Resend, onchain
    <2> QED  BY <2>1, CustodyStill
  <1>3. ASSUME NEW w \in Workers,
               \/ \E job \in jobs : ProcessIncomingTxn(w, job) \/ SubmitOnchain(w, job)
               \/ Retry(w) \/ Refund(w) \/ RefundEnqueue(w) \/ Acknowledge(w) \/ WorkerCrash(w)
        PROVE  C!CustodyNext
    BY <1>3, BooksWorker, CustodyStill
  <1>4. \A w \in Workers : ~SubmitTimeout(w)
    BY DEF SubmitTimeout, Fault, Heard
  <1>5. CASE UserStep
    BY <1>1, <1>2, <1>5 DEF UserStep
  <1>6. CASE FaultStep
    BY <1>2, <1>3, <1>4, <1>6 DEF FaultStep
  <1>7. ASSUME NEW t \in Threads, WebStep(t) PROVE C!CustodyNext
    BY <1>2, <1>7, CustodyAdd DEF WebStep
  <1>8. ASSUME NEW w \in Workers, WorkerStep(w) PROVE C!CustodyNext
    BY <1>3, <1>8, CustodyBook, CustodyRefund, CustodyWaited DEF WorkerStep, Heard
  <1>9. CASE UNCHANGED vars
    BY <1>2, <1>9
  <1> QED  BY <1>5, <1>6, <1>7, <1>8, <1>9, CustodySettle, CustodyExecute DEF Next

\* The ledger keeps what a custodial wallet promises.
THEOREM LedgerIsCustody == ASSUME Heard PROVE Spec => ImplementsCustody
  <1>1. Init => C!CustodyInit
    <2> SUFFICES ASSUME Init PROVE C!CustodyInit
      OBVIOUS
    <2>1. txs = << >> /\ DOMAIN txs = {} /\ chain = << >> /\ DOMAIN chain = {}
      BY DEF Init
    <2>2. Arrivals = {} /\ Withdrawals = {} /\ \A S : Credits(S) = {} /\ Debits(S) = {}
      BY <2>1 DEF Arrivals, Withdrawals, Credits, Debits
    <2>3. DepositStates = << >> /\ WithdrawalStates = << >>
      BY <2>2 DEF DepositStates, WithdrawalStates
    <2>4. \A a \in Accounts : CalcAccountBalance(a) = 0
      BY <2>2, TotalNone DEF CalcAccountBalance, BalanceOf
    <2> QED  BY <2>3, <2>4 DEF C!CustodyInit, Balances
  <1>2. Heard /\ IInv /\ BooksInv /\ [Next]_vars => C!CustodyNext
    BY CustodyKeeps
  <1>3. C!CustodyNext => [C!CustodyNext]_C!custodyVars
    OBVIOUS
  <1> QED  BY <1>1, <1>2, <1>3, InvariantHolds, BooksInvariant, PTL
          DEF Spec, ImplementsCustody, C!CustodySpec
=============================================================================
