---------------------------- MODULE OrdersProofs ----------------------------
(***************************************************************************)
(* What an order shows is backed by money, and nothing is repeated more    *)
(* often than requests and faults account for, for any number of orders,   *)
(* workers, requests, dead workers and failing calls: the two inductive    *)
(* invariants of Orders.                                                   *)
(***************************************************************************)
EXTENDS Orders, SequenceTheorems, FiniteSetTheorems, TLAPS

\* What no step takes back: an order's direction, money that moved, payments that
\* were made and trades that are complete.  Nothing is done about an order that does
\* not exist.
Grows ==
    \A o \in OrderIds :
        /\ orders[o] # NoOrder => orders'[o] # NoOrder /\ orders'[o].dir = orders[o].dir
        /\ orders[o] = NoOrder =>
              moved'[o] = moved[o] /\ pays'[o] = pays[o] /\ trades'[o] = trades[o]
        /\ moved'[o] \in Nat /\ moved'[o] >= moved[o]
        /\ \A i \in DOMAIN pays[o] :
              i \in DOMAIN pays'[o] /\ (pays[o][i] = "paid" => pays'[o][i] = "paid")
        /\ \A i \in DOMAIN trades[o] :
              i \in DOMAIN trades'[o] /\ (trades[o][i] # "asked" => trades'[o][i] # "asked")

\* A worker at work has a job about one of the orders.
LEMMA AtWork ==
    ASSUME TypeOK, NEW w \in Workers, worker[w].pc # "idle"
    PROVE  worker[w] \in Jobs /\ worker[w] # Idle
  BY DEF TypeOK, Idle

\* Writing one field of an order that exists keeps its row a row.
LEMMA RowKept ==
    ASSUME TypeOK, NEW o \in OrderIds, orders[o] # NoOrder
    PROVE  /\ \A s \in OrderStatuses :
                 SetStatus(o, s) => orders' \in [OrderIds -> Rows \cup {NoOrder}]
           /\ \A s \in CoverStatuses :
                 SetCover(o, s) => orders' \in [OrderIds -> Rows \cup {NoOrder}]
  <1>1. orders \in [OrderIds -> Rows \cup {NoOrder}] /\ orders[o] \in Rows
    BY DEF TypeOK
  <1>2. ASSUME NEW s \in OrderStatuses, SetStatus(o, s)
        PROVE  orders' \in [OrderIds -> Rows \cup {NoOrder}]
    <2>1. [orders[o] EXCEPT !.status = s] \in Rows
      BY <1>1 DEF Rows
    <2> QED  BY <1>1, <1>2, <2>1 DEF SetStatus
  <1>3. ASSUME NEW s \in CoverStatuses, SetCover(o, s)
        PROVE  orders' \in [OrderIds -> Rows \cup {NoOrder}]
    <2>1. [orders[o] EXCEPT !.cover = s] \in Rows
      BY <1>1 DEF Rows
    <2> QED  BY <1>1, <1>3, <2>1 DEF SetCover
  <1> QED  BY <1>2, <1>3

\* Replacing an entry of a sequence that is about one order keeps it a sequence.
LEMMA EntryKept ==
    ASSUME NEW S, NEW f \in [OrderIds -> Seq(S)], NEW o \in OrderIds,
           NEW i \in DOMAIN f[o], NEW s \in S
    PROVE  /\ [f EXCEPT ![o][i] = s] \in [OrderIds -> Seq(S)]
           /\ [f EXCEPT ![o][i] = s] = [f EXCEPT ![o] = [f[o] EXCEPT ![i] = s]]
  <1>1. [f[o] EXCEPT ![i] = s] \in Seq(S)
    <2>1. i \in 1..Len(f[o])  OBVIOUS
    <2> QED  BY <2>1, ExceptSeq
  <1> QED  BY <1>1

\* Appending to one of them keeps what they hold.
LEMMA AppendKept ==
    ASSUME NEW S, NEW f \in [OrderIds -> Seq(S)], NEW o \in OrderIds, NEW s \in S,
           NEW g, g = [f EXCEPT ![o] = Append(@, s)]
    PROVE  /\ g \in [OrderIds -> Seq(S)]
           /\ \A p \in OrderIds : \A i \in DOMAIN f[p] : i \in DOMAIN g[p] /\ g[p][i] = f[p][i]
           /\ g[o] # <<>> /\ Len(f[o]) + 1 \in DOMAIN g[o]
  <1>1. f[o] \in Seq(S) /\ Append(f[o], s) \in Seq(S)
    OBVIOUS
  <1>2. \A i \in DOMAIN f[o] : i \in DOMAIN Append(f[o], s) /\ Append(f[o], s)[i] = f[o][i]
    BY <1>1
  <1>3. Append(f[o], s) # <<>> /\ Len(f[o]) + 1 \in DOMAIN Append(f[o], s)
    BY <1>1
  <1>4. g[o] = Append(f[o], s) /\ \A p \in OrderIds : p # o => g[p] = f[p]
    OBVIOUS
  <1> QED  BY <1>1, <1>2, <1>3, <1>4

\* The initial state satisfies the invariant.
LEMMA InitIInv == Init => IInv
  <1> SUFFICES ASSUME Init PROVE IInv  OBVIOUS
  <1> USE DEF Init
  <1>1. TypeOK
    BY OrdersAssumption DEF TypeOK, Kinds
  <1>2. JobsInv
    BY DEF JobsInv, Kinds
  <1>3. \A w \in Workers : Position(w)
    BY DEF Position
  <1>4. StatusIsBacked
    BY DEF StatusIsBacked, ExecutedIsBooked, CoveredIsTraded, NoOrder
  <1> QED  BY <1>1, <1>2, <1>3, <1>4 DEF IInv

\* A worker that moves on still has a job about its order.
LEMMA GotoKept ==
    ASSUME TypeOK, NEW w \in Workers, worker[w].pc # "idle",
           NEW pc \in ExecutePcs \cup CoverPcs, NEW n \in Nat, Goto(w, pc, n)
    PROVE  worker' \in [Workers -> Jobs \cup {Idle}]
  BY AtWork DEF TypeOK, Goto, At, Jobs

\* A worker that ends its job is typed.
LEMMA EndsKept ==
    ASSUME TypeOK, NEW w \in Workers, Ends(w)
    PROVE  worker' \in [Workers -> Jobs \cup {Idle}]
  BY DEF TypeOK, Ends

\* Every step keeps the variables' types.
LEMMA TypeStep == TypeOK /\ JobsInv /\ (\A w \in Workers : Position(w)) /\ [Next]_vars => TypeOK'
  <1> SUFFICES ASSUME TypeOK, JobsInv, \A w \in Workers : Position(w), [Next]_vars
               PROVE  TypeOK'
    OBVIOUS
  <1> USE OrdersAssumption
  <1>1. ASSUME NEW o \in OrderIds, NEW dir \in Directions, NEW big \in BOOLEAN,
               CreateOrder(o, dir, big)
        PROVE  TypeOK'
    <2>1. [dir |-> dir, big |-> big, status |-> "PendingExecution",
           cover |-> "PendingCover"] \in Rows
      BY DEF Rows, OrderStatuses, CoverStatuses
    <2>2. orders' \in [OrderIds -> Rows \cup {NoOrder}]
      BY <1>1, <2>1 DEF CreateOrder, TypeOK
    <2> QED  BY <1>1, <2>2 DEF CreateOrder, TypeOK
  <1>2. ASSUME NEW o \in OrderIds, ProcessOrder(o) PROVE TypeOK'
    BY <1>2 DEF ProcessOrder, TypeOK, Kinds
  <1>3. ASSUME NEW o \in OrderIds, Expiration(o) PROVE TypeOK'
    BY <1>3 DEF Expiration, TypeOK
  <1>4. ASSUME NEW o \in OrderIds, NEW i \in DOMAIN pays[o], SubmitOnchain(o, i)
        PROVE  TypeOK'
    <2>1. PICK s \in PayStates : pays' = [pays EXCEPT ![o][i] = s]
      BY <1>4 DEF SubmitOnchain, PayStates
    <2>2. pays' \in [OrderIds -> Seq(PayStates)]
      BY <2>1, EntryKept DEF TypeOK
    <2> QED  BY <1>4, <2>2 DEF SubmitOnchain, TypeOK
  <1>5. ASSUME NEW o \in OrderIds, NEW i \in DOMAIN trades[o],
               ProviderCompletes(o, i) \/ DeliveryRecorded(o, i)
        PROVE  TypeOK'
    <2>1. PICK s \in TradeStates : trades' = [trades EXCEPT ![o][i] = s]
      BY <1>5 DEF ProviderCompletes, DeliveryRecorded, TradeStates
    <2>2. trades' \in [OrderIds -> Seq(TradeStates)]
      BY <2>1, EntryKept DEF TypeOK
    <2> QED  BY <1>5, <2>2 DEF ProviderCompletes, DeliveryRecorded, TypeOK
  <1>6. ASSUME NEW w \in Workers, NEW o \in OrderIds, ExecuteOrder(w, o) PROVE TypeOK'
    <2>1. orders[o] # NoOrder
      BY <1>6 DEF ExecuteOrder, Takes, JobsInv
    <2>2. "Expired" \in OrderStatuses /\ {"buy", "transfer"} \subseteq ExecutePcs
      BY DEF OrderStatuses, ExecutePcs
    <2>3. jobs' \in [Kinds -> [OrderIds -> Nat]]
      BY <1>6 DEF ExecuteOrder, Takes, TypeOK, Kinds
    <2>4. orders' \in [OrderIds -> Rows \cup {NoOrder}]
      BY <1>6, <2>1, <2>2, RowKept DEF ExecuteOrder, TypeOK
    <2>5. worker' \in [Workers -> Jobs \cup {Idle}]
      BY <1>6, <2>2 DEF ExecuteOrder, TypeOK, At, Jobs
    <2> QED  BY <1>6, <2>3, <2>4, <2>5 DEF ExecuteOrder, TypeOK
  <1>7. ASSUME NEW w \in Workers, NEW o \in OrderIds, CoverOrder(w, o) PROVE TypeOK'
    <2>1. orders[o] # NoOrder
      BY <1>7 DEF CoverOrder, Takes, JobsInv
    <2>2. "PendingCoverWithQuote" \in CoverStatuses /\ {"pay", "trade"} \subseteq CoverPcs
      BY DEF CoverStatuses, CoverPcs
    <2>3. jobs' \in [Kinds -> [OrderIds -> Nat]]
      BY <1>7 DEF CoverOrder, Takes, TypeOK, Kinds
    <2>4. orders' \in [OrderIds -> Rows \cup {NoOrder}]
      BY <1>7, <2>1, <2>2, RowKept DEF CoverOrder
    <2>5. worker' \in [Workers -> Jobs \cup {Idle}]
      BY <1>7, <2>2 DEF CoverOrder, TypeOK, At, Jobs
    <2> QED  BY <1>7, <2>3, <2>4, <2>5 DEF CoverOrder, TypeOK
  <1>8. ASSUME NEW w \in Workers, worker[w].pc # "idle",
               BuyFunds(w) \/ Transfer(w) \/ SendCover(w) \/ LpDepositComplete(w)
        PROVE  TypeOK'
    <2>1. worker[w].order \in OrderIds
      BY <1>8, AtWork DEF Jobs
    <2>2. CASE BuyFunds(w)
      <3>1. worker' \in [Workers -> Jobs \cup {Idle}]
        BY <2>2, <1>8, GotoKept DEF BuyFunds, ExecutePcs
      <3> QED  BY <2>2, <3>1 DEF BuyFunds, TypeOK
    <2>3. CASE Transfer(w)
      <3>1. worker' \in [Workers -> Jobs \cup {Idle}]
        <4>1. "executed" \in ExecutePcs /\ "failed" \in ExecutePcs
          BY DEF ExecutePcs
        <4>2. Goto(w, "executed", 0) \/ Goto(w, "failed", 0)
          BY <2>3 DEF Transfer
        <4> QED  BY <4>1, <4>2, <1>8, GotoKept
      <3>2. moved' = moved \/ moved' = [moved EXCEPT ![worker[w].order] = @ + 1]
        BY <2>3 DEF Transfer
      <3>3. moved' \in [OrderIds -> Nat]
        <4>1. moved \in [OrderIds -> Nat]
          BY DEF TypeOK
        <4>2. [moved EXCEPT ![worker[w].order] = @ + 1] \in [OrderIds -> Nat]
          BY <2>1, <4>1
        <4> QED  BY <3>2, <4>1, <4>2
      <3>4. UNCHANGED <<orders, late, jobs, pays, trades, lots, bought, dropped, posts, faults>>
        BY <2>3 DEF Transfer
      <3> QED  BY <3>1, <3>3, <3>4 DEF TypeOK
    <2>4. CASE SendCover(w)
      BY <2>4, <2>1, EndsKept DEF SendCover, TypeOK, Kinds
    <2>5. CASE LpDepositComplete(w)
      BY <2>5, <1>8, GotoKept DEF LpDepositComplete, TypeOK, CoverPcs
    <2> QED  BY <1>8, <2>2, <2>3, <2>4, <2>5
  <1>9. ASSUME NEW w \in Workers, worker[w].pc # "idle",
               FailedExecute(w) \/ LpDepositTimeout(w) \/ TradeTimeout(w)
                 \/ ValidateTransaction(w) \/ Covered(w)
        PROVE  TypeOK'
    <2>1. worker[w].order \in OrderIds /\ orders[worker[w].order] # NoOrder
      BY <1>9, AtWork DEF Jobs, Position
    <2>2. {"FailedExecute"} \subseteq OrderStatuses
          /\ {"FailedCoverTransactionError", "FailedTradeLPError", "Covered"} \subseteq CoverStatuses
      BY DEF OrderStatuses, CoverStatuses
    <2>3. orders' \in [OrderIds -> Rows \cup {NoOrder}]
      BY <1>9, <2>1, <2>2, RowKept DEF FailedExecute, LpDepositTimeout, TradeTimeout,
         ValidateTransaction, Covered
    <2>4. worker' \in [Workers -> Jobs \cup {Idle}]
      BY <1>9, EndsKept DEF FailedExecute, LpDepositTimeout, TradeTimeout,
         ValidateTransaction, Covered
    <2> QED  BY <1>9, <2>3, <2>4 DEF TypeOK, FailedExecute, LpDepositTimeout, TradeTimeout,
             ValidateTransaction, Covered
  <1>10. ASSUME NEW w \in Workers, worker[w].pc # "idle", Executed(w) \/ TradeComplete(w)
         PROVE  TypeOK'
    <2>1. worker[w] \in Jobs /\ orders[worker[w].order] # NoOrder
      BY <1>10, AtWork DEF Position
    <2>2. worker[w].order \in OrderIds /\ worker[w].arg \in Nat
      BY <2>1 DEF Jobs
    <2>3. "Executed" \in OrderStatuses /\ "PendingCoverValidation" \in CoverStatuses
      BY DEF OrderStatuses, CoverStatuses
    <2>4. orders' \in [OrderIds -> Rows \cup {NoOrder}]
      BY <1>10, <2>1, <2>2, <2>3, RowKept DEF Executed, TradeComplete
    <2>5. worker' \in [Workers -> Jobs \cup {Idle}]
      BY <1>10, <2>2, GotoKept DEF Executed, TradeComplete, ExecutePcs, CoverPcs
    <2> QED  BY <1>10, <2>4, <2>5 DEF TypeOK, Executed, TradeComplete
  <1>11. ASSUME NEW w \in Workers, worker[w].pc # "idle", TransferFundsToLp(w)
         PROVE  TypeOK'
    <2>1. worker[w].order \in OrderIds
      BY <1>11, AtWork DEF Jobs
    <2>2. pays[worker[w].order] \in Seq(PayStates) /\ Len(pays[worker[w].order]) + 1 \in Nat
      BY <2>1 DEF TypeOK
    <2>3. \A s \in PayStates : Append(pays[worker[w].order], s) \in Seq(PayStates)
      BY <2>2
    <2>4. "offchain" \in PayStates /\ "pending" \in PayStates
      BY DEF PayStates
    <2>5. pays' \in [OrderIds -> Seq(PayStates)]
      BY <1>11, <2>1, <2>3, <2>4 DEF TransferFundsToLp, TypeOK
    <2>6. worker' \in [Workers -> Jobs \cup {Idle}]
      BY <1>11, <2>2, GotoKept, EndsKept DEF TransferFundsToLp, CoverPcs
    <2> QED  BY <1>11, <2>1, <2>5, <2>6 DEF TransferFundsToLp, TypeOK
  <1>12. ASSUME NEW w \in Workers, worker[w].pc # "idle", TradeAndExecute(w)
         PROVE  TypeOK'
    <2>1. worker[w].order \in OrderIds
      BY <1>12, AtWork DEF Jobs
    <2>2. trades[worker[w].order] \in Seq(TradeStates) /\ Len(trades[worker[w].order]) + 1 \in Nat
      BY <2>1 DEF TypeOK
    <2>3. Append(trades[worker[w].order], "asked") \in Seq(TradeStates)
      BY <2>2 DEF TradeStates
    <2>4. trades' \in [OrderIds -> Seq(TradeStates)]
      BY <1>12, <2>1, <2>3 DEF TradeAndExecute, TypeOK
    <2>5. worker' \in [Workers -> Jobs \cup {Idle}]
      BY <1>12, <2>2, GotoKept DEF TradeAndExecute, CoverPcs
    <2> QED  BY <1>12, <2>4, <2>5 DEF TradeAndExecute, TypeOK
  <1>13. ASSUME NEW w \in Workers, WorkerCrash(w) PROVE TypeOK'
    <2>1. worker[w] \in Jobs
      BY <1>13 DEF WorkerCrash, TypeOK
    <2>2. worker[w].order \in OrderIds /\ KindOf(worker[w].pc) \in Kinds
      BY <2>1 DEF Jobs, KindOf, Kinds
    <2>3. jobs' \in [Kinds -> [OrderIds -> Nat]]
      BY <1>13, <2>2 DEF WorkerCrash, TypeOK
    <2> QED  BY <1>13, <2>3, EndsKept DEF WorkerCrash, Fault, TypeOK
  <1>14. ASSUME NEW w \in Workers, LpError(w) PROVE TypeOK'
    <2>1. worker[w].pc # "idle"
      BY <1>14 DEF LpError
    <2>2. worker[w].order \in OrderIds
      BY <2>1, AtWork DEF Jobs
    <2> QED  BY <1>14, <2>2, EndsKept DEF LpError, Fault, TypeOK
  <1>15. CASE LotRecorded
    BY <1>15 DEF LotRecorded, TypeOK
  <1>16. CASE UNCHANGED vars
    BY <1>16 DEF vars, TypeOK
  <1> QED
    <2>1. ASSUME NEW w \in Workers, WorkerStep(w) PROVE TypeOK'
      <3>1. CASE worker[w].pc # "idle"
        BY <2>1, <3>1, <1>6, <1>7, <1>8, <1>9, <1>10, <1>11, <1>12 DEF WorkerStep
      <3>2. CASE worker[w].pc = "idle"
        BY <2>1, <3>2, <1>6, <1>7 DEF WorkerStep, BuyFunds, Transfer, FailedExecute, Executed,
           SendCover, TransferFundsToLp, LpDepositComplete, LpDepositTimeout,
           TradeAndExecute, TradeComplete, TradeTimeout, ValidateTransaction, Covered
      <3> QED  BY <3>1, <3>2
    <2> QED
      BY <2>1, <1>1, <1>2, <1>3, <1>4, <1>5, <1>13, <1>14, <1>15, <1>16 DEF Next

\* What writing one field of a row leaves alone.
LEMMA Written ==
    ASSUME TypeOK, NEW o \in OrderIds, orders[o] # NoOrder, NEW s,
           SetStatus(o, s) \/ SetCover(o, s)
    PROVE  /\ \A p \in OrderIds : orders[p] # NoOrder =>
                 orders'[p] # NoOrder /\ orders'[p].dir = orders[p].dir
           /\ \A p \in OrderIds : p # o => orders'[p] = orders[p]
           /\ SetStatus(o, s) => orders'[o].status = s /\ orders'[o].cover = orders[o].cover
           /\ SetCover(o, s) => orders'[o].cover = s /\ orders'[o].status = orders[o].status
  <1>1. orders \in [OrderIds -> Rows \cup {NoOrder}] /\ orders[o] \in Rows
    BY DEF TypeOK
  <1>2. orders'[o].dir = orders[o].dir /\ orders'[o].dir # "none"
    BY <1>1 DEF SetStatus, SetCover, Rows, Directions
  <1>3. orders'[o] # NoOrder
    BY <1>2 DEF NoOrder
  <1>4. \A p \in OrderIds : p # o => orders'[p] = orders[p]
    BY <1>1 DEF SetStatus, SetCover
  <1>5. SetStatus(o, s) => orders'[o].status = s /\ orders'[o].cover = orders[o].cover
    BY <1>1 DEF SetStatus, Rows
  <1>6. SetCover(o, s) => orders'[o].cover = s /\ orders'[o].status = orders[o].status
    BY <1>1 DEF SetCover, Rows
  <1> QED  BY <1>2, <1>3, <1>4, <1>5, <1>6

\* A step that leaves money, payments and trades alone, and rows but for a field.
LEMMA GrowsQuietly ==
    ASSUME TypeOK, UNCHANGED <<moved, pays, trades>>,
           \A o \in OrderIds : orders[o] # NoOrder =>
              orders'[o] # NoOrder /\ orders'[o].dir = orders[o].dir
    PROVE  Grows
  BY DEF TypeOK, Grows

\* A worker at work has an order that exists.
LEMMA OrderAtWork ==
    ASSUME TypeOK, NEW w \in Workers, worker[w].pc # "idle", Position(w)
    PROVE  /\ worker[w] \in Jobs /\ worker[w] # Idle
           /\ worker[w].order \in OrderIds /\ orders[worker[w].order] # NoOrder
  BY AtWork DEF Position, Jobs

\* Every step only adds transfers, payments and trades, and keeps orders that were moved for.
LEMMA GrowsStep ==
    ASSUME TypeOK, JobsInv, \A w \in Workers : Position(w), [Next]_vars
    PROVE  Grows
  <1>1. ASSUME UNCHANGED <<orders, moved, pays, trades>> PROVE Grows
    BY <1>1, GrowsQuietly
  <1>2. ASSUME NEW o \in OrderIds, orders[o] # NoOrder, NEW s,
               SetStatus(o, s) \/ SetCover(o, s), UNCHANGED <<moved, pays, trades>>
        PROVE  Grows
    BY <1>2, Written, GrowsQuietly
  <1>3. ASSUME NEW o \in OrderIds, NEW dir \in Directions, NEW big \in BOOLEAN,
               CreateOrder(o, dir, big)
        PROVE  Grows
    BY <1>3, GrowsQuietly DEF CreateOrder, TypeOK
  <1>4. ASSUME NEW o \in OrderIds, ProcessOrder(o) \/ Expiration(o) PROVE Grows
    BY <1>4, <1>1 DEF ProcessOrder, Expiration
  <1>5. ASSUME NEW o \in OrderIds, NEW i \in DOMAIN pays[o], SubmitOnchain(o, i)
        PROVE  Grows
    <2>1. PICK s \in {"paid", "canceled"} : pays' = [pays EXCEPT ![o][i] = s]
      BY <1>5 DEF SubmitOnchain
    <2>2. pays' = [pays EXCEPT ![o] = [pays[o] EXCEPT ![i] = s]]
          /\ pays[o][i] = "pending" /\ pays[o] # <<>>
      BY <2>1, <1>5 DEF SubmitOnchain, TypeOK
    <2>3. orders[o] # NoOrder
      BY <2>2 DEF JobsInv
    <2>4. UNCHANGED <<orders, moved, trades>>
      BY <1>5 DEF SubmitOnchain
    <2>5. pays \in [OrderIds -> Seq(PayStates)] /\ moved \in [OrderIds -> Nat]
      BY DEF TypeOK
    <2> QED  BY <2>2, <2>3, <2>4, <2>5 DEF Grows
  <1>6. ASSUME NEW o \in OrderIds, NEW i \in DOMAIN trades[o],
               ProviderCompletes(o, i) \/ DeliveryRecorded(o, i)
        PROVE  Grows
    <2>1. PICK s \in {"complete", "recorded"} : trades' = [trades EXCEPT ![o][i] = s]
      BY <1>6 DEF ProviderCompletes, DeliveryRecorded
    <2>2. trades' = [trades EXCEPT ![o] = [trades[o] EXCEPT ![i] = s]] /\ trades[o] # <<>>
      BY <2>1, <1>6 DEF TypeOK
    <2>3. orders[o] # NoOrder
      BY <2>2 DEF JobsInv
    <2>4. UNCHANGED <<orders, moved, pays>>
      BY <1>6 DEF ProviderCompletes, DeliveryRecorded
    <2>5. trades \in [OrderIds -> Seq(TradeStates)] /\ moved \in [OrderIds -> Nat]
      BY DEF TypeOK
    <2> QED  BY <2>2, <2>3, <2>4, <2>5 DEF Grows
  <1>7. ASSUME NEW w \in Workers, NEW o \in OrderIds, ExecuteOrder(w, o) \/ CoverOrder(w, o)
        PROVE  Grows
    <2>1. orders[o] # NoOrder
      BY <1>7 DEF ExecuteOrder, CoverOrder, Takes, JobsInv
    <2>2. UNCHANGED <<moved, pays, trades>>
      BY <1>7 DEF ExecuteOrder, CoverOrder
    <2>3. UNCHANGED orders \/ SetStatus(o, "Expired") \/ SetCover(o, "PendingCoverWithQuote")
      BY <1>7 DEF ExecuteOrder, CoverOrder
    <2> QED  BY <2>1, <2>2, <2>3, <1>1, <1>2
  <1>8. ASSUME NEW w \in Workers, worker[w].pc # "idle", Transfer(w) PROVE Grows
    <2>1. moved' = moved \/ moved' = [moved EXCEPT ![worker[w].order] = @ + 1]
      BY <1>8 DEF Transfer
    <2>2. UNCHANGED <<orders, pays, trades>>
      BY <1>8 DEF Transfer
    <2>3. moved \in [OrderIds -> Nat]
      BY DEF TypeOK
    <2> QED  BY <2>1, <2>2, <2>3, <1>8, OrderAtWork DEF Grows
  <1>9. ASSUME NEW w \in Workers, worker[w].pc # "idle", TransferFundsToLp(w) PROVE Grows
    <2>1. PICK s \in PayStates :
             pays' = pays \/ pays' = [pays EXCEPT ![worker[w].order] = Append(@, s)]
      BY <1>9 DEF TransferFundsToLp, PayStates
    <2>2. UNCHANGED <<orders, moved, trades>>
      BY <1>9 DEF TransferFundsToLp
    <2>3. pays \in [OrderIds -> Seq(PayStates)] /\ moved \in [OrderIds -> Nat]
      BY DEF TypeOK
    <2>4. worker[w].order \in OrderIds /\ orders[worker[w].order] # NoOrder
      BY <1>9, OrderAtWork
    <2>5. \A o \in OrderIds : \A i \in DOMAIN pays[o] :
             i \in DOMAIN pays'[o] /\ pays'[o][i] = pays[o][i]
      <3>1. CASE pays' = pays
        BY <3>1
      <3>2. CASE pays' = [pays EXCEPT ![worker[w].order] = Append(@, s)]
        BY <3>2, <2>3, <2>4, AppendKept
      <3> QED  BY <2>1, <3>1, <3>2
    <2> QED  BY <2>1, <2>2, <2>3, <2>4, <2>5 DEF Grows
  <1>10. ASSUME NEW w \in Workers, worker[w].pc # "idle", TradeAndExecute(w) PROVE Grows
    <2>1. trades' = [trades EXCEPT ![worker[w].order] = Append(@, "asked")]
      BY <1>10 DEF TradeAndExecute
    <2>2. UNCHANGED <<orders, moved, pays>>
      BY <1>10 DEF TradeAndExecute
    <2>3. trades \in [OrderIds -> Seq(TradeStates)] /\ moved \in [OrderIds -> Nat]
      BY DEF TypeOK
    <2>4. worker[w].order \in OrderIds /\ orders[worker[w].order] # NoOrder
      BY <1>10, OrderAtWork
    <2>5. \A o \in OrderIds : \A i \in DOMAIN trades[o] :
             i \in DOMAIN trades'[o] /\ trades'[o][i] = trades[o][i]
      BY <2>1, <2>3, <2>4, AppendKept DEF TradeStates
    <2> QED  BY <2>1, <2>2, <2>3, <2>4, <2>5 DEF Grows
  <1>11. ASSUME NEW w \in Workers, worker[w].pc # "idle",
                FailedExecute(w) \/ Executed(w) \/ LpDepositTimeout(w) \/ TradeComplete(w)
                  \/ TradeTimeout(w) \/ ValidateTransaction(w) \/ Covered(w)
         PROVE  Grows
    <2>1. worker[w].order \in OrderIds /\ orders[worker[w].order] # NoOrder
      BY <1>11, OrderAtWork
    <2>2. UNCHANGED <<moved, pays, trades>>
      BY <1>11 DEF FailedExecute, Executed, LpDepositTimeout, TradeComplete, TradeTimeout,
         ValidateTransaction, Covered
    <2>3. \E s : SetStatus(worker[w].order, s) \/ SetCover(worker[w].order, s)
      BY <1>11 DEF FailedExecute, Executed, LpDepositTimeout, TradeComplete, TradeTimeout,
         ValidateTransaction, Covered
    <2> QED  BY <2>1, <2>2, <2>3, <1>2
  <1>12. ASSUME NEW w \in Workers, BuyFunds(w) \/ SendCover(w) \/ LpDepositComplete(w)
                  \/ WorkerCrash(w) \/ LpError(w)
         PROVE  Grows
    BY <1>12, <1>1 DEF BuyFunds, SendCover, LpDepositComplete, WorkerCrash, LpError
  <1>13. CASE LotRecorded
    BY <1>13, <1>1 DEF LotRecorded
  <1>14. CASE UNCHANGED vars
    BY <1>14, <1>1 DEF vars
  <1> QED
    <2>1. ASSUME NEW w \in Workers, WorkerStep(w) PROVE Grows
      <3>1. CASE worker[w].pc # "idle"
        BY <2>1, <3>1, <1>7, <1>8, <1>9, <1>10, <1>11, <1>12 DEF WorkerStep
      <3>2. CASE worker[w].pc = "idle"
        BY <2>1, <3>2, <1>7 DEF WorkerStep, BuyFunds, Transfer, FailedExecute, Executed,
           SendCover, TransferFundsToLp, LpDepositComplete, LpDepositTimeout,
           TradeAndExecute, TradeComplete, TradeTimeout, ValidateTransaction, Covered
      <3> QED  BY <3>1, <3>2
    <2> QED
      BY <2>1, <1>3, <1>4, <1>5, <1>6, <1>12, <1>13, <1>14 DEF Next

\* Jobs in the queue are about orders that exist, and cover jobs about executed ones.
LEMMA JobsStep ==
    ASSUME TypeOK, JobsInv, \A w \in Workers : Position(w), Grows, [Next]_vars
    PROVE  JobsInv'
  <1> SUFFICES ASSUME NEW o \in OrderIds
               PROVE  /\ jobs'["execute"][o] > 0 => orders'[o] # NoOrder
                      /\ jobs'["cover"][o] > 0 => orders'[o] # NoOrder /\ moved'[o] > 0
                      /\ orders'[o] = NoOrder =>
                            moved'[o] = 0 /\ pays'[o] = <<>> /\ trades'[o] = <<>>
    BY DEF JobsInv
  <1>1. orders'[o] = NoOrder => moved'[o] = 0 /\ pays'[o] = <<>> /\ trades'[o] = <<>>
    BY DEF JobsInv, Grows
  <1>2. ASSUME \A k \in Kinds : jobs'[k][o] <= jobs[k][o]
        PROVE  /\ jobs'["execute"][o] > 0 => orders'[o] # NoOrder
               /\ jobs'["cover"][o] > 0 => orders'[o] # NoOrder /\ moved'[o] > 0
    <2>1. \A k \in Kinds : jobs[k][o] \in Nat /\ jobs'[k][o] <= jobs[k][o]
      BY <1>2 DEF TypeOK
    <2>2. \A k \in Kinds : jobs'[k][o] > 0 => jobs[k][o] > 0 \/ jobs'[k][o] \notin Int
      BY <2>1
    <2>3. moved[o] \in Nat /\ moved'[o] \in Nat /\ moved'[o] >= moved[o]
      BY DEF TypeOK, Grows
    <2>4. \A k \in Kinds : jobs'[k][o] \in Nat
      BY TypeStep DEF TypeOK
    <2> QED  BY <2>2, <2>3, <2>4 DEF JobsInv, Grows, Kinds
  <1>3. ASSUME NEW k \in Kinds, NEW p \in OrderIds, jobs' = [jobs EXCEPT ![k][p] = @ + 1],
               orders[p] # NoOrder, k = "cover" => moved[p] > 0
        PROVE  /\ jobs'["execute"][o] > 0 => orders'[o] # NoOrder
               /\ jobs'["cover"][o] > 0 => orders'[o] # NoOrder /\ moved'[o] > 0
    <2>1. jobs \in [Kinds -> [OrderIds -> Nat]]
      BY DEF TypeOK
    <2>2. moved[o] \in Nat /\ moved'[o] \in Nat /\ moved'[o] >= moved[o]
      BY DEF TypeOK, Grows
    <2>3. orders[o] # NoOrder => orders'[o] # NoOrder
      BY DEF Grows
    <2>4. \A l \in Kinds : l # k \/ p # o => jobs'[l][o] = jobs[l][o]
      BY <1>3, <2>1
    <2> QED  BY <1>3, <2>2, <2>3, <2>4 DEF JobsInv, Kinds
  <1>4. CASE UNCHANGED jobs
    BY <1>1, <1>2, <1>4 DEF TypeOK
  <1>5. ASSUME NEW p \in OrderIds, ProcessOrder(p)
        PROVE  /\ jobs'["execute"][o] > 0 => orders'[o] # NoOrder
               /\ jobs'["cover"][o] > 0 => orders'[o] # NoOrder /\ moved'[o] > 0
    BY <1>5, <1>3 DEF ProcessOrder, Kinds
  <1>6. ASSUME NEW w \in Workers, NEW p \in OrderIds, ExecuteOrder(w, p) \/ CoverOrder(w, p)
        PROVE  /\ jobs'["execute"][o] > 0 => orders'[o] # NoOrder
               /\ jobs'["cover"][o] > 0 => orders'[o] # NoOrder /\ moved'[o] > 0
    <2>1. PICK k \in Kinds : jobs' = [jobs EXCEPT ![k][p] = @ - 1]
      BY <1>6 DEF ExecuteOrder, CoverOrder, Takes, Kinds
    <2>2. jobs \in [Kinds -> [OrderIds -> Nat]]
      BY DEF TypeOK
    <2>3. \A l \in Kinds : jobs'[l][o] <= jobs[l][o]
      BY <2>1, <2>2
    <2> QED  BY <2>3, <1>2
  <1>7. ASSUME NEW w \in Workers, worker[w].pc # "idle", SendCover(w)
        PROVE  /\ jobs'["execute"][o] > 0 => orders'[o] # NoOrder
               /\ jobs'["cover"][o] > 0 => orders'[o] # NoOrder /\ moved'[o] > 0
    <2>1. worker[w].order \in OrderIds /\ orders[worker[w].order] # NoOrder
      BY <1>7, OrderAtWork
    <2>2. moved[worker[w].order] > 0
      BY <1>7, OrderAtWork DEF SendCover, Position
    <2> QED  BY <1>7, <2>1, <2>2, <1>3 DEF SendCover, Kinds
  <1>8. ASSUME NEW w \in Workers, WorkerCrash(w)
        PROVE  /\ jobs'["execute"][o] > 0 => orders'[o] # NoOrder
               /\ jobs'["cover"][o] > 0 => orders'[o] # NoOrder /\ moved'[o] > 0
    <2>1. worker[w] # Idle /\ worker[w] \in Jobs
      BY <1>8 DEF WorkerCrash, TypeOK
    <2>2. worker[w].order \in OrderIds /\ orders[worker[w].order] # NoOrder
      BY <2>1 DEF Jobs, Position
    <2>3. KindOf(worker[w].pc) \in Kinds
          /\ (KindOf(worker[w].pc) = "cover" => worker[w].pc \in CoverPcs)
      BY <2>1 DEF KindOf, Kinds, Jobs
    <2>4. KindOf(worker[w].pc) = "cover" => moved[worker[w].order] > 0
      BY <2>1, <2>3 DEF Position
    <2> QED  BY <1>8, <2>2, <2>3, <2>4, <1>3 DEF WorkerCrash
  <1> QED
    <2>1. CASE jobs' # jobs
      <3>1. \/ \E p \in OrderIds : ProcessOrder(p)
            \/ \E w \in Workers : \/ \E p \in OrderIds : ExecuteOrder(w, p) \/ CoverOrder(w, p)
                                  \/ SendCover(w) \/ WorkerCrash(w)
        BY <2>1 DEF Next, vars, CreateOrder, Expiration, SubmitOnchain, ProviderCompletes,
           DeliveryRecorded, WorkerStep, BuyFunds, Transfer, FailedExecute, Executed,
           TransferFundsToLp, LpDepositComplete, LpDepositTimeout, TradeAndExecute,
           TradeComplete, TradeTimeout, ValidateTransaction, Covered, LpError, LotRecorded
      <3>2. \A w \in Workers : SendCover(w) => worker[w].pc # "idle"
        BY DEF SendCover
      <3> QED  BY <3>1, <3>2, <1>1, <1>5, <1>6, <1>7, <1>8
    <2> QED  BY <2>1, <1>4

\* A worker that stays where it is loses none of what its position says.
LEMMA PositionKept ==
    ASSUME TypeOK, Grows, NEW v \in Workers, worker'[v] = worker[v], Position(v)
    PROVE  Position(v)'
  <1> SUFFICES ASSUME worker[v] # Idle PROVE Position(v)'
    BY DEF Position
  <1> DEFINE o == worker[v].order
             pc == worker[v].pc
             i == worker[v].arg
  <1>1. o \in OrderIds
    BY DEF TypeOK, Jobs
  <1>2. orders[o] # NoOrder /\ orders'[o] # NoOrder /\ orders'[o].dir = orders[o].dir
    BY <1>1 DEF Position, Grows
  <1>3. moved[o] > 0 => moved'[o] > 0
    BY <1>1 DEF Grows, TypeOK
  <1>4. (\E j \in DOMAIN pays[o] : pays[o][j] = "paid")
           => \E j \in DOMAIN pays'[o] : pays'[o][j] = "paid"
    BY <1>1 DEF Grows
  <1>5. trades[o] # <<>> => trades'[o] # <<>>
    <2>1. trades[o] \in Seq(TradeStates)
      BY <1>1 DEF TypeOK
    <2>2. trades[o] # <<>> => 1 \in DOMAIN trades[o]
      BY <2>1
    <2>3. 1 \in DOMAIN trades[o] => 1 \in DOMAIN trades'[o]
      BY <1>1 DEF Grows
    <2> QED  BY <2>2, <2>3
  <1>6. /\ i \in DOMAIN trades[o] =>
              i \in DOMAIN trades'[o] /\ (trades[o][i] # "asked" => trades'[o][i] # "asked")
        /\ i \in DOMAIN pays[o] => i \in DOMAIN pays'[o]
    BY <1>1 DEF Grows
  <1> QED  BY <1>2, <1>3, <1>4, <1>5, <1>6 DEF Position

\* The positions of a worker that takes an execution job or moves on with it.
LEMMA ExecutePosition ==
    ASSUME TypeOK, Grows, NEW w \in Workers, NEW o \in OrderIds, orders'[o] # NoOrder,
           NEW pc \in ExecutePcs, NEW n, worker' = [worker EXCEPT ![w] = At(pc, o, n)],
           pc \in {"executed", "send"} => moved'[o] > 0
    PROVE  Position(w)'
  <1>1. worker'[w] = At(pc, o, n)
    BY DEF TypeOK
  <1>2. /\ pc \notin CoverPcs
        /\ pc \notin {"pay", "deposit", "covered", "wait", "validate", "trade"}
    BY DEF ExecutePcs, CoverPcs
  <1> QED  BY <1>1, <1>2 DEF Position, At

\* Every worker's position stays true.
LEMMA PositionStep ==
    ASSUME TypeOK, JobsInv, \A w \in Workers : Position(w), Grows, [Next]_vars,
           NEW v \in Workers
    PROVE  Position(v)'
  <1>1. ASSUME UNCHANGED worker PROVE Position(v)'
    BY <1>1, PositionKept
  <1>2. ASSUME NEW w \in Workers, NEW x, worker' = [worker EXCEPT ![w] = x], v # w
        PROVE  Position(v)'
    <2>1. worker'[v] = worker[v]
      BY <1>2 DEF TypeOK
    <2> QED  BY <2>1, PositionKept
  <1>3. ASSUME Ends(v) PROVE Position(v)'
    BY <1>3 DEF Ends, Position, TypeOK
  <1>4. ASSUME NEW w \in Workers, Ends(w) PROVE Position(v)'
    BY <1>2, <1>3, <1>4 DEF Ends
  <1>5. ASSUME NEW w \in Workers, NEW o \in OrderIds, ExecuteOrder(w, o) PROVE Position(v)'
    <2>1. orders'[o] # NoOrder
      BY <1>5 DEF ExecuteOrder, Takes, JobsInv, Grows
    <2>2. PICK pc \in {"buy", "transfer"} :
             UNCHANGED worker \/ worker' = [worker EXCEPT ![w] = At(pc, o, 0)]
      BY <1>5 DEF ExecuteOrder
    <2>3. pc \in ExecutePcs /\ pc \notin {"executed", "send"}
      BY <2>2 DEF ExecutePcs
    <2> QED  BY <2>1, <2>2, <2>3, <1>1, <1>2, ExecutePosition
  <1>6. ASSUME NEW w \in Workers, worker[w].pc # "idle",
               BuyFunds(w) \/ Transfer(w) \/ Executed(w)
        PROVE  Position(v)'
    <2> DEFINE o == worker[w].order
    <2>1. o \in OrderIds /\ orders[o] # NoOrder /\ orders'[o] # NoOrder
      BY <1>6, OrderAtWork DEF Grows
    <2>2. PICK pc \in {"transfer", "executed", "failed", "send"} :
             /\ worker' = [worker EXCEPT ![w] = At(pc, o, 0)]
             /\ pc = "executed" => moved' = [moved EXCEPT ![o] = @ + 1]
             /\ pc = "send" => worker[w].pc = "executed"
      BY <1>6 DEF BuyFunds, Transfer, Executed, Goto
    <2>3. moved[o] \in Nat /\ moved'[o] \in Nat /\ moved'[o] >= moved[o]
      BY <2>1 DEF TypeOK, Grows
    <2>4. pc = "executed" => moved'[o] > 0
      BY <2>1, <2>2, <2>3 DEF TypeOK
    <2>5. pc = "send" => moved'[o] > 0
      BY <2>1, <2>2, <2>3, <1>6, OrderAtWork DEF Position
    <2>6. pc \in ExecutePcs
      BY <2>2 DEF ExecutePcs
    <2>7. Position(w)'
      BY <2>1, <2>2, <2>4, <2>5, <2>6, ExecutePosition
    <2> QED  BY <2>2, <2>7, <1>2
  <1>7. ASSUME NEW w \in Workers, NEW o \in OrderIds, CoverOrder(w, o) PROVE Position(v)'
    <2>1. /\ orders[o] # NoOrder /\ moved[o] > 0
          /\ orders'[o] # NoOrder /\ orders'[o].dir = orders[o].dir
      BY <1>7 DEF CoverOrder, Takes, JobsInv, Grows
    <2>2. moved'[o] > 0
      BY <2>1 DEF Grows, TypeOK
    <2>3. worker' = [worker EXCEPT ![w] = At(IF orders[o].dir = "Sell" THEN "pay" ELSE "trade", o, 0)]
      BY <1>7 DEF CoverOrder
    <2>4. worker'[w] = At(IF orders[o].dir = "Sell" THEN "pay" ELSE "trade", o, 0)
      BY <2>3 DEF TypeOK
    <2>5. Position(w)'
      BY <2>1, <2>2, <2>4 DEF Position, At
    <2> QED  BY <2>3, <2>5, <1>2
  <1>8. ASSUME NEW w \in Workers, worker[w].pc # "idle",
               TransferFundsToLp(w) \/ LpDepositComplete(w)
        PROVE  Position(v)'
    <2> DEFINE o == worker[w].order
    <2>1. CASE Ends(w)
      BY <2>1, <1>4
    <2>2. CASE LpDepositComplete(w)
      <3>1. worker' = [worker EXCEPT ![w] = At("trade", o, 0)] /\ UNCHANGED pays
        BY <2>2 DEF LpDepositComplete, Goto
      <3>2. worker'[w] = At("trade", o, 0)
        BY <3>1 DEF TypeOK
      <3>3. /\ o \in OrderIds /\ orders'[o] # NoOrder /\ orders'[o].dir = orders[o].dir
            /\ moved[o] > 0 /\ moved'[o] > 0
            /\ worker[w].arg \in DOMAIN pays'[o] /\ pays'[o][worker[w].arg] = "paid"
        <4>1. o \in OrderIds /\ orders[o] # NoOrder /\ worker[w] # Idle /\ worker[w].pc = "deposit"
          BY <2>2, <1>8, OrderAtWork DEF LpDepositComplete
        <4>2. moved[o] > 0 /\ worker[w].arg \in DOMAIN pays[o]
          BY <4>1 DEF Position, CoverPcs
        <4>3. moved'[o] > 0
          BY <4>1, <4>2 DEF Grows, TypeOK
        <4> QED  BY <4>1, <4>2, <4>3, <3>1, <2>2 DEF LpDepositComplete, Grows
      <3>4. Position(w)'
        BY <3>2, <3>3 DEF Position, At
      <3> QED  BY <3>1, <3>4, <1>2
    <2>3. CASE TransferFundsToLp(w) /\ ~Ends(w)
      <3>1. PICK s \in PayStates : pays' = [pays EXCEPT ![o] = Append(@, s)]
        BY <2>3 DEF TransferFundsToLp, PayStates
      <3>2. worker' = [worker EXCEPT ![w] = At("deposit", o, Len(pays[o]) + 1)]
        BY <2>3 DEF TransferFundsToLp, Goto
      <3>3. worker'[w] = At("deposit", o, Len(pays[o]) + 1)
        BY <3>2 DEF TypeOK
      <3>4. o \in OrderIds /\ orders[o] # NoOrder /\ worker[w] # Idle /\ worker[w].pc = "pay"
        BY <2>3, <1>8, OrderAtWork DEF TransferFundsToLp
      <3>5. moved[o] > 0 /\ orders[o].dir = "Sell"
        BY <3>4 DEF Position, CoverPcs
      <3>6. /\ orders'[o] # NoOrder /\ orders'[o].dir = "Sell" /\ moved'[o] > 0
        BY <3>4, <3>5 DEF Grows, TypeOK
      <3>7. Len(pays[o]) + 1 \in DOMAIN pays'[o]
        BY <3>1, <3>4, AppendKept DEF TypeOK
      <3>8. Position(w)'
        BY <3>3, <3>6, <3>7 DEF Position, At
      <3> QED  BY <3>2, <3>8, <1>2
    <2> QED  BY <1>8, <2>1, <2>2, <2>3
  <1>9. ASSUME NEW w \in Workers, worker[w].pc # "idle", TradeAndExecute(w) PROVE Position(v)'
    <2> DEFINE o == worker[w].order
               n == Len(trades[o]) + 1
    <2>1. worker' = [worker EXCEPT ![w] = At(IF orders[o].dir = "Sell" THEN "covered" ELSE "wait", o, n)]
      BY <1>9 DEF TradeAndExecute, Goto
    <2>2. worker'[w] = At(IF orders[o].dir = "Sell" THEN "covered" ELSE "wait", o, n)
      BY <2>1 DEF TypeOK
    <2>3. o \in OrderIds /\ orders[o] \in Rows /\ worker[w] # Idle /\ worker[w].pc = "trade"
      BY <1>9, OrderAtWork DEF TradeAndExecute, TypeOK
    <2>4. /\ moved[o] > 0 /\ orders[o] # NoOrder
          /\ orders[o].dir = "Sell" => \E j \in DOMAIN pays[o] : pays[o][j] = "paid"
      BY <2>3 DEF Position, CoverPcs
    <2>5. orders'[o] # NoOrder /\ orders'[o].dir = orders[o].dir /\ moved'[o] > 0
      BY <2>3, <2>4 DEF Grows, TypeOK
    <2>6. orders[o].dir # "Sell" => orders[o].dir = "Buy"
      BY <2>3 DEF Rows, Directions
    <2>7. trades'[o] # <<>> /\ n \in DOMAIN trades'[o]
      <3>1. trades' = [trades EXCEPT ![o] = Append(@, "asked")]
        BY <1>9 DEF TradeAndExecute
      <3>2. trades \in [OrderIds -> Seq(TradeStates)] /\ "asked" \in TradeStates
        BY DEF TypeOK, TradeStates
      <3> HIDE DEF o
      <3> QED  BY <2>3, <3>1, <3>2, AppendKept
    <2>8. UNCHANGED pays
      BY <1>9 DEF TradeAndExecute
    <2>9. Position(w)'
      BY <2>2, <2>4, <2>5, <2>6, <2>7, <2>8 DEF Position, At
    <2> QED  BY <2>1, <2>9, <1>2
  <1>10. ASSUME NEW w \in Workers, worker[w].pc # "idle", TradeComplete(w) PROVE Position(v)'
    <2> DEFINE o == worker[w].order
               n == worker[w].arg
    <2>1. worker' = [worker EXCEPT ![w] = At("validate", o, n)] /\ UNCHANGED trades
      BY <1>10 DEF TradeComplete, Goto
    <2>2. worker'[w] = At("validate", o, n)
      BY <2>1 DEF TypeOK
    <2>3. o \in OrderIds /\ orders[o] # NoOrder /\ worker[w] # Idle /\ worker[w].pc = "wait"
      BY <1>10, OrderAtWork DEF TradeComplete
    <2>4. moved[o] > 0 /\ orders[o].dir = "Buy" /\ n \in DOMAIN trades[o]
      BY <2>3 DEF Position, CoverPcs
    <2>5. orders'[o] # NoOrder /\ orders'[o].dir = "Buy" /\ moved'[o] > 0
      BY <2>3, <2>4 DEF Grows, TypeOK
    <2>6. trades[o][n] # "asked"
      BY <1>10 DEF TradeComplete
    <2>7. Position(w)'
      BY <2>1, <2>2, <2>4, <2>5, <2>6 DEF Position, At
    <2> QED  BY <2>1, <2>7, <1>2
  <1> QED
    <2>1. ASSUME NEW w \in Workers, WorkerStep(w) PROVE Position(v)'
      <3>1. CASE worker[w].pc # "idle"
        <4>1. \/ \E o \in OrderIds : ExecuteOrder(w, o) \/ CoverOrder(w, o)
              \/ BuyFunds(w) \/ Transfer(w) \/ Executed(w) \/ TransferFundsToLp(w)
              \/ LpDepositComplete(w) \/ TradeAndExecute(w) \/ TradeComplete(w) \/ Ends(w)
          BY <2>1 DEF WorkerStep, FailedExecute, SendCover, LpDepositTimeout, TradeTimeout,
             ValidateTransaction, Covered
        <4> QED  BY <4>1, <3>1, <1>4, <1>5, <1>6, <1>7, <1>8, <1>9, <1>10
      <3>2. CASE worker[w].pc = "idle"
        BY <2>1, <3>2, <1>5, <1>7 DEF WorkerStep, BuyFunds, Transfer, FailedExecute, Executed,
           SendCover, TransferFundsToLp, LpDepositComplete, LpDepositTimeout,
           TradeAndExecute, TradeComplete, TradeTimeout, ValidateTransaction, Covered
      <3> QED  BY <3>1, <3>2
    <2>2. ASSUME NEW w \in Workers, WorkerCrash(w) \/ LpError(w) PROVE Position(v)'
      BY <2>2, <1>4 DEF WorkerCrash, LpError
    <2>3. CASE UNCHANGED worker
      BY <2>3, <1>1
    <2>4. \/ \E w \in Workers : WorkerStep(w) \/ WorkerCrash(w) \/ LpError(w)
          \/ UNCHANGED worker
      BY DEF Next, vars, CreateOrder, ProcessOrder, Expiration, SubmitOnchain,
         ProviderCompletes, DeliveryRecorded, LotRecorded
    <2> QED  BY <2>1, <2>2, <2>3, <2>4

\* A status that a step does not newly set needs no new backing.
LEMMA BackedKept ==
    ASSUME TypeOK, StatusIsBacked, Grows, NEW o \in OrderIds,
           orders'[o].status = "Executed" => orders[o].status = "Executed" \/ moved'[o] > 0,
           orders'[o].cover \notin {"none", "PendingCover"} =>
              orders[o].cover \notin {"none", "PendingCover"} \/ moved'[o] > 0,
           pays'[o] # <<>> => pays[o] # <<>> \/ moved'[o] > 0,
           trades'[o] # <<>> => trades[o] # <<>> \/ moved'[o] > 0,
           orders'[o].cover = "Covered" =>
              \/ orders[o].cover = "Covered"
              \/ IF orders'[o].dir = "Buy"
                 THEN \E i \in DOMAIN trades'[o] : trades'[o][i] # "asked"
                 ELSE trades'[o] # <<>> /\ \E i \in DOMAIN pays'[o] : pays'[o][i] = "paid"
    PROVE  /\ orders'[o].status = "Executed" => moved'[o] > 0
           /\ orders'[o].cover \notin {"none", "PendingCover"} => moved'[o] > 0
           /\ pays'[o] # <<>> \/ trades'[o] # <<>> => moved'[o] > 0
           /\ orders'[o].cover = "Covered" =>
                 IF orders'[o].dir = "Buy"
                 THEN \E i \in DOMAIN trades'[o] : trades'[o][i] # "asked"
                 ELSE trades'[o] # <<>> /\ \E i \in DOMAIN pays'[o] : pays'[o][i] = "paid"
  <1>1. moved[o] > 0 => moved'[o] > 0
    BY DEF Grows, TypeOK
  <1>2. /\ orders[o].status = "Executed" => moved[o] > 0
        /\ orders[o].cover \notin {"none", "PendingCover"} => moved[o] > 0
        /\ pays[o] # <<>> \/ trades[o] # <<>> => moved[o] > 0
    BY DEF StatusIsBacked, ExecutedIsBooked
  <1>3. ASSUME orders[o].cover = "Covered"
        PROVE  IF orders'[o].dir = "Buy"
               THEN \E i \in DOMAIN trades'[o] : trades'[o][i] # "asked"
               ELSE trades'[o] # <<>> /\ \E i \in DOMAIN pays'[o] : pays'[o][i] = "paid"
    <2>1. orders'[o].dir = orders[o].dir
      BY <1>3 DEF Grows, NoOrder
    <2>2. IF orders[o].dir = "Buy" THEN \E i \in DOMAIN trades[o] : trades[o][i] # "asked"
          ELSE trades[o] # <<>> /\ \E i \in DOMAIN pays[o] : pays[o][i] = "paid"
      BY <1>3 DEF StatusIsBacked, CoveredIsTraded
    <2>3. trades[o] # <<>> => trades'[o] # <<>>
      <3>1. trades[o] \in Seq(TradeStates)
        BY DEF TypeOK
      <3>2. trades[o] # <<>> => 1 \in DOMAIN trades[o]
        BY <3>1
      <3>3. 1 \in DOMAIN trades[o] => 1 \in DOMAIN trades'[o]
        BY DEF Grows
      <3> QED  BY <3>2, <3>3
    <2>4. /\ \A i \in DOMAIN trades[o] : trades[o][i] # "asked" =>
                i \in DOMAIN trades'[o] /\ trades'[o][i] # "asked"
          /\ \A i \in DOMAIN pays[o] : pays[o][i] = "paid" =>
                i \in DOMAIN pays'[o] /\ pays'[o][i] = "paid"
      BY DEF Grows
    <2> QED  BY <2>1, <2>2, <2>3, <2>4
  <1>4. /\ orders'[o].status = "Executed" => moved'[o] > 0
        /\ orders'[o].cover \notin {"none", "PendingCover"} => moved'[o] > 0
        /\ pays'[o] # <<>> \/ trades'[o] # <<>> => moved'[o] > 0
    BY <1>1, <1>2
  <1> QED  BY <1>3, <1>4

\* What an order shows stays backed by money.
LEMMA BackedStep ==
    ASSUME TypeOK, JobsInv, \A w \in Workers : Position(w), StatusIsBacked, Grows,
           [Next]_vars
    PROVE  StatusIsBacked'
  <1> SUFFICES ASSUME NEW o \in OrderIds
               PROVE  /\ orders'[o].status = "Executed" => moved'[o] > 0
                      /\ orders'[o].cover \notin {"none", "PendingCover"} => moved'[o] > 0
                      /\ pays'[o] # <<>> \/ trades'[o] # <<>> => moved'[o] > 0
                      /\ orders'[o].cover = "Covered" =>
                            IF orders'[o].dir = "Buy"
                            THEN \E i \in DOMAIN trades'[o] : trades'[o][i] # "asked"
                            ELSE /\ trades'[o] # <<>>
                                 /\ \E i \in DOMAIN pays'[o] : pays'[o][i] = "paid"
    BY DEF StatusIsBacked, ExecutedIsBooked, CoveredIsTraded
  <1> DEFINE Backed == /\ orders'[o].status = "Executed" => moved'[o] > 0
                       /\ orders'[o].cover \notin {"none", "PendingCover"} => moved'[o] > 0
                       /\ pays'[o] # <<>> \/ trades'[o] # <<>> => moved'[o] > 0
                       /\ orders'[o].cover = "Covered" =>
                            IF orders'[o].dir = "Buy"
                            THEN \E i \in DOMAIN trades'[o] : trades'[o][i] # "asked"
                            ELSE /\ trades'[o] # <<>>
                                 /\ \E i \in DOMAIN pays'[o] : pays'[o][i] = "paid"
  <1>1. ASSUME UNCHANGED <<orders, pays, trades>> PROVE Backed
    BY <1>1, BackedKept
  <1>2. ASSUME NEW p \in OrderIds, orders[p] # NoOrder, NEW s, SetStatus(p, s),
               s = "Executed" => moved'[p] > 0, UNCHANGED <<pays, trades>>
        PROVE  Backed
    <2>1. orders'[o].status = "Executed" => orders[o].status = "Executed" \/ moved'[o] > 0
      BY <1>2, Written
    <2>2. orders'[o].cover = orders[o].cover
      BY <1>2, Written
    <2> QED  BY <1>2, <2>1, <2>2, BackedKept
  <1>3. ASSUME NEW p \in OrderIds, orders[p] # NoOrder, NEW s, SetCover(p, s),
               moved'[p] > 0, UNCHANGED <<pays, trades>>,
               s = "Covered" =>
                  IF orders[p].dir = "Buy"
                  THEN \E i \in DOMAIN trades[p] : trades[p][i] # "asked"
                  ELSE trades[p] # <<>> /\ \E i \in DOMAIN pays[p] : pays[p][i] = "paid"
        PROVE  Backed
    <2>1. orders'[o].status = orders[o].status
      BY <1>3, Written
    <2>2. CASE o # p
      <3>1. orders'[o] = orders[o]
        BY <1>3, <2>2, Written
      <3> QED  BY <1>3, <3>1, BackedKept
    <2>3. CASE o = p
      <3>1. orders'[o].cover = s /\ orders'[o].dir = orders[o].dir
        BY <1>3, <2>3, Written
      <3> QED  BY <1>3, <2>1, <2>3, <3>1, BackedKept
    <2> QED  BY <2>2, <2>3
  <1>4. ASSUME NEW p \in OrderIds, NEW dir \in Directions, NEW big \in BOOLEAN,
               CreateOrder(p, dir, big)
        PROVE  Backed
    <2>1. orders'[o] = orders[o] \/ (orders'[o].status = "PendingExecution"
                                      /\ orders'[o].cover = "PendingCover")
      BY <1>4 DEF CreateOrder, TypeOK
    <2>2. UNCHANGED <<pays, trades>>
      BY <1>4 DEF CreateOrder
    <2> QED  BY <2>1, <2>2, BackedKept
  <1>5. ASSUME NEW p \in OrderIds, NEW i \in DOMAIN pays[p], SubmitOnchain(p, i)
        PROVE  Backed
    <2>1. pays'[o] # <<>> => pays[o] # <<>>
      <3>1. PICK s : pays' = [pays EXCEPT ![p][i] = s]
        BY <1>5 DEF SubmitOnchain
      <3>2. DOMAIN pays'[o] = DOMAIN pays[o] /\ pays \in [OrderIds -> Seq(PayStates)]
        BY <3>1 DEF TypeOK
      <3>3. pays[o] = <<>> => pays'[o] = pays[o] \/ p = o
        BY <3>1, <3>2
      <3>4. pays[o] = <<>> => p # o
        BY <1>5
      <3> QED  BY <3>3, <3>4
    <2>2. UNCHANGED <<orders, trades>>
      BY <1>5 DEF SubmitOnchain
    <2> QED  BY <2>1, <2>2, BackedKept
  <1>6. ASSUME NEW p \in OrderIds, NEW i \in DOMAIN trades[p],
               ProviderCompletes(p, i) \/ DeliveryRecorded(p, i)
        PROVE  Backed
    <2>1. trades'[o] # <<>> => trades[o] # <<>>
      <3>1. PICK s : trades' = [trades EXCEPT ![p][i] = s]
        BY <1>6 DEF ProviderCompletes, DeliveryRecorded
      <3>2. trades[o] = <<>> => trades'[o] = trades[o] \/ p = o
        BY <3>1 DEF TypeOK
      <3>3. trades[o] = <<>> => p # o
        BY <1>6
      <3> QED  BY <3>2, <3>3
    <2>2. UNCHANGED <<orders, pays>>
      BY <1>6 DEF ProviderCompletes, DeliveryRecorded
    <2> QED  BY <2>1, <2>2, BackedKept
  <1>7. ASSUME NEW w \in Workers, NEW p \in OrderIds, ExecuteOrder(w, p) PROVE Backed
    <2>1. orders[p] # NoOrder /\ UNCHANGED <<pays, trades>>
      BY <1>7 DEF ExecuteOrder, Takes, JobsInv
    <2>2. UNCHANGED orders \/ SetStatus(p, "Expired")
      BY <1>7 DEF ExecuteOrder
    <2> QED  BY <2>1, <2>2, <1>1, <1>2
  <1>8. ASSUME NEW w \in Workers, NEW p \in OrderIds, CoverOrder(w, p) PROVE Backed
    <2>1. orders[p] # NoOrder /\ moved[p] > 0
      BY <1>8 DEF CoverOrder, Takes, JobsInv
    <2>2. moved'[p] > 0
      BY <2>1 DEF Grows, TypeOK
    <2> QED  BY <1>8, <2>1, <2>2, <1>3 DEF CoverOrder
  <1>9. ASSUME NEW w \in Workers, worker[w].pc # "idle",
               FailedExecute(w) \/ Executed(w)
        PROVE  Backed
    <2>1. worker[w].order \in OrderIds /\ orders[worker[w].order] # NoOrder
      BY <1>9, OrderAtWork
    <2>2. CASE FailedExecute(w)
      BY <2>1, <2>2, <1>2 DEF FailedExecute
    <2>3. CASE Executed(w)
      <3>1. moved[worker[w].order] > 0
        BY <2>3, <1>9, OrderAtWork DEF Executed, Position
      <3>2. moved'[worker[w].order] > 0
        BY <2>1, <3>1 DEF Grows, TypeOK
      <3> QED  BY <2>1, <2>3, <3>2, <1>2 DEF Executed
    <2> QED  BY <1>9, <2>2, <2>3
  <1>10. ASSUME NEW w \in Workers, worker[w].pc # "idle",
                LpDepositTimeout(w) \/ TradeComplete(w) \/ TradeTimeout(w)
                  \/ ValidateTransaction(w) \/ Covered(w)
         PROVE  Backed
    <2> DEFINE p == worker[w].order
    <2>1. p \in OrderIds /\ orders[p] # NoOrder /\ worker[w] # Idle
          /\ worker[w].pc \in {"deposit", "wait", "validate", "covered"}
      BY <1>10, OrderAtWork DEF LpDepositTimeout, TradeComplete, TradeTimeout,
         ValidateTransaction, Covered
    <2>2. moved[p] > 0
      BY <2>1 DEF Position, CoverPcs
    <2>3. moved'[p] > 0
      BY <2>1, <2>2 DEF Grows, TypeOK
    <2>4. UNCHANGED <<pays, trades>>
      BY <1>10 DEF LpDepositTimeout, TradeComplete, TradeTimeout, ValidateTransaction, Covered
    <2>5. CASE LpDepositTimeout(w) \/ TradeComplete(w) \/ TradeTimeout(w)
      BY <2>1, <2>3, <2>4, <2>5, <1>3 DEF LpDepositTimeout, TradeComplete, TradeTimeout
    <2>6. CASE ValidateTransaction(w)
      <3>1. /\ worker[w].pc = "validate" /\ orders[p].dir = "Buy"
            /\ worker[w].arg \in DOMAIN trades[p] /\ trades[p][worker[w].arg] # "asked"
        BY <2>1, <2>6 DEF ValidateTransaction, Position
      <3>2. \E s : SetCover(p, s)
        BY <2>6 DEF ValidateTransaction
      <3> QED  BY <2>1, <2>3, <2>4, <3>1, <3>2, <1>3
    <2>7. CASE Covered(w)
      <3>1. /\ worker[w].pc = "covered" /\ orders[p].dir = "Sell"
            /\ trades[p] # <<>> /\ \E j \in DOMAIN pays[p] : pays[p][j] = "paid"
        BY <2>1, <2>7 DEF Covered, Position
      <3> QED  BY <2>1, <2>3, <2>4, <2>7, <3>1, <1>3 DEF Covered
    <2> QED  BY <1>10, <2>5, <2>6, <2>7
  <1>11. ASSUME NEW w \in Workers, worker[w].pc # "idle",
                TransferFundsToLp(w) \/ TradeAndExecute(w)
         PROVE  Backed
    <2> DEFINE p == worker[w].order
    <2>1. p \in OrderIds /\ orders[p] # NoOrder /\ worker[w] # Idle
          /\ worker[w].pc \in {"pay", "trade"}
      BY <1>11, OrderAtWork DEF TransferFundsToLp, TradeAndExecute
    <2>2. moved[p] > 0
      BY <2>1 DEF Position, CoverPcs
    <2>3. moved'[p] > 0
      BY <2>1, <2>2 DEF Grows, TypeOK
    <2>4. UNCHANGED orders
      BY <1>11 DEF TransferFundsToLp, TradeAndExecute
    <2>5. pays'[o] # pays[o] => o = p
      BY <1>11 DEF TransferFundsToLp, TradeAndExecute, TypeOK
    <2>6. trades'[o] # trades[o] => o = p
      BY <1>11 DEF TransferFundsToLp, TradeAndExecute, TypeOK
    <2> QED  BY <2>3, <2>4, <2>5, <2>6, BackedKept
  <1> QED
    <2>1. ASSUME NEW w \in Workers, WorkerStep(w) PROVE Backed
      <3>1. CASE worker[w].pc # "idle"
        <4>1. \/ \E p \in OrderIds : ExecuteOrder(w, p) \/ CoverOrder(w, p)
              \/ FailedExecute(w) \/ Executed(w) \/ LpDepositTimeout(w) \/ TradeComplete(w)
              \/ TradeTimeout(w) \/ ValidateTransaction(w) \/ Covered(w)
              \/ TransferFundsToLp(w) \/ TradeAndExecute(w)
              \/ UNCHANGED <<orders, pays, trades>>
          BY <2>1 DEF WorkerStep, BuyFunds, Transfer, SendCover, LpDepositComplete
        <4> QED  BY <4>1, <3>1, <1>1, <1>7, <1>8, <1>9, <1>10, <1>11
      <3>2. CASE worker[w].pc = "idle"
        BY <2>1, <3>2, <1>7, <1>8 DEF WorkerStep, BuyFunds, Transfer, FailedExecute, Executed,
           SendCover, TransferFundsToLp, LpDepositComplete, LpDepositTimeout,
           TradeAndExecute, TradeComplete, TradeTimeout, ValidateTransaction, Covered
      <3> QED  BY <3>1, <3>2
    <2>2. \/ \E p \in OrderIds :
                \/ \E dir \in Directions, big \in BOOLEAN : CreateOrder(p, dir, big)
                \/ \E i \in DOMAIN pays[p] : SubmitOnchain(p, i)
                \/ \E i \in DOMAIN trades[p] : ProviderCompletes(p, i) \/ DeliveryRecorded(p, i)
          \/ \E w \in Workers : WorkerStep(w)
          \/ UNCHANGED <<orders, pays, trades>>
      BY DEF Next, vars, ProcessOrder, Expiration, WorkerCrash, LpError, LotRecorded
    <2> QED  BY <2>1, <2>2, <1>1, <1>4, <1>5, <1>6

\* In every reachable state each worker's position says what it should, jobs are about
\* orders they may be about, and what orders show is backed by money.
THEOREM InvariantHolds == Spec => []IInv
  <1>1. IInv /\ [Next]_vars => IInv'
    <2> SUFFICES ASSUME IInv, [Next]_vars PROVE IInv'  OBVIOUS
    <2>1. TypeOK /\ JobsInv /\ (\A w \in Workers : Position(w)) /\ StatusIsBacked
      BY DEF IInv
    <2>2. TypeOK'
      BY <2>1, TypeStep
    <2>3. Grows
      BY <2>1, GrowsStep
    <2>4. JobsInv' /\ (\A w \in Workers : Position(w)')
      BY <2>1, <2>3, JobsStep, PositionStep
    <2>5. StatusIsBacked'
      BY <2>1, <2>3, BackedStep
    <2> QED  BY <2>2, <2>4, <2>5 DEF IInv
  <1> QED  BY <1>1, InitIInv, PTL DEF Spec

\* An order is shown as executed or covered only when the money moved, the provider
\* traded and, for a sale, it was paid on the chain.
THEOREM StatusBacked == Spec => []StatusIsBacked
  <1>1. IInv => StatusIsBacked
    BY DEF IInv
  <1> QED  BY <1>1, InvariantHolds, PTL

\* Whether a job is order o's and stands at one of pcs.
In(job, o, pcs) == IF job.pc \in pcs /\ job.order = o THEN 1 ELSE 0

\* How many workers' jobs are order o's and stand at one of pcs, if f says where each is.
Count(f, o, pcs) == Cardinality({w \in Workers : f[w].pc \in pcs /\ f[w].order = o})

\* When one worker moves, the number of those that stand at some steps of an order's
\* job changes by where that worker stood and stands.
LEMMA CountMoves ==
    ASSUME NEW f, NEW g, IsFiniteSet({v \in Workers : f[v] # Idle}), NEW w \in Workers,
           \A v \in Workers : v # w => g[v] = f[v],
           NEW o, NEW pcs, "idle" \notin pcs
    PROVE  /\ Count(f, o, pcs) \in Nat /\ Count(g, o, pcs) \in Nat
           /\ Count(g, o, pcs) + In(f[w], o, pcs) = Count(f, o, pcs) + In(g[w], o, pcs)
  <1> DEFINE H == {v \in Workers : f[v].pc \in pcs /\ f[v].order = o}
             G == {v \in Workers : g[v].pc \in pcs /\ g[v].order = o}
             R == H \ {w}
  <1>1. H \subseteq {v \in Workers : f[v] # Idle}
    BY DEF Idle
  <1>2. IsFiniteSet(H)
    BY <1>1, FS_Subset
  <1>3. IsFiniteSet(R) /\ Cardinality(R) \in Nat
    BY <1>2, FS_RemoveElement, FS_CardinalityType
  <1>5. G = IF g[w].pc \in pcs /\ g[w].order = o THEN R \cup {w} ELSE R
    OBVIOUS
  <1>6. H = IF f[w].pc \in pcs /\ f[w].order = o THEN R \cup {w} ELSE R
    OBVIOUS
  <1>7. w \notin R
    OBVIOUS
  <1> HIDE DEF R
  <1>8. Cardinality(R \cup {w}) = Cardinality(R) + 1
    BY <1>3, <1>7, FS_AddElement
  <1> HIDE DEF G, H
  <1>9. Cardinality(G) = Cardinality(R) + In(g[w], o, pcs)
    BY <1>3, <1>5, <1>8 DEF In
  <1>10. Cardinality(H) = Cardinality(R) + In(f[w], o, pcs)
    BY <1>3, <1>6, <1>8 DEF In
  <1>11. In(g[w], o, pcs) \in {0, 1} /\ In(f[w], o, pcs) \in {0, 1}
    BY DEF In
  <1>12. Cardinality(H) = Count(f, o, pcs) /\ Cardinality(G) = Count(g, o, pcs)
    BY DEF H, G, Count
  <1> QED  BY <1>3, <1>9, <1>10, <1>11, <1>12

\* The job of worker w becomes x.
Moves(w, x) == worker' = [worker EXCEPT ![w] = x]

\* The number of workers that are busy stays finite.
LEMMA BusyMoves ==
    ASSUME TypeOK, IsFiniteSet(Busy), NEW w \in Workers, NEW x,
           Moves(w, x)
    PROVE  IsFiniteSet(Busy')
  <1>1. Busy' \subseteq Busy \cup {w}
    BY DEF Busy, TypeOK, Moves
  <1>2. IsFiniteSet(Busy \cup {w})
    BY FS_AddElement
  <1> QED  BY <1>1, <1>2, FS_Subset

\* The length of the sequence that f has for order q.
Lens(f, q) == Len(f[q])

\* What a step adds to the transfers, payments and trades of order q and to the jobs
\* that still may add some, with a worker whose job was old and is new, is covered by
\* what it adds to the requests, transfers and faults.
Accounted(q, old, new) ==
    /\ moved'[q] + jobs'["execute"][q] + In(new, q, ToMove) + posts[q] + faults
         <= moved[q] + jobs["execute"][q] + In(old, q, ToMove) + posts'[q] + faults'
    /\ Lens(pays', q) + jobs'["cover"][q] + In(new, q, ToPay) + moved[q] + faults
         <= Lens(pays, q) + jobs["cover"][q] + In(old, q, ToPay) + moved'[q] + faults'
    /\ Lens(trades', q) + jobs'["cover"][q] + In(new, q, ToTrade) + moved[q] + faults
         <= Lens(trades, q) + jobs["cover"][q] + In(old, q, ToTrade) + moved'[q] + faults'

\* The counters are numbers.
LEMMA Counters ==
    ASSUME TypeOK, NEW q \in OrderIds
    PROVE  /\ moved[q] \in Nat /\ posts[q] \in Nat /\ faults \in Nat
           /\ jobs["execute"][q] \in Nat /\ jobs["cover"][q] \in Nat
           /\ Lens(pays, q) \in Nat /\ Lens(trades, q) \in Nat
  BY DEF TypeOK, Kinds, Lens

\* A step of one worker that accounts for what it does keeps the counts.
LEMMA CountKept ==
    ASSUME TypeOK, TypeOK', CountInv, NEW w \in Workers, NEW x, Moves(w, x),
           \A q \in OrderIds : Accounted(q, worker[w], x)
    PROVE  CountInv'
  <1>1. IsFiniteSet({v \in Workers : worker[v] # Idle}) /\ IsFiniteSet(Busy')
    BY BusyMoves DEF CountInv, Busy
  <1>2. "idle" \notin ToMove /\ "idle" \notin ToPay /\ "idle" \notin ToTrade
    BY DEF ToMove, ToPay, ToTrade
  <1>3. worker'[w] = x /\ \A v \in Workers : v # w => worker'[v] = worker[v]
    BY DEF TypeOK, Moves
  <1>4. ASSUME NEW q \in OrderIds, NEW pcs, "idle" \notin pcs
        PROVE  /\ Count(worker, q, pcs) \in Nat /\ Count(worker', q, pcs) \in Nat
               /\ Count(worker', q, pcs) + In(worker[w], q, pcs)
                    = Count(worker, q, pcs) + In(x, q, pcs)
               /\ In(worker[w], q, pcs) \in {0, 1} /\ In(x, q, pcs) \in {0, 1}
    BY <1>1, <1>3, <1>4, CountMoves DEF In
  <1>5. ASSUME NEW q \in OrderIds
        PROVE  /\ moved'[q] + jobs'["execute"][q] + Count(worker', q, ToMove) <= posts'[q] + faults'
               /\ Len(pays'[q]) + jobs'["cover"][q] + Count(worker', q, ToPay) <= moved'[q] + faults'
               /\ Len(trades'[q]) + jobs'["cover"][q] + Count(worker', q, ToTrade) <= moved'[q] + faults'
    <2> DEFINE paid == Lens(pays, q)
               traded == Lens(trades, q)
    <2>1. /\ moved[q] + jobs["execute"][q] + Count(worker, q, ToMove) <= posts[q] + faults
          /\ paid + jobs["cover"][q] + Count(worker, q, ToPay) <= moved[q] + faults
          /\ traded + jobs["cover"][q] + Count(worker, q, ToTrade) <= moved[q] + faults
      BY DEF CountInv, Count, Held, Lens
    <2>2. /\ moved[q] \in Nat /\ posts[q] \in Nat /\ faults \in Nat
          /\ jobs["execute"][q] \in Nat /\ jobs["cover"][q] \in Nat
          /\ paid \in Nat /\ traded \in Nat
      BY Counters
    <2>3. /\ moved'[q] \in Nat /\ posts'[q] \in Nat /\ faults' \in Nat
          /\ jobs'["execute"][q] \in Nat /\ jobs'["cover"][q] \in Nat
          /\ paid' \in Nat /\ traded' \in Nat
      BY DEF TypeOK, Kinds, Lens
    <2>4. /\ moved'[q] + jobs'["execute"][q] + In(x, q, ToMove) + posts[q] + faults
               <= moved[q] + jobs["execute"][q] + In(worker[w], q, ToMove) + posts'[q] + faults'
          /\ paid' + jobs'["cover"][q] + In(x, q, ToPay) + moved[q] + faults
               <= paid + jobs["cover"][q] + In(worker[w], q, ToPay) + moved'[q] + faults'
          /\ traded' + jobs'["cover"][q] + In(x, q, ToTrade) + moved[q] + faults
               <= traded + jobs["cover"][q] + In(worker[w], q, ToTrade) + moved'[q] + faults'
      BY DEF Accounted
    <2> HIDE DEF paid, traded
    <2>5. moved'[q] + jobs'["execute"][q] + Count(worker', q, ToMove) <= posts'[q] + faults'
      BY <2>1, <2>2, <2>3, <2>4, <1>4, <1>2
    <2>6. paid' + jobs'["cover"][q] + Count(worker', q, ToPay) <= moved'[q] + faults'
      BY <2>1, <2>2, <2>3, <2>4, <1>4, <1>2
    <2>7. traded' + jobs'["cover"][q] + Count(worker', q, ToTrade) <= moved'[q] + faults'
      BY <2>1, <2>2, <2>3, <2>4, <1>4, <1>2
    <2> QED  BY <2>5, <2>6, <2>7 DEF paid, traded, Lens
  <1> QED  BY <1>1, <1>5 DEF CountInv, Count, Held

\* A step that leaves the workers where they are and adds at most as many jobs as requests
\* keeps the counts.
LEMMA CountStays ==
    ASSUME TypeOK, TypeOK', CountInv, UNCHANGED worker,
           \A q \in OrderIds :
              /\ moved'[q] = moved[q] /\ faults' = faults
              /\ jobs'["execute"][q] + posts[q] <= jobs["execute"][q] + posts'[q]
              /\ jobs'["cover"][q] = jobs["cover"][q]
              /\ Lens(pays', q) = Lens(pays, q) /\ Lens(trades', q) = Lens(trades, q)
    PROVE  CountInv'
  <1>1. ASSUME NEW q \in OrderIds, NEW pcs PROVE Count(worker', q, pcs) = Count(worker, q, pcs)
    BY DEF Count
  <1>2. ASSUME NEW q \in OrderIds, NEW pcs, "idle" \notin pcs PROVE Count(worker, q, pcs) \in Nat
    <2>1. {w \in Workers : worker[w].pc \in pcs /\ worker[w].order = q} \subseteq Busy
      BY <1>2 DEF Busy, Idle
    <2> QED  BY <2>1, FS_Subset, FS_CardinalityType DEF CountInv, Count
  <1>3. "idle" \notin ToMove /\ "idle" \notin ToPay /\ "idle" \notin ToTrade
    BY DEF ToMove, ToPay, ToTrade
  <1>4. IsFiniteSet(Busy')
    BY DEF CountInv, Busy
  <1>5. ASSUME NEW q \in OrderIds
        PROVE  /\ moved'[q] + jobs'["execute"][q] + Count(worker', q, ToMove) <= posts'[q] + faults'
               /\ Lens(pays', q) + jobs'["cover"][q] + Count(worker', q, ToPay) <= moved'[q] + faults'
               /\ Lens(trades', q) + jobs'["cover"][q] + Count(worker', q, ToTrade) <= moved'[q] + faults'
    <2>1. /\ moved[q] + jobs["execute"][q] + Count(worker, q, ToMove) <= posts[q] + faults
          /\ Lens(pays, q) + jobs["cover"][q] + Count(worker, q, ToPay) <= moved[q] + faults
          /\ Lens(trades, q) + jobs["cover"][q] + Count(worker, q, ToTrade) <= moved[q] + faults
      BY DEF CountInv, Count, Held, Lens
    <2>2. /\ moved'[q] \in Nat /\ posts'[q] \in Nat /\ faults' \in Nat
          /\ jobs'["execute"][q] \in Nat /\ jobs'["cover"][q] \in Nat
          /\ Lens(pays', q) \in Nat /\ Lens(trades', q) \in Nat
      BY DEF TypeOK, Kinds, Lens
    <2> QED  BY <2>1, <2>2, <1>1, <1>2, <1>3, Counters
  <1> QED  BY <1>4, <1>5 DEF CountInv, Count, Held, Lens

\* The order that a worker's job is about is the only one that its step concerns.
LEMMA Elsewhere ==
    ASSUME TypeOK, NEW w \in Workers, NEW x, NEW o \in OrderIds,
           worker[w] = Idle \/ worker[w].order = o, x = Idle \/ x.order = o,
           Accounted(o, worker[w], x), faults' \in Nat, faults' >= faults,
           \A q \in OrderIds \ {o} :
              /\ moved'[q] = moved[q] /\ posts'[q] = posts[q]
              /\ jobs'["execute"][q] = jobs["execute"][q] /\ jobs'["cover"][q] = jobs["cover"][q]
              /\ Lens(pays', q) = Lens(pays, q) /\ Lens(trades', q) = Lens(trades, q)
    PROVE  \A q \in OrderIds : Accounted(q, worker[w], x)
  <1> SUFFICES ASSUME NEW q \in OrderIds, q # o PROVE Accounted(q, worker[w], x)
    OBVIOUS
  <1>1. ASSUME NEW pcs \in {ToMove, ToPay, ToTrade}
        PROVE  In(worker[w], q, pcs) = 0 /\ In(x, q, pcs) = 0
    <2>1. "idle" \notin pcs
      BY DEF ToMove, ToPay, ToTrade
    <2> QED  BY <2>1 DEF In, Idle
  <1> QED  BY <1>1, Counters DEF Accounted

\* A step of one worker that accounts for what it does to its order keeps the counts.
LEMMA Worked ==
    ASSUME TypeOK, TypeOK', CountInv, NEW w \in Workers, NEW x, NEW o \in OrderIds, Moves(w, x),
           worker[w] = Idle \/ worker[w].order = o, x = Idle \/ x.order = o,
           Accounted(o, worker[w], x), faults' >= faults,
           \A q \in OrderIds \ {o} :
              /\ moved'[q] = moved[q] /\ posts'[q] = posts[q]
              /\ jobs'["execute"][q] = jobs["execute"][q] /\ jobs'["cover"][q] = jobs["cover"][q]
              /\ Lens(pays', q) = Lens(pays, q) /\ Lens(trades', q) = Lens(trades, q)
    PROVE  CountInv'
  <1>1. faults' \in Nat
    BY DEF TypeOK
  <1> QED  BY <1>1, Elsewhere, CountKept

\* A job that ends or goes on without a transfer, a payment or a trade keeps the counts.
LEMMA Quiet ==
    ASSUME TypeOK, TypeOK', CountInv, NEW w \in Workers, worker[w].pc # "idle", NEW x, Moves(w, x),
           UNCHANGED <<moved, posts, jobs, pays, trades>>, faults' >= faults,
           x = Idle \/ x.order = worker[w].order,
           x.pc \in ToMove => worker[w].pc \in ToMove,
           x.pc \in ToPay => worker[w].pc \in ToPay,
           x.pc \in ToTrade => worker[w].pc \in ToTrade
    PROVE  CountInv'
  <1> DEFINE o == worker[w].order
  <1>1. o \in OrderIds
    BY AtWork DEF Jobs
  <1>2. "idle" \notin ToMove /\ "idle" \notin ToPay /\ "idle" \notin ToTrade /\ Idle.pc = "idle"
    BY DEF ToMove, ToPay, ToTrade, Idle
  <1>3. /\ In(x, o, ToMove) <= In(worker[w], o, ToMove)
        /\ In(x, o, ToPay) <= In(worker[w], o, ToPay)
        /\ In(x, o, ToTrade) <= In(worker[w], o, ToTrade)
    BY <1>2 DEF In
  <1>4. \A pcs : In(x, o, pcs) \in {0, 1} /\ In(worker[w], o, pcs) \in {0, 1}
    BY DEF In
  <1>5. faults \in Nat /\ faults' \in Nat
    BY DEF TypeOK
  <1> HIDE DEF o
  <1>6. Accounted(o, worker[w], x)
    BY <1>1, <1>3, <1>4, <1>5, Counters DEF Accounted
  <1> QED  BY <1>1, <1>6, Worked DEF o

\* What a job contributes that stands at pc.
LEMMA Contributes ==
    ASSUME NEW job, NEW o, job.order = o
    PROVE  /\ In(job, o, ToMove) = IF job.pc \in {"buy", "transfer"} THEN 1 ELSE 0
           /\ In(job, o, ToPay) = IF job.pc \in {"executed", "send", "pay"} THEN 1 ELSE 0
           /\ In(job, o, ToTrade) =
                 IF job.pc \in {"executed", "send", "pay", "deposit", "trade"} THEN 1 ELSE 0
  BY DEF In, ToMove, ToPay, ToTrade

\* A worker without a job contributes nothing.
LEMMA IdleContributes ==
    ASSUME NEW o
    PROVE  In(Idle, o, ToMove) = 0 /\ In(Idle, o, ToPay) = 0 /\ In(Idle, o, ToTrade) = 0
  BY DEF In, Idle, ToMove, ToPay, ToTrade

\* Every step of one worker keeps the counts.
LEMMA WorkerCounts ==
    ASSUME IInv, TypeOK', CountInv, NEW w \in Workers,
           WorkerStep(w) \/ WorkerCrash(w) \/ LpError(w)
    PROVE  CountInv'
  <1> DEFINE p == worker[w].order
             pc == worker[w].pc
             x == worker'[w]
  <1>t. TypeOK /\ Position(w)
    BY DEF IInv
  <1>f. /\ faults \in Nat /\ faults' \in Nat /\ worker \in [Workers -> Jobs \cup {Idle}]
        /\ moved \in [OrderIds -> Nat] /\ posts \in [OrderIds -> Nat]
        /\ jobs \in [Kinds -> [OrderIds -> Nat]]
    BY <1>t DEF TypeOK
  <1>w. pc # "idle" => p \in OrderIds /\ worker[w] \in Jobs /\ worker[w] # Idle
    BY <1>t, AtWork DEF Jobs
  <1>m. ASSUME NEW e, worker' = [worker EXCEPT ![w] = e] PROVE Moves(w, x) /\ x = e
    BY <1>f, <1>m DEF Moves
  <1>k. "execute" \in Kinds /\ "cover" \in Kinds
    BY DEF Kinds
  <1>1. ASSUME NEW o \in OrderIds, ExecuteOrder(w, o) PROVE CountInv'
    <2>1. /\ Moves(w, x)
          /\ x = Idle \/ (x.order = o /\ x.pc \in {"buy", "transfer"})
      <3>1. CASE o \in late
        <4>1. worker' = [worker EXCEPT ![w] = Idle]
          BY <1>1, <3>1, <1>f DEF ExecuteOrder, Takes
        <4> QED  BY <4>1, <1>m
      <3>2. CASE o \notin late
        BY <1>1, <3>2, <1>m DEF ExecuteOrder, At
      <3> QED  BY <3>1, <3>2
    <2>2. worker[w] = Idle /\ jobs' = [jobs EXCEPT !["execute"][o] = @ - 1]
      BY <1>1 DEF ExecuteOrder, Takes
    <2>3. /\ jobs'["execute"][o] = jobs["execute"][o] - 1 /\ jobs'["cover"] = jobs["cover"]
          /\ \A q \in OrderIds \ {o} : jobs'["execute"][q] = jobs["execute"][q]
      BY <2>2, <1>f, <1>k
    <2>4. UNCHANGED <<moved, posts, pays, trades, faults>>
      BY <1>1 DEF ExecuteOrder
    <2>5. Accounted(o, worker[w], x)
      BY <2>1, <2>2, <2>3, <2>4, <1>t, Counters, Contributes, IdleContributes DEF Accounted
    <2>6. Moves(w, x) /\ (x = Idle \/ x.order = o) /\ faults' >= faults
      BY <2>1, <2>4, <1>f
    <2>7. ASSUME NEW q \in OrderIds \ {o}
          PROVE  /\ moved'[q] = moved[q] /\ posts'[q] = posts[q]
                 /\ jobs'["execute"][q] = jobs["execute"][q] /\ jobs'["cover"][q] = jobs["cover"][q]
                 /\ Lens(pays', q) = Lens(pays, q) /\ Lens(trades', q) = Lens(trades, q)
      BY <2>3, <2>4
    <2> HIDE DEF x
    <2> QED  BY <2>2, <2>5, <2>6, <2>7, <1>t, Worked
  <1>2. ASSUME NEW o \in OrderIds, CoverOrder(w, o) PROVE CountInv'
    <2>1. Moves(w, x) /\ x.order = o /\ x.pc \in {"pay", "trade"}
      BY <1>2, <1>m DEF CoverOrder, At
    <2>2. worker[w] = Idle /\ jobs' = [jobs EXCEPT !["cover"][o] = @ - 1]
      BY <1>2 DEF CoverOrder, Takes
    <2>3. /\ jobs'["cover"][o] = jobs["cover"][o] - 1 /\ jobs'["execute"] = jobs["execute"]
          /\ \A q \in OrderIds \ {o} : jobs'["cover"][q] = jobs["cover"][q]
      BY <2>2, <1>f, <1>k
    <2>4. UNCHANGED <<moved, posts, pays, trades, faults>>
      BY <1>2 DEF CoverOrder
    <2>5. Accounted(o, worker[w], x)
      BY <2>1, <2>2, <2>3, <2>4, <1>t, Counters, Contributes, IdleContributes DEF Accounted
    <2> QED  BY <2>1, <2>2, <2>3, <2>4, <2>5, <1>t, <1>f, Worked
  <1>3. CASE Transfer(w)
    <2>1. pc = "transfer" /\ UNCHANGED <<jobs, posts, pays, trades, faults>>
      BY <1>3 DEF Transfer
    <2>2. /\ Moves(w, x) /\ x.order = p
          /\ \/ x.pc = "failed" /\ moved' = moved
             \/ x.pc = "executed" /\ moved' = [moved EXCEPT ![p] = @ + 1]
      BY <1>3, <1>m DEF Transfer, Goto, At
    <2>3. Accounted(p, worker[w], x)
      BY <2>1, <2>2, <1>t, <1>f, <1>w, Counters, Contributes DEF Accounted
    <2> QED  BY <2>1, <2>2, <2>3, <1>t, <1>f, <1>w, Worked
  <1>4. CASE SendCover(w)
    <2>1. pc = "send" /\ UNCHANGED <<moved, posts, pays, trades, faults>> /\ Moves(w, Idle)
      BY <1>4 DEF SendCover, Ends, Moves
    <2>2. jobs' = [jobs EXCEPT !["cover"][p] = @ + 1]
      BY <1>4 DEF SendCover
    <2>3. /\ jobs'["cover"][p] = jobs["cover"][p] + 1 /\ jobs'["execute"] = jobs["execute"]
          /\ \A q \in OrderIds \ {p} : jobs'["cover"][q] = jobs["cover"][q]
      BY <2>1, <2>2, <1>f, <1>k, <1>w
    <2>4. Accounted(p, worker[w], Idle)
      BY <2>1, <2>3, <1>t, <1>w, Counters, Contributes, IdleContributes DEF Accounted
    <2> QED  BY <2>1, <2>3, <2>4, <1>t, <1>f, <1>w, Worked
  <1>5. CASE TransferFundsToLp(w)
    <2>1. pc = "pay" /\ UNCHANGED <<moved, jobs, posts, trades, faults>>
      BY <1>5 DEF TransferFundsToLp
    <2>2. Moves(w, x) /\ (x = Idle \/ (x.order = p /\ x.pc = "deposit"))
      BY <1>5, <1>m DEF TransferFundsToLp, Goto, Ends, At
    <2>3. \A q \in OrderIds : Lens(pays', q) = Lens(pays, q) + (IF q = p /\ pays' # pays THEN 1 ELSE 0)
      <3>1. \/ pays' = pays
            \/ \E s \in PayStates : pays' = [pays EXCEPT ![p] = Append(@, s)]
        BY <1>5 DEF TransferFundsToLp, PayStates
      <3>2. pays \in [OrderIds -> Seq(PayStates)]
        BY <1>t DEF TypeOK
      <3>3. ASSUME NEW s \in PayStates, pays' = [pays EXCEPT ![p] = Append(@, s)], NEW q \in OrderIds
            PROVE  Lens(pays', q) = Lens(pays, q) + (IF q = p THEN 1 ELSE 0)
        BY <3>2, <3>3 DEF Lens
      <3>4. \A q \in OrderIds : Lens(pays, q) \in Nat
        BY <1>t, Counters
      <3>5. CASE pays' = pays
        BY <3>4, <3>5
      <3> QED  BY <3>1, <3>3, <3>5, <3>4
    <2>4. Accounted(p, worker[w], x)
      BY <2>1, <2>2, <2>3, <1>t, <1>w, Counters, Contributes, IdleContributes DEF Accounted
    <2>5. \A q \in OrderIds \ {p} : Lens(pays', q) = Lens(pays, q)
      BY <2>3, <1>t, Counters
    <2> QED  BY <2>1, <2>2, <2>4, <2>5, <1>t, <1>f, <1>w, Worked
  <1>6. CASE TradeAndExecute(w)
    <2>1. pc = "trade" /\ UNCHANGED <<moved, jobs, posts, pays, faults>>
      BY <1>6 DEF TradeAndExecute
    <2>2. Moves(w, x) /\ x.order = p /\ x.pc \in {"covered", "wait"}
      BY <1>6, <1>m DEF TradeAndExecute, Goto, At
    <2>3. \A q \in OrderIds : Lens(trades', q) = Lens(trades, q) + (IF q = p THEN 1 ELSE 0)
      <3>1. trades' = [trades EXCEPT ![p] = Append(@, "asked")] /\ "asked" \in TradeStates
        BY <1>6 DEF TradeAndExecute, TradeStates
      <3>2. trades \in [OrderIds -> Seq(TradeStates)]
        BY <1>t DEF TypeOK
      <3> QED  BY <3>1, <3>2 DEF Lens
    <2>4. Accounted(p, worker[w], x)
      BY <2>1, <2>2, <2>3, <1>t, <1>w, Counters, Contributes DEF Accounted
    <2>5. \A q \in OrderIds \ {p} : Lens(trades', q) = Lens(trades, q)
      BY <2>3, <1>t, Counters
    <2> QED  BY <2>1, <2>2, <2>4, <2>5, <1>t, <1>f, <1>w, Worked
  <1>7. CASE WorkerCrash(w)
    <2>1. worker[w] # Idle /\ worker[w] \in Jobs /\ p \in OrderIds /\ Moves(w, Idle)
      BY <1>7, <1>f DEF WorkerCrash, Ends, Moves, Jobs
    <2>2. UNCHANGED <<moved, posts, pays, trades>> /\ faults' = faults + 1
      BY <1>7 DEF WorkerCrash, Fault
    <2>3. /\ KindOf(pc) \in Kinds /\ jobs' = [jobs EXCEPT ![KindOf(pc)][p] = @ + 1]
          /\ KindOf(pc) = "cover" => pc \in CoverPcs
          /\ KindOf(pc) = "execute" => pc \in ExecutePcs
      BY <1>7, <2>1 DEF WorkerCrash, KindOf, Kinds, Jobs
    <2>4. \A k \in Kinds : /\ jobs'[k][p] = jobs[k][p] + (IF k = KindOf(pc) THEN 1 ELSE 0)
                           /\ \A q \in OrderIds \ {p} : jobs'[k][q] = jobs[k][q]
      BY <2>1, <2>3, <1>f
    <2>5. Accounted(p, worker[w], Idle)
      <3>1. CASE KindOf(pc) = "execute"
        BY <2>1, <2>2, <2>3, <2>4, <3>1, <1>t, <1>k, Counters, Contributes, IdleContributes
        DEF Accounted, ExecutePcs
      <3>2. CASE KindOf(pc) = "cover"
        BY <2>1, <2>2, <2>3, <2>4, <3>2, <1>t, <1>k, Counters, Contributes, IdleContributes
        DEF Accounted, CoverPcs
      <3> QED  BY <2>3, <3>1, <3>2 DEF Kinds
    <2> QED  BY <2>1, <2>2, <2>4, <2>5, <1>t, <1>f, <1>k, Worked
  <1>8. CASE BuyFunds(w) \/ FailedExecute(w) \/ Executed(w) \/ LpDepositComplete(w) \/ LpDepositTimeout(w)
    <2>1. pc # "idle" /\ UNCHANGED <<moved, posts, jobs, pays, trades, faults>>
      BY <1>8 DEF BuyFunds, FailedExecute, Executed, LpDepositComplete, LpDepositTimeout
    <2>2. /\ Moves(w, x)
          /\ \/ x = Idle
             \/ /\ x.order = p
                /\ \/ pc = "buy" /\ x.pc = "transfer"
                   \/ pc = "executed" /\ x.pc = "send"
                   \/ pc = "deposit" /\ x.pc = "trade"
      BY <1>8, <1>m DEF BuyFunds, FailedExecute, Executed, LpDepositComplete, LpDepositTimeout,
                       Goto, Ends, At
    <2> QED  BY <2>1, <2>2, <1>t, <1>f, Quiet DEF ToMove, ToPay, ToTrade, Idle
  <1>9. CASE TradeComplete(w) \/ TradeTimeout(w) \/ ValidateTransaction(w) \/ Covered(w) \/ LpError(w)
    <2>1. pc # "idle" /\ UNCHANGED <<moved, posts, jobs, pays, trades>> /\ faults' >= faults
      BY <1>9, <1>f DEF TradeComplete, TradeTimeout, ValidateTransaction, Covered, LpError, Fault
    <2>2. Moves(w, x) /\ (x = Idle \/ (x.order = p /\ x.pc = "validate"))
      BY <1>9, <1>m DEF TradeComplete, TradeTimeout, ValidateTransaction, Covered, LpError,
                       Goto, Ends, At
    <2> QED  BY <2>1, <2>2, <1>t, <1>f, Quiet DEF ToMove, ToPay, ToTrade, Idle
  <1> QED
    BY <1>1, <1>2, <1>3, <1>4, <1>5, <1>6, <1>7, <1>8, <1>9 DEF WorkerStep

\* Every step keeps the counts.
LEMMA CountStep == IInv /\ IInv' /\ CountInv /\ [Next]_vars => CountInv'
  <1> SUFFICES ASSUME IInv, TypeOK', CountInv, [Next]_vars PROVE CountInv'
    BY DEF IInv
  <1>t. TypeOK
    BY DEF IInv
  <1>1. ASSUME NEW o \in OrderIds, ProcessOrder(o) PROVE CountInv'
    <2>1. /\ jobs' = [jobs EXCEPT !["execute"][o] = @ + 1] /\ posts' = [posts EXCEPT ![o] = @ + 1]
          /\ UNCHANGED <<worker, moved, pays, trades, faults>>
      BY <1>1 DEF ProcessOrder
    <2>2. \A q \in OrderIds : /\ jobs'["execute"][q] = jobs["execute"][q] + (IF q = o THEN 1 ELSE 0)
                              /\ posts'[q] = posts[q] + (IF q = o THEN 1 ELSE 0)
                              /\ jobs'["cover"][q] = jobs["cover"][q]
      BY <2>1, <1>t DEF TypeOK, Kinds
    <2>3. \A q \in OrderIds : jobs'["execute"][q] + posts[q] <= jobs["execute"][q] + posts'[q]
      BY <2>2, <1>t, Counters
    <2> QED  BY <2>1, <2>2, <2>3, <1>t, CountStays
  <1>2. ASSUME NEW o \in OrderIds, NEW i \in DOMAIN pays[o], SubmitOnchain(o, i) PROVE CountInv'
    <2>1. PICK s \in {"paid", "canceled"} : pays' = [pays EXCEPT ![o][i] = s]
      BY <1>2 DEF SubmitOnchain
    <2>2. UNCHANGED <<worker, moved, jobs, posts, trades, faults>>
      BY <1>2 DEF SubmitOnchain
    <2>3. pays \in [OrderIds -> Seq(PayStates)] /\ s \in PayStates
      BY <2>1, <1>t DEF TypeOK, PayStates
    <2>4. \A q \in OrderIds : Lens(pays', q) = Lens(pays, q)
      <3>1. pays' = [pays EXCEPT ![o] = [pays[o] EXCEPT ![i] = s]]
        BY <2>1, <2>3, EntryKept
      <3>2. pays[o] \in Seq(PayStates) /\ i \in 1..Len(pays[o])
        BY <2>3
      <3>3. Len([pays[o] EXCEPT ![i] = s]) = Len(pays[o])
        BY <2>3, <3>2, ExceptSeq
      <3> QED  BY <2>3, <3>1, <3>3 DEF Lens
    <2>5. \A q \in OrderIds : jobs'["execute"][q] + posts[q] <= jobs["execute"][q] + posts'[q]
      BY <2>2, <1>t, Counters
    <2> QED  BY <2>2, <2>4, <2>5, <1>t, CountStays
  <1>3. ASSUME NEW o \in OrderIds, NEW i \in DOMAIN trades[o],
               ProviderCompletes(o, i) \/ DeliveryRecorded(o, i)
        PROVE  CountInv'
    <2>1. PICK s \in {"complete", "recorded"} : trades' = [trades EXCEPT ![o][i] = s]
      BY <1>3 DEF ProviderCompletes, DeliveryRecorded
    <2>2. UNCHANGED <<worker, moved, jobs, posts, pays, faults>>
      BY <1>3 DEF ProviderCompletes, DeliveryRecorded
    <2>3. trades \in [OrderIds -> Seq(TradeStates)] /\ s \in TradeStates
      BY <2>1, <1>t DEF TypeOK, TradeStates
    <2>4. \A q \in OrderIds : Lens(trades', q) = Lens(trades, q)
      <3>1. trades' = [trades EXCEPT ![o] = [trades[o] EXCEPT ![i] = s]]
        BY <2>1, <2>3, EntryKept
      <3>2. trades[o] \in Seq(TradeStates) /\ i \in 1..Len(trades[o])
        BY <2>3
      <3>3. Len([trades[o] EXCEPT ![i] = s]) = Len(trades[o])
        BY <2>3, <3>2, ExceptSeq
      <3> QED  BY <2>3, <3>1, <3>3 DEF Lens
    <2>5. \A q \in OrderIds : jobs'["execute"][q] + posts[q] <= jobs["execute"][q] + posts'[q]
      BY <2>2, <1>t, Counters
    <2> QED  BY <2>2, <2>4, <2>5, <1>t, CountStays
  <1>4. CASE UNCHANGED <<worker, moved, jobs, posts, pays, trades, faults>>
    <2>1. \A q \in OrderIds : jobs'["execute"][q] + posts[q] <= jobs["execute"][q] + posts'[q]
      BY <1>4, <1>t, Counters
    <2> QED  BY <1>4, <2>1, <1>t, CountStays
  <1> QED
    BY <1>1, <1>2, <1>3, <1>4, WorkerCounts DEF Next, vars, CreateOrder, Expiration, LotRecorded

\* Nothing happens more often than requests, transfers and faults account for.
THEOREM RepeatInvariant == Spec => []RepeatInv
  <1>1. Init => CountInv
    <2> SUFFICES ASSUME Init PROVE CountInv
      OBVIOUS
    <2>1. Busy = {}
      BY DEF Init, Busy
    <2>2. ASSUME NEW o, NEW pcs, "idle" \notin pcs PROVE Held(o, pcs) = {}
      BY <2>2 DEF Init, Held, Idle
    <2>3. \A o \in OrderIds : Held(o, ToMove) = {} /\ Held(o, ToPay) = {} /\ Held(o, ToTrade) = {}
      BY <2>2 DEF ToMove, ToPay, ToTrade
    <2>4. IsFiniteSet({}) /\ Cardinality({}) = 0
      BY FS_EmptySet
    <2>5. ASSUME NEW o \in OrderIds
          PROVE  /\ moved[o] = 0 /\ posts[o] = 0 /\ faults = 0
                 /\ jobs["execute"][o] = 0 /\ jobs["cover"][o] = 0
                 /\ Len(pays[o]) = 0 /\ Len(trades[o]) = 0
      BY DEF Init, Kinds
    <2>6. ASSUME NEW o \in OrderIds
          PROVE  /\ Cardinality(Held(o, ToMove)) = 0 /\ Cardinality(Held(o, ToPay)) = 0
                 /\ Cardinality(Held(o, ToTrade)) = 0
      BY <2>3, <2>4
    <2>7. IsFiniteSet(Busy)
      BY <2>1, <2>4
    <2> QED  BY <2>5, <2>6, <2>7 DEF CountInv
  <1>2. IInv /\ IInv' /\ CountInv /\ [Next]_vars => CountInv'
    BY CountStep
  <1> QED  BY <1>1, <1>2, InvariantHolds, PTL DEF Spec, RepeatInv

\* An order's money moves at most once for each request to execute it and each fault, and
\* it is paid and traded for at most once for each transfer and each fault: the jobs, which
\* look at no status, repeat nothing more than that.
THEOREM RepeatsBounded == Spec => []RepeatedAtMost
  <1>1. RepeatInv => RepeatedAtMost
    <2> SUFFICES ASSUME RepeatInv, NEW o \in OrderIds
                 PROVE  /\ moved[o] <= posts[o] + faults
                        /\ Lens(pays, o) <= moved[o] + faults
                        /\ Lens(trades, o) <= moved[o] + faults
      BY DEF RepeatedAtMost, Lens
    <2>1. TypeOK /\ CountInv
      BY DEF RepeatInv, IInv
    <2>2. /\ moved[o] + jobs["execute"][o] + Cardinality(Held(o, ToMove)) <= posts[o] + faults
          /\ Lens(pays, o) + jobs["cover"][o] + Cardinality(Held(o, ToPay)) <= moved[o] + faults
          /\ Lens(trades, o) + jobs["cover"][o] + Cardinality(Held(o, ToTrade)) <= moved[o] + faults
      BY <2>1 DEF CountInv, Lens
    <2>3. ASSUME NEW pcs, "idle" \notin pcs PROVE Cardinality(Held(o, pcs)) \in Nat
      <3>1. Held(o, pcs) \subseteq Busy
        BY <2>3 DEF Held, Busy, Idle
      <3> QED  BY <2>1, <3>1, FS_Subset, FS_CardinalityType DEF CountInv
    <2>4. /\ Cardinality(Held(o, ToMove)) \in Nat /\ Cardinality(Held(o, ToPay)) \in Nat
          /\ Cardinality(Held(o, ToTrade)) \in Nat
      BY <2>3 DEF ToMove, ToPay, ToTrade
    <2> QED  BY <2>1, <2>2, <2>4, Counters
  <1> QED  BY <1>1, RepeatInvariant, PTL
=============================================================================
