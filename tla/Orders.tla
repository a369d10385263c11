------------------------------- MODULE Orders -------------------------------
(***************************************************************************)
(* Orders to buy or sell Diem against fiat money: what the web process     *)
(* writes, the worker jobs that execute and cover an order, and the        *)
(* liquidity provider, which is outside of the wallet.                     *)
(*                                                                         *)
(* Each order is about one unit.  Balances are computed from the ledger,   *)
(* which is kept here per order: its internal transfers, the inventory's   *)
(* payments to the provider, and the provider's deliveries.  How transfers *)
(* reach the chain is the business of Transactions.                        *)
(***************************************************************************)
EXTENDS Naturals, Integers, Sequences, FiniteSets, FiniteSetsExt, Functions

CONSTANTS
    OrderIds,
    Workers,        \* worker threads
    UserFunds,      \* the users' units at the beginning
    InventoryFunds, \* the inventory's
    Lot,            \* INVENTORY_AMOUNT: what buy_funds buys
    MaxPosts,       \* bound: execution requests
    FaultKinds,     \* subset of {"crash", "lp"}
    MaxFaults       \* bound: workers that die, calls to the provider that fail

ASSUME OrdersAssumption ==
    /\ UserFunds \in Nat /\ InventoryFunds \in Nat /\ Lot \in Nat
    /\ MaxPosts \in Nat /\ FaultKinds \subseteq {"crash", "lp"} /\ MaxFaults \in Nat

VARIABLES
    orders,     \* [OrderIds -> row or NoOrder]
    late,       \* orders whose expiration time has passed
    jobs,       \* [Kinds -> [OrderIds -> jobs in the broker's queue]]
    worker,     \* [Workers -> Idle or the job and where it stands]
    moved,      \* [OrderIds -> internal transfers made for the order]
    pays,       \* [OrderIds -> Seq(PayStates)]: transfers from the inventory to the provider
    trades,     \* [OrderIds -> Seq(TradeStates)]: the provider's trades for the order
    lots,       \* lots that the provider still has to deliver
    bought,     \* lots delivered
    dropped,    \* orders one of whose jobs failed for good (history)
    posts,      \* [OrderIds -> execution requests]
    faults      \* counter for the bound

vars == <<orders, late, jobs, worker, moved, pays, trades, lots, bought, dropped, posts, faults>>

Directions == {"Buy", "Sell"}
OrderStatuses == {"PendingExecution", "Executed", "Expired", "FailedExecute"}
CoverStatuses == {"PendingCover", "PendingCoverWithQuote", "PendingCoverValidation",
                  "Covered", "FailedTradeLPError", "FailedCoverTransactionError"}
\* big: above the travel rule limit.
Rows == [dir : Directions, big : BOOLEAN, status : OrderStatuses, cover : CoverStatuses]
NoOrder == [dir |-> "none", status |-> "none", cover |-> "none"]
Kinds == {"execute", "cover"}
PayStates == {"pending", "paid", "canceled", "offchain"}
TradeStates == {"asked", "complete", "recorded"}
ExecutePcs == {"buy", "transfer", "failed", "executed", "send"}
CoverPcs == {"pay", "deposit", "trade", "wait", "validate", "covered"}
Jobs == [pc : ExecutePcs \cup CoverPcs, order : OrderIds, arg : Nat]
Idle == [pc |-> "idle"]
KindOf(pc) == IF pc \in ExecutePcs THEN "execute" ELSE "cover"

At(pc, o, arg) == [pc |-> pc, order |-> o, arg |-> arg]
Goto(w, pc, arg) == worker' = [worker EXCEPT ![w] = At(pc, worker[w].order, arg)]
\* The job is acknowledged.
Ends(w) == worker' = [worker EXCEPT ![w] = Idle]
SetStatus(o, s) == orders' = [orders EXCEPT ![o].status = s]
SetCover(o, s) == orders' = [orders EXCEPT ![o].cover = s]
Fault(kind) == kind \in FaultKinds /\ faults < MaxFaults /\ faults' = faults + 1

-----------------------------------------------------------------------------
(* Balances, as calc_account_balance computes them: what was sent counts   *)
(* unless it was canceled, what came counts once it is recorded.           *)

Moved(dir) ==
    MapThenSumSet(LAMBDA o : moved[o], {o \in OrderIds : orders[o].dir = dir})
Spent == MapThenSumSet(
    LAMBDA o : Cardinality({i \in DOMAIN pays[o] : pays[o][i] \in {"pending", "paid"}}), OrderIds)
Delivered == MapThenSumSet(
    LAMBDA o : Cardinality({i \in DOMAIN trades[o] : trades[o][i] = "recorded"}), OrderIds)

UserBalance == UserFunds + Moved("Buy") - Moved("Sell")
InventoryBalance ==
    InventoryFunds + Lot * bought + Delivered + Moved("Sell") - Moved("Buy") - Spent

\* validate_balance of the account that an order's transfer takes the money from.
ValidateBalance(o) ==
    1 <= IF orders[o].dir = "Buy" THEN InventoryBalance ELSE UserBalance

-----------------------------------------------------------------------------
Init ==
    /\ orders = [o \in OrderIds |-> NoOrder] /\ late = {}
    /\ jobs = [k \in Kinds |-> [o \in OrderIds |-> 0]]
    /\ worker = [w \in Workers |-> Idle]
    /\ moved = [o \in OrderIds |-> 0]
    /\ pays = [o \in OrderIds |-> <<>>] /\ trades = [o \in OrderIds |-> <<>>]
    /\ lots = 0 /\ bought = 0 /\ dropped = {}
    /\ posts = [o \in OrderIds |-> 0] /\ faults = 0

(* The web process.                                                        *)

\* create_order, with a base currency that the wallet holds: an order in fiat
\* money is stored too, and its execution fails before it changes anything.
CreateOrder(o, dir, big) ==
    /\ orders[o] = NoOrder
    /\ orders' = [orders EXCEPT ![o] = [dir |-> dir, big |-> big,
                     status |-> "PendingExecution", cover |-> "PendingCover"]]
    /\ UNCHANGED <<late, jobs, worker, moved, pays, trades, lots, bought, dropped, posts, faults>>

Posted == MapThenSumSet(LAMBDA o : posts[o], OrderIds)

\* process_order, which does not look at the order.
ProcessOrder(o) ==
    /\ orders[o] # NoOrder /\ Posted < MaxPosts
    /\ jobs' = [jobs EXCEPT !["execute"][o] = @ + 1]
    /\ posts' = [posts EXCEPT ![o] = @ + 1]
    /\ UNCHANGED <<orders, late, worker, moved, pays, trades, lots, bought, dropped, faults>>

\* Ten minutes have passed.
Expiration(o) ==
    /\ orders[o] # NoOrder /\ o \notin late
    /\ late' = late \cup {o}
    /\ UNCHANGED <<orders, jobs, worker, moved, pays, trades, lots, bought, dropped, posts, faults>>

(* The job that executes an order.                                         *)

Takes(w, kind, o) ==
    /\ worker[w] = Idle /\ jobs[kind][o] > 0
    /\ jobs' = [jobs EXCEPT ![kind][o] = @ - 1]

\* execute_order up to the first balance check.  The order's status is not
\* looked at, nor whether the payment method could be charged.
ExecuteOrder(w, o) ==
    /\ Takes(w, "execute", o)
    /\ IF o \in late
       THEN SetStatus(o, "Expired") /\ UNCHANGED worker
       ELSE /\ worker' = [worker EXCEPT ![w] =
                  At(IF orders[o].dir = "Buy" /\ ~ValidateBalance(o)
                     THEN "buy" ELSE "transfer", o, 0)]
            /\ UNCHANGED orders
    /\ UNCHANGED <<late, moved, pays, trades, lots, bought, dropped, posts, faults>>

\* buy_funds: goes on after at most ten polls, also when the trade is not complete.
BuyFunds(w) ==
    /\ worker[w].pc = "buy"
    /\ lots' = lots + 1
    /\ Goto(w, "transfer", 0)
    /\ UNCHANGED <<orders, late, jobs, moved, pays, trades, bought, dropped, posts, faults>>

\* internal_transaction: check and commit (what can happen between the two is in
\* Transactions).
Transfer(w) ==
    /\ worker[w].pc = "transfer"
    /\ LET o == worker[w].order
       IN  IF ValidateBalance(o)
           THEN moved' = [moved EXCEPT ![o] = @ + 1] /\ Goto(w, "executed", 0)
           ELSE UNCHANGED moved /\ Goto(w, "failed", 0)
    /\ UNCHANGED <<orders, late, jobs, pays, trades, lots, bought, dropped, posts, faults>>

FailedExecute(w) ==
    /\ worker[w].pc = "failed"
    /\ SetStatus(worker[w].order, "FailedExecute")
    /\ Ends(w)
    /\ UNCHANGED <<late, jobs, moved, pays, trades, lots, bought, dropped, posts, faults>>

Executed(w) ==
    /\ worker[w].pc = "executed"
    /\ SetStatus(worker[w].order, "Executed")
    /\ Goto(w, "send", 0)
    /\ UNCHANGED <<late, jobs, moved, pays, trades, lots, bought, dropped, posts, faults>>

\* async_cover_order.send
SendCover(w) ==
    /\ worker[w].pc = "send"
    /\ jobs' = [jobs EXCEPT !["cover"][worker[w].order] = @ + 1]
    /\ Ends(w)
    /\ UNCHANGED <<orders, late, moved, pays, trades, lots, bought, dropped, posts, faults>>

(* The job that covers an order.                                           *)

CoverOrder(w, o) ==
    /\ Takes(w, "cover", o)
    /\ SetCover(o, "PendingCoverWithQuote")
    /\ worker' = [worker EXCEPT ![w] =
          At(IF orders[o].dir = "Sell" THEN "pay" ELSE "trade", o, 0)]
    /\ UNCHANGED <<late, moved, pays, trades, lots, bought, dropped, posts, faults>>

\* _transfer_funds_to_lp.  A BalanceError leaves the job.  Above the travel rule
\* limit a payment command is stored and there is no transaction yet: reading its
\* status fails, which also leaves the job.
TransferFundsToLp(w) ==
    /\ worker[w].pc = "pay"
    /\ LET o == worker[w].order
           dies == InventoryBalance < 1 \/ orders[o].big
       IN  /\ pays' = IF InventoryBalance < 1 THEN pays
                      ELSE [pays EXCEPT ![o] = Append(@, IF orders[o].big THEN "offchain"
                                                         ELSE "pending")]
           /\ IF dies THEN dropped' = dropped \cup {o} /\ Ends(w)
              ELSE UNCHANGED dropped /\ Goto(w, "deposit", Len(pays[o]) + 1)
    /\ UNCHANGED <<orders, late, jobs, moved, trades, lots, bought, posts, faults>>

\* submit_onchain of such a payment, a job of its own that needs an idle worker.
SubmitOnchain(o, i) ==
    /\ i \in DOMAIN pays[o] /\ pays[o][i] = "pending"
    /\ \E w \in Workers : worker[w] = Idle
    /\ \E s \in {"paid", "canceled"} : pays' = [pays EXCEPT ![o][i] = s]
    /\ UNCHANGED <<orders, late, jobs, worker, moved, trades, lots, bought, dropped, posts, faults>>

\* Mutant: a canceled payment is taken for a completed one.
LpDepositCompleteM(w) ==
    /\ worker[w].pc = "deposit"
    /\ pays[worker[w].order][worker[w].arg] # "pending"
    /\ Goto(w, "trade", 0)
    /\ UNCHANGED <<orders, late, jobs, moved, pays, trades, lots, bought, dropped, posts, faults>>

\* _wait_for_lp_deposit_transaction_to_complete, which gives up after ten polls.
LpDepositComplete(w) ==
    /\ worker[w].pc = "deposit"
    /\ pays[worker[w].order][worker[w].arg] = "paid"
    /\ Goto(w, "trade", 0)
    /\ UNCHANGED <<orders, late, jobs, moved, pays, trades, lots, bought, dropped, posts, faults>>

\* Mutant: the payment to the provider is tried again.
LpDepositTimeoutM(w) ==
    /\ worker[w].pc = "deposit"
    /\ pays[worker[w].order][worker[w].arg] # "paid"
    /\ Len(pays[worker[w].order]) < 3
    /\ Goto(w, "pay", 0)
    /\ UNCHANGED <<orders, late, jobs, moved, pays, trades, lots, bought, dropped, posts, faults>>

LpDepositTimeout(w) ==
    /\ worker[w].pc = "deposit"
    /\ pays[worker[w].order][worker[w].arg] # "paid"
    /\ SetCover(worker[w].order, "FailedCoverTransactionError")
    /\ Ends(w)
    /\ UNCHANGED <<late, jobs, moved, pays, trades, lots, bought, dropped, posts, faults>>

\* trade_and_execute
TradeAndExecute(w) ==
    /\ worker[w].pc = "trade"
    /\ LET o == worker[w].order
       IN  /\ trades' = [trades EXCEPT ![o] = Append(@, "asked")]
           /\ Goto(w, IF orders[o].dir = "Sell" THEN "covered" ELSE "wait", Len(trades[o]) + 1)
    /\ UNCHANGED <<orders, late, jobs, moved, pays, lots, bought, dropped, posts, faults>>

\* _wait_for_trade: complete, or given up after ten polls.
TradeComplete(w) ==
    /\ worker[w].pc = "wait"
    /\ trades[worker[w].order][worker[w].arg] # "asked"
    /\ SetCover(worker[w].order, "PendingCoverValidation")
    /\ Goto(w, "validate", worker[w].arg)
    /\ UNCHANGED <<late, jobs, moved, pays, trades, lots, bought, dropped, posts, faults>>

\* Mutant: a trade that is not complete is waited for without end.
TradeTimeoutM(w) ==
    /\ worker[w].pc = "wait" /\ FALSE
    /\ UNCHANGED vars

TradeTimeout(w) ==
    /\ worker[w].pc = "wait"
    /\ trades[worker[w].order][worker[w].arg] = "asked"
    /\ SetCover(worker[w].order, "FailedTradeLPError")
    /\ Ends(w)
    /\ UNCHANGED <<late, jobs, moved, pays, trades, lots, bought, dropped, posts, faults>>

\* _validate_blockchain_transaction looks for the provider's delivery; after ten
\* polls it returns -1, which "if not" takes for a version.
ValidateTransaction(w) ==
    /\ worker[w].pc = "validate"
    /\ \E version \in {-1} \cup {i \in DOMAIN trades[worker[w].order] :
                                   i = worker[w].arg /\ trades[worker[w].order][i] = "recorded"} :
          SetCover(worker[w].order,
                   IF version = 0 THEN "FailedCoverTransactionError" ELSE "Covered")
    /\ Ends(w)
    /\ UNCHANGED <<late, jobs, moved, pays, trades, lots, bought, dropped, posts, faults>>

Covered(w) ==
    /\ worker[w].pc = "covered"
    /\ SetCover(worker[w].order, "Covered")
    /\ Ends(w)
    /\ UNCHANGED <<late, jobs, moved, pays, trades, lots, bought, dropped, posts, faults>>

(* Faults.                                                                 *)

\* Mutant: the broker forgets a job when it hands it out.
WorkerCrashM(w) ==
    /\ worker[w] # Idle /\ Fault("crash")
    /\ Ends(w)
    /\ UNCHANGED <<orders, late, jobs, moved, pays, trades, lots, bought, dropped, posts>>

\* The worker dies; the broker delivers its job again.
WorkerCrash(w) ==
    /\ worker[w] # Idle /\ Fault("crash")
    /\ jobs' = [jobs EXCEPT ![KindOf(worker[w].pc)][worker[w].order] = @ + 1]
    /\ Ends(w)
    /\ UNCHANGED <<orders, late, moved, pays, trades, lots, bought, dropped, posts>>

\* A call to the provider fails: the job's actor raises, and the broker, which
\* retries nothing, drops the job.
LpError(w) ==
    /\ worker[w].pc \in {"buy", "pay", "trade", "wait"} /\ Fault("lp")
    /\ dropped' = dropped \cup {worker[w].order}
    /\ Ends(w)
    /\ UNCHANGED <<orders, late, jobs, moved, pays, trades, lots, bought, posts>>

(* The provider.                                                           *)

ProviderCompletes(o, i) ==
    /\ i \in DOMAIN trades[o] /\ trades[o][i] = "asked" /\ orders[o].dir = "Buy"
    /\ trades' = [trades EXCEPT ![o][i] = "complete"]
    /\ UNCHANGED <<orders, late, jobs, worker, moved, pays, lots, bought, dropped, posts, faults>>

\* Its payment has reached the transaction table.
DeliveryRecorded(o, i) ==
    /\ i \in DOMAIN trades[o] /\ trades[o][i] = "complete"
    /\ trades' = [trades EXCEPT ![o][i] = "recorded"]
    /\ UNCHANGED <<orders, late, jobs, worker, moved, pays, lots, bought, dropped, posts, faults>>

LotRecorded ==
    /\ lots > 0
    /\ lots' = lots - 1 /\ bought' = bought + 1
    /\ UNCHANGED <<orders, late, jobs, worker, moved, pays, trades, dropped, posts, faults>>

-----------------------------------------------------------------------------
WorkerStep(w) ==
    \/ \E o \in OrderIds : ExecuteOrder(w, o) \/ CoverOrder(w, o)
    \/ BuyFunds(w) \/ Transfer(w) \/ FailedExecute(w) \/ Executed(w) \/ SendCover(w)
    \/ TransferFundsToLp(w) \/ LpDepositComplete(w) \/ LpDepositTimeout(w)
    \/ TradeAndExecute(w) \/ TradeComplete(w) \/ TradeTimeout(w)
    \/ ValidateTransaction(w) \/ Covered(w)

Next ==
    \/ \E o \in OrderIds :
        \/ \E dir \in Directions, big \in BOOLEAN : CreateOrder(o, dir, big)
        \/ ProcessOrder(o) \/ Expiration(o)
        \/ \E i \in DOMAIN pays[o] : SubmitOnchain(o, i)
        \/ \E i \in DOMAIN trades[o] : ProviderCompletes(o, i) \/ DeliveryRecorded(o, i)
    \/ \E w \in Workers : WorkerStep(w) \/ WorkerCrash(w) \/ LpError(w)
    \/ LotRecorded

Spec == Init /\ [][Next]_vars

\* Workers take jobs and go on with them; every wait of theirs is bounded, so
\* nothing is asked of the provider, the users or the clock.
FairSpec == Spec /\ \A w \in Workers : WF_vars(WorkerStep(w))

-----------------------------------------------------------------------------
(* Properties.                                                             *)

TypeOK ==
    /\ orders \in [OrderIds -> Rows \cup {NoOrder}] /\ late \subseteq OrderIds
    /\ jobs \in [Kinds -> [OrderIds -> Nat]]
    /\ worker \in [Workers -> Jobs \cup {Idle}]
    /\ moved \in [OrderIds -> Nat]
    /\ pays \in [OrderIds -> Seq(PayStates)] /\ trades \in [OrderIds -> Seq(TradeStates)]
    /\ lots \in Nat /\ bought \in Nat /\ dropped \subseteq OrderIds
    /\ posts \in [OrderIds -> Nat] /\ faults \in Nat

\* What an order shows is backed by money: it is executed, and anything happens about
\* its cover, only after money moved between the user and the inventory; it is
\* covered only by a trade that the provider has made or, when the user sold, that
\* the wallet has paid for on the chain.
ExecutedIsBooked ==
    \A o \in OrderIds :
        /\ orders[o].status = "Executed" => moved[o] > 0
        /\ orders[o].cover \notin {"none", "PendingCover"} => moved[o] > 0
        /\ (pays[o] # <<>> \/ trades[o] # <<>>) => moved[o] > 0
CoveredIsTraded ==
    \A o \in OrderIds :
        orders[o].cover = "Covered" =>
            IF orders[o].dir = "Buy" THEN \E i \in DOMAIN trades[o] : trades[o][i] # "asked"
            ELSE trades[o] # <<>> /\ \E i \in DOMAIN pays[o] : pays[o][i] = "paid"
StatusIsBacked == ExecutedIsBooked /\ CoveredIsTraded

\* Money moves once for each request to execute the order, and once more for each
\* worker that died; the same holds for the payments to the provider and the
\* trades with it, compared to the transfers they cover.  Nothing makes the jobs
\* idempotent.
RepeatedAtMost ==
    \A o \in OrderIds :
        /\ moved[o] <= posts[o] + faults
        /\ Len(pays[o]) <= moved[o] + faults
        /\ Len(trades[o]) <= moved[o] + faults

\* An executed order is covered or its cover fails, although the worker that covers
\* it waits for another worker to submit its payment; unless a job of it was dropped,
\* as is the one of every sale above the travel rule limit, or its execution was
\* repeated and failed or found it expired: a worker that dies before it sent the
\* cover job leaves a transfer that is never covered that way.
CoverEnds ==
    \A o \in OrderIds :
        orders[o].status = "Executed" ~>
            \/ orders[o].cover \in {"Covered", "FailedTradeLPError", "FailedCoverTransactionError"}
            \/ o \in dropped \/ orders[o].status \in {"FailedExecute", "Expired"}

-----------------------------------------------------------------------------
(* The inductive invariant behind StatusIsBacked.                          *)

\* What a worker's position says about the order.
Position(w) ==
    worker[w] # Idle =>
        LET o == worker[w].order
            pc == worker[w].pc
            i == worker[w].arg
        IN  /\ orders[o] # NoOrder
            /\ pc \in CoverPcs \cup {"executed", "send"} => moved[o] > 0
            /\ pc \in {"pay", "deposit", "covered"} => orders[o].dir = "Sell"
            /\ pc \in {"wait", "validate"} => orders[o].dir = "Buy" /\ i \in DOMAIN trades[o]
            /\ pc = "validate" => trades[o][i] # "asked"
            /\ pc = "deposit" => i \in DOMAIN pays[o]
            /\ (pc = "covered" \/ (pc = "trade" /\ orders[o].dir = "Sell")) =>
                  \E j \in DOMAIN pays[o] : pays[o][j] = "paid"
            /\ pc = "covered" => trades[o] # <<>>

JobsInv ==
    \A o \in OrderIds :
        /\ jobs["execute"][o] > 0 => orders[o] # NoOrder
        /\ jobs["cover"][o] > 0 => orders[o] # NoOrder /\ moved[o] > 0
        /\ orders[o] = NoOrder => moved[o] = 0 /\ pays[o] = <<>> /\ trades[o] = <<>>

IInv == TypeOK /\ JobsInv /\ (\A w \in Workers : Position(w)) /\ StatusIsBacked

-----------------------------------------------------------------------------
(* The inductive invariant behind RepeatedAtMost: every request, transfer  *)
(* and fault accounts for at most one job that is queued or held, or for   *)
(* what that job has already done.                                         *)

\* The workers whose job for order o stands at one of pcs.
Held(o, pcs) == {w \in Workers : worker[w].pc \in pcs /\ worker[w].order = o}
Busy == {w \in Workers : worker[w] # Idle}

ToMove == {"buy", "transfer"}
ToPay == {"executed", "send", "pay"}
ToTrade == ToPay \cup {"deposit", "trade"}

CountInv ==
    /\ IsFiniteSet(Busy)
    /\ \A o \in OrderIds :
          /\ moved[o] + jobs["execute"][o] + Cardinality(Held(o, ToMove)) <= posts[o] + faults
          /\ Len(pays[o]) + jobs["cover"][o] + Cardinality(Held(o, ToPay)) <= moved[o] + faults
          /\ Len(trades[o]) + jobs["cover"][o] + Cardinality(Held(o, ToTrade)) <= moved[o] + faults

RepeatInv == IInv /\ CountInv
=============================================================================
