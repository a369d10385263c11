# Verification of the reference wallet

TLA+ specifications of the Diem reference wallet: its backend (`src/backend`),
its web application (`src/frontend`) and its mobile app (`src/mobile`), the TLC
configurations that check them on small instances, and TLAPS proofs of what holds
on every instance. Source paths below are relative to `src/backend`, or, for the
clients, to `src/frontend/src` (web) and `src/mobile/src` (mobile).

## The system

The wallet is a custodial wallet (a VASP): users hold balances in the wallet's
database, the wallet holds one account on the Diem chain. Three kinds of
processes share one PostgreSQL database:

* **web** (`webapp/`): Flask, threaded. Serves the users, the administrators
  and the inbound off-chain commands of other VASPs (`/v2/command`). It also
  runs two loops in threads of its own: the *off-chain tasks*
  (`webapp/__init__.py:76-86`, every half second) and the rates refresh, and it
  synchronises the database with the chain when it starts.
* **worker** (`wallet/background_tasks/`): dramatiq, two processes of two
  threads. Delivery is at least once; `process_incoming_txn` retries by itself.
* **pubsub** (`pubsub/`): reads the events of the wallet's chain account, hands
  each one to the worker, then saves how far it came in a file.

Two clients call the web process. Each is single-threaded, but every call it makes
suspends it, and what happens between a call and its answer is up to the user and
to other calls:

* the **web application** (`frontend/`): pages, dialogs that are shown and hidden
  without being unmounted, a token in the browser's storage, a loop that reads the
  user every five seconds and writes what it read over the settings of the whole
  application;
* the **mobile app** (`mobile/`): a stack of screens, each with its own loop and its
  own copy of the user.

Outside: the chain (JSON-RPC), the custody service that signs, other VASPs, the
liquidity provider, merchants.

| component | state | operations | what is hard |
|---|---|---|---|
| off-chain payment state machine (`offchain/payment_state.py`, `state.py`, `payment_command.py`) | the payment object | build, match a state, validate a command against the stored one | tables that must fit together; write-once fields |
| travel rule payments (`wallet/services/offchain/offchain.py`, `p2p_payment*.py`, `wallet/storage/p2p_payment.py`) | `paymentcommand` rows at both VASPs | create, approve, reject, off-chain task loop, inbound command, incoming transfer | two VASPs, each calling the other with its own row locked; late and repeated requests; a submission that times out and is executed; restarts between transfer and commit |
| transactions (`wallet/services/transaction.py`, `wallet/storage/transaction.py`) | `transaction` rows, balances computed from them | internal and external transfer, `submit_onchain`, incoming transfer, refund | balance checked and then used; duplicate delivery; an on-chain transfer that succeeds after an error was reported |
| event delivery (`pubsub/client.py`, `background_tasks/background.py`) | progress file, broker queue | sync, send, save progress, retry | crash between send and save |
| chain synchronisation (`wallet/services/system.py`) | `transaction` rows | `sync_db` | runs while the worker writes |
| funds pull pre-approvals (`wallet/services/offchain/fund_pull_pre_approval*.py`) | `fundspullpreapprovalcommands` rows at both VASPs | create, approve, reject, close, inbound command, send loop | roles computed from what is stored and what arrives; stale status written after sending |
| merchant payments (`wallet/services/offchain/p2m_payment*.py`) | `payment` rows | get info, approve, reject, init charge, authorize, abort | repeated approval, funds locked twice, boundary amounts |
| orders and inventory (`wallet/services/order.py`, `inventory.py`) | `order` rows, the inventory account | create, process, execute, expire, cover | duplicate execution, expiry against payment, cover that fails half way |
| users, tokens, KYC (`wallet/services/user.py`, `kyc.py`) | `user`, `token` rows | register, log in, reset the password, block, verify | token life time; checks and writes in separate transactions |
| rates (`wallet/services/fx`), amounts (`diem_utils/precise_amount.py`) | none kept | conversion | rounding |
| the clients' sessions (web `App.tsx`, `services/`, `pages/Verify.tsx`; mobile `contexts/`, `screens/`) | the token, copies of the user, loops, the five steps of an identity | start, sign up, in and out, read, save, leave | reads and saves answered under the next session; loops that outlive their screen |
| transfers in the clients (web `components/Transfer/`, mobile `screens/Transfer/`) | form, quote, review, phase | submit, edit, confirm, leave | a quote that comes after the form changed; a retry of what was done |
| sending in the clients (web `components/Send/`, mobile `screens/Send/`) | form, review, link | submit, scan, review, send | a dialog closed during a call; a deep link applied again |
| decisions in the web application (`components/FundsPullPreApproval/`, `PaymentConfirmation*.tsx`) | list, dialogs, payment details | approve, reject, revoke, pay | dialogs about something that changed since |
| lists of transactions (`pages/Transactions.tsx`, `screens/Transactions.tsx`) | filters, list, loop | choose, read, leave | answers of earlier choices |
| administration (`pages/admin/`, `components/UsersList.tsx`) | two lists, a question, a form | block, create | lists read before another change |
| forgotten passwords (`pages/*Password.tsx`, `screens/*Password*.tsx`, `webapp/routes/user.py`) | the token and its expiry, the screens | ask, choose, submit | a token replaced, expired or used twice |
| deployment, validator, gateway | none | | not modelled |

Every balance is computed from the `transaction` table, so that table is where
the components of the backend meet: the web threads reserve in it, the workers book
in it, the off-chain loop books in it, `sync_db` repairs it. What the clients share
with each other and with the backend is calls; none of them repeats a call by
itself, so a repetition is always a user who presses a button again.

What makes each part correct:

* **state machine**: an object never fits two states; nothing is ready that the
  recipient did not sign; every exchange comes to rest, if only in a soft match, which
  this wallet does not answer.
* **travel rule payments**: no transfer before the recipient's VASP signed, no
  ledger entry without a transfer, one entry per VASP; a payment that was handed
  to the exchange is booked by both.
* **transactions**: every change of an account's balance is the credit of a
  deposit, the reservation or release of a withdrawal or an internal transfer,
  each at most once; the books agree with the chain account; an overdraft is
  bounded; nothing waits for ever.
* **event delivery**: no event is skipped.
* **pre-approvals**: the payee may pull only after the payer's user approved; what
  is rejected or closed stays so; both VASPs end with the same status; an answer
  does not wait for ever.
* **orders**: an order moves money once for each request; executed means that money
  moved, covered that the provider delivered; an execution and its cover end.
* **whatever a user confirms** (transfers, payments, approvals, payment links,
  blocking, new administrators, new passwords): it is carried out as it was on
  display, once for every time that the user pressed; success is displayed only
  for what was carried out; nobody waits for ever, and nobody is led to confirm
  again what did not fail.
* **sessions**: a client displays the data of the user whose token it has; only
  signing in or out changes a token that is good; it comes to mirror the backend.

## Modules

| module | models | extends or uses |
|---|---|---|
| `PaymentState` | payment object, states, transitions, follow-ups, command validation | |
| `PaymentExchange` | two VASPs that drive one payment object through it, writing anything validation accepts | `PaymentState` |
| `Settlement` | abstract: what a travel rule payment promises about money | |
| `P2PPayment` | the flow between two instances of this wallet, with threads, requests, restarts, chain and worker | `PaymentState`, refines `Settlement` |
| `Custody` | abstract: what may happen to the customers' balances, deposits and withdrawals | |
| `Transactions` | transaction table, web threads, broker, workers, chain account | refines `Custody` |
| `Feed` | abstract: what the worker may rely on about events | |
| `PubSub` | the client that reads the chain's event streams, with its progress file | refines `Feed` |
| `Orders` | orders to buy and sell, the jobs that execute and cover them, the provider | |
| `PreApproval` | funds pull pre-approvals at two VASPs or within one: users, task loops, inbound commands | |
| `Consent` | abstract: what the dialogs of the clients promise | |
| `ClientCalls` | the calls of a screen, their answers and failures, and leaving the screen | |
| `Amounts` | what a form makes of an amount that was typed | |
| `Quotes` | the backend's quotes and their execution | `Amounts`, `ClientCalls` |
| `WebTransfer`, `MobileTransfer` | deposits, withdrawals and conversions in either client | `Quotes` |
| `Transfers` | a user who transfers with one of the clients | both, refines `Consent` |
| `Addresses` | addresses with and without amounts, and what a form takes from them | `Amounts`, `ClientCalls` |
| `WebSend`, `MobileSend` | sending coins in either client | `Addresses` |
| `Sends` | a user who sends with one of the clients | both, refines `Consent` |
| `ApprovalDialogs` | the web application's list of pre-approvals and its dialogs | `ClientCalls` |
| `PaymentLink` | the web application opened by a merchant's link, with the backend's payer side | `ClientCalls` |
| `AdminPages` | lists of users and administrators, blocking, new administrators | `ClientCalls` |
| `PasswordReset` | a forgotten password in either client, with the backend's token | `ClientCalls` |
| `Decisions` | those who use one of these four | all four, refines `Consent` |
| `Users` | the backend's users, tokens and their expiry; the calls that change them | |
| `WebSession`, `MobileSession` | start, sessions, identities and preferences in either client | `Users` |
| `Listings` | the lists of transactions in either client, and their loops | |
| `Sessions` | one client and those who use it one after the other, or who look at lists | the three above |
| `MCPaymentExchange`, `MCTransactions`, `MCTransfers`, `MCSends`, `MCSessions`, `MCDecisions` | instances for TLC: values of constants, symmetry of threads and workers, of pre-approvals and members; the other specifications are run as they are | the module of that name |
| `ClientProofs` | lemmas about `ClientCalls` | `ClientCalls`, TLAPS |
| `LedgerProofs` | the ledger and its events: invariants, sums, refinements | `Transactions`, `PubSub`, TLAPS |
| `UsersProofs` | sessions and decisions | `Sessions`, `Decisions`, `ClientProofs`, TLAPS |
| `P2PPaymentProofs` | travel rule payments and exchanges | `P2PPayment`, `PaymentExchange`, TLAPS |
| `OrdersProofs`, `PreApprovalProofs`, `TransfersProofs`, `SendsProofs` | inductive invariants and refinements | the module of that name, TLAPS |

The definitions keep the code's names where they can; `PROJECT.json` maps each
to its lines. A definition that ends in `M` is a plausible mistake in the code
(a *mutant*), used to show that a property can fail; nothing else refers to it.

### P2PPayment

Both sides run this code. The sender's row `sdb[r]` and the receiver's `rdb[r]`
are the `paymentcommand` rows; `stask` and `rtask` are the two task threads, each
between the statements that call out (`pc`); `net` holds the commands under way,
`live` while somebody waits for the answer. A row is locked while a task thread
handles it (`lock_for_update` with `NOWAIT`), and an inbound command that needs
it is refused. `web` is a user's approval or rejection between its read and its
write. `pool`, `seqno` and `paid` are the chain, `wrk` the workers that book an
incoming transfer, `debits` and `credits` the entries of the two ledgers.

### Transactions

`txs` is the table, a row's id its position. A web thread is between its balance
check and the commit (`write`), or between the commit and the sending of the job
(`enqueue`). A worker holds a job and stands before its next commit (`book`,
`refund_write`, ...); what it read before is in its record, so what happens in
between is not seen. `jobs` is the broker's queue: taking a job does not forget
it, a worker that dies gives it back. `chain` is the history of the wallet's
account. Its rules (sequence numbers, failure for want of funds) are external.

The broker is set up with the `Results` middleware only (`wallet/config.py:43-57`),
so a job whose actor raises is dropped: that is the end of `process_incoming_txn`
after its own four attempts.

### PubSub

One round reads every stream once, from the position `state[k]`, and hands the
events to the broker one by one; `after` collects the new positions, which are
saved and become the next round's. `save_state` opens the file for writing, which
empties it, and writes it: a stop in between leaves a file that `fetch_state`
reads as empty, and the streams are handed over again from their beginning.

### Orders

`orders[o]` is the row with its two statuses. A worker at work is in `worker[w]`,
with its place (`pc`) between the statements that commit something or wait; `jobs`
is the broker's queue of the two jobs. `moved[o]` counts the internal transfers
made for the order, `pays[o]` the payments from the inventory to the provider,
`trades[o]` the provider's trades: together they are the part of the transaction
table that is about the order, and balances are computed from them. The provider
completes and delivers trades whenever it likes, or never.

The worker looks at an order's row only to find whether it has expired
(`order.py:139`), never at its status. A poll that gives up after ten tries is a
step that is possible while what it waits for has not happened. A conversion from
one Diem currency to another is left out: there is only one (`DiemCurrency`), and a
quote from a currency to itself is refused.

### PreApproval

`rows[<<f, role>>]` is the row that the payee's or the payer's VASP has about
pre-approval `f`; `local` are the pre-approvals whose two users have the same VASP,
which then has both rows and sends its commands to itself. `sent` is the nullable
column `offchain_sent`: a row that an inbound command inserts gets the default
(not sent), one that it updates gets NULL, since `update` (`models.py:241`) copies
the attributes of a row that was never stored. `ForPayer` and `ForPayee` are the
table of explicit states of `build_role_reducer`; every other state refuses the
command, by one of its error states or by missing from the table.

A user's change (`web`), an inbound command (`handlers`) and the task loop (`task`)
each read rows, decide, and write later, with no lock. `update_command` writes only
the columns that changed, so a write may undo half of what happened in between;
`raced` remembers the pre-approvals that met this. `net` holds the commands under
way, `live` while the sender's loop waits for the answer: the loop handles one row
at a time and its first failure ends the round.

### ClientCalls and Consent

A client's call is a record in `posts`: sent, or answered and not yet heard. `Serve`
carries it out and answers, truly or by an error, since the answer may be lost;
`Refuse` answers without carrying it out. A screen that is left does not hear
(`Leave`): in the mobile app a state of an unmounted screen, in the web application
a promise of one. Where a dialog of the web application is hidden and keeps its
state, its calls stay heard, and what it hears counts for what it displays next.
`presses` and `executed` are histories: how often a button was pressed for each
order, and which of those presses the backend carried out. `Consent` is written in
these terms only, so that transfers, payments and decisions refine one abstract
specification although their orders differ (a quote with its payment method, a
form, a decision about something).

### Transfers and Sends

`forms` is the sequence of submissions, so that a quote, a review and a call can be
about an earlier one; `screen` is the phase machine of the page on display. The
reducers of `Deposit.tsx` and its siblings become actions with a guard for their
phases, and `isOutdated`, set by the clean-up of an effect, the guard of a quote's
arrival (`Outdated`). The mobile screens have no reducer: a review is a screen of
its own, and its button is disabled by `submitStatus`. An amount that is typed is
converted by the two steps of the code (`Amounts`); two amounts stand for all.
`left` remembers that a dialog of the web application was closed while something
was under way.

### Decisions

`about` fixes who decides: nothing is shared between pre-approvals, a payment link,
members and passwords but the calls, so they are explored side by side.

`ApprovalDialogs` has the backend's `status` of each pre-approval, changed by the
biller and by calls. Both kinds of change read the row, check its status and write it
later without a lock (`update_status`, `handle_fund_pull_pre_approval_command`):
`deciding` holds what was found acceptable and is not written yet, `raced` the
pre-approvals that were written over a status which the writer had not read. It also
has the list that the page read last, and three dialogs whose
state outlives them. `PaymentLink` has the query's parameters (which the page
parses), the details that the backend obtains from the merchant, the two forms and
their spinner, and the backend's row with what it has locked; a
call that is answered and changes nothing is `NothingDone`. `AdminPages` has the
`roles` and blocked users, the two lists as they were read, the question before
blocking and the form for a new administrator. `PasswordReset` has the backend's
one token with its expiry, the requests that create it and remove it, and the stack
of screens that were opened by tokens, one above the other in the mobile app.

### Sessions

`users` holds what the backend knows: tokens with their users, who is verified, which
preferences are saved. `ops` are the calls of the client, with the token that they
were sent with: `BackendClient` reads it when the call is made, so an answer may
come when another token is stored. The web application's `settings` are written by
several of them; in the mobile app each entry of the `stack` has its copy and its
loop, and `leaked` is the loop of a screen that was left while its read was under
way (its clean-up clears a timer that is not set yet). `Users` models saving
preferences and submitting an identity as the backend does them: as a whole, or not
at all.

`Listings` is about the loops behind a list of transactions (`loops`, with the
filters that each was started for), `chosen` and `listed`. A failed read ends its
loop for good: `Unread` says that the last one begun has ended. Lists and sessions
are explored side by side (`part`): the former rely on nothing but the token.

## Runs

Every run fixes the constants in its `.cfg`. Bounds are constants: `MaxWeb`,
`MaxFaults`, `MaxSubmit` (P2P), `MaxSends`, `MaxDeposits`, `MaxFaults`, `Tries`
(transactions), `MaxEvents`, `MaxFaults` (PubSub), `MaxPosts`, `MaxFaults`
(orders), `MaxWeb`, `MaxFaults` (pre-approvals), `MaxForms`, `MaxPresses`
(transfers, sends), `MaxPresses`, `MaxDecisions`, `MaxAdminPresses`, `MaxTokens`,
`MaxResets` (decisions), `MaxSessions`, `MaxOps`, `MaxFailures`, `MaxLoops`,
`MaxEntries`, `MaxLost` (sessions). `FaultKinds` and `CrashAt` say which faults a
run contains.

| run | question | instance and why it is enough |
|---|---|---|
| `exchange` | do the tables of the state machine fit together, and does an exchange come to rest? | one payment, all values that validation tells apart; complete |
| `p2p_safety` | do signatures and ledgers stay right, is `Settlement` implemented, whatever fails? | one payment (two do not share anything that is checked here), two user requests, three faults of every kind: a lost request, its repetition and a lost repetition fit |
| `p2p_live` | is a payment transferred once, when the receiver will book it, and booked by both even when a submission times out? | two payments, because the loops lock one row and call about another; one submission that times out |
| `tx_ledger` | does every balance change have a reason, is each deposit recorded once, do the books agree with the chain? | two transfers and two deposits of two amounts, one on each side of the travel rule limit; two workers that die at any place of an incoming transfer, and a web restart |
| `tx_live` | how far can an account be overdrawn, and does everything settle? | three transfers, two web threads; a deposit, one fault: repeated event, timeout, dead worker |
| `pubsub` | is every event handed over, whatever stops? | two streams, so that one can fail while the other goes on; two faults: the second one hits the recovery from the first |
| `orders` | what does an order's status promise, how often does money move, does covering end? | one order asked for twice, two workers: one can wait for the other; two faults |
| `preapproval` | may the payee pull only when the payer agreed, do the two rows agree in the end, does an answer arrive? | one pre-approval (rows of different ones meet only in the loop, where a blocked row ends the round), between two VASPs or within one; two changes by users, the second may cross the first; two faults, so that a command can come late and its repetition be lost |
| `transfers` | is what is executed what was on display, once, and is what the screen says about it true? | three submissions, so that two answers can be late; two presses; both clients, all three kinds |
| `sends` | the same, and is nobody led to pay twice? | two forms, two presses: a dialog that was closed meets the next payment |
| `decisions` | the same for approvals, payment links, blocking, new administrators and passwords | two pre-approvals, so that a dialog can be about another one than before, two presses, which may overlap at the backend with each other and with the biller; two users, two presses; two tokens, so that one is replaced, and two submissions, which may cross |
| `sessions` | whose data is displayed, who may drop the token, does a client come to mirror the backend, do lists? | two people, one of whom may be the demo user, two sessions, two calls and one failure: a call of the first session can end in the second; three loops of lists, one entry, one failed read |

`CHECK_DEADLOCK FALSE` appears where the system stops because the bounds on
users and faults are used up and there is nothing left to do.

### Fairness

* In an exchange (`PaymentExchange`) only the first command and the evaluation of KYC
  data are fair: these the loop makes of its own accord. For the follow-ups of a soft
  match `offchain_action` raises `ValueError` (`offchain.py:119-121`), and nobody has
  to abort, so neither is fair.
* The off-chain loop runs every half second for ever (`webapp/__init__.py:76-86`)
  and catches every exception of a row (`p2p_payment.py:110-113`), so each task
  thread goes on. Inbound requests are served by threads of their own.
* A worker thread takes the next job when it is idle; a job that was not
  acknowledged is delivered again. The model is fair to each worker's next step,
  not to each job: jobs are few enough for a worker to reach all of them.
* The chain executes the transaction whose sequence number is next.
* PubSub is restarted by its container and its loop goes on.
* The polls of a worker that covers an order are bounded, so its next step is fair
  although nothing is asked of the provider.
* An inbound pre-approval command is served while its sender waits for the answer,
  and a user's change is written; one that nobody waits for may stay for ever.
* A client's call is answered in the end, if only by an error of the network, and a
  client that hears an answer reacts to it (`transfers`, `sends`). Its timers go off,
  and the reads of its loops are answered in the end (`sessions`); other calls may
  stay without an answer there.
* Nothing is fair to users, faults, crashes or timeouts.

## What does not hold, and the runs therefore exclude

These are consequences of the code that the models show when a constant of a run
is changed; each property names the condition it needs.

* A payment is transferred again after a submission timeout, and after a crash between
  the transfer and the commit of `COMPLETED`: the row is still `READY` and is submitted
  again. `PaidOnce` allows one more transfer for each fault until the transfer is
  booked. When a crash comes after the ledger entry was made, the repetition pays and
  then fails on the entry's unique `reference_id` (`models.py:110`), so every later
  round pays again: after the entry `PaidOnce` is about runs without crashes. Requests
  of the sender's user, whenever they come, add nothing.
* A second submission sends `ready_for_settlement` again, which puts the receiver's
  row back to `READY`: both book (`BothBook`), but the row need not be completed.
* With request timeouts the two loops may refuse each other for ever (a receiver
  refuses a `needs_kyc_data` command that it has had), and with a crash, a timeout or a user's rejection one side may book and the other not:
  `BothBook` is checked with submission timeouts only.
* A soft match is never answered: `offchain_action` raises for `REVIEW_KYC_DATA` and
  `CLEAR_SOFT_MATCH`, the loop catches it and comes back to the same row in every
  round. `EndsOrSoftMatch` therefore names the four states of a soft match beside the
  ends of an exchange.
* A user who rejects while the loop handles the row may overwrite its status.
* `needs_kyc_data` may still stand in the sender's half of a payment that is
  `READY` at the receiver, whatever the comment on the statuses (`types.py:27`) says.
* A withdrawal is paid twice when its worker dies between the submission and the
  commit, and is paid although canceled when the wait times out: `tx_ledger`
  leaves these two faults out, `tx_live` contains them.
* Two workers that hold the same event at once record it twice: there is no unique
  key. In `tx_ledger` an event is delivered again when its worker died or failed, so
  that no two workers hold it; the theorem about `RecordedOnce` asks for this
  (`Alone`: no event is sent again, or there is one worker).
* A refund that is processed before the version of its withdrawal is committed is
  lost: the branch for unknown transactions names `TransactionStatus.FAILED`, which
  does not exist (`transaction.py:357`), the job fails four times and is dropped.
  `Books` is about deposits, and `Unbooked` in `Reconciled` accounts for the money.
* A web process that stops between the commit of a pending row and the sending of
  its job leaves the row pending for ever; so does a worker at the same place of a
  refund. `tx_live` leaves both out.
* A refund that fails (no sender's subaddress, balance of the inventory account) or
  whose worker dies after the deposit was recorded is never sent; the money stays
  with the wallet, as `parked` in `Custody` and `Parked` in `Reconciled`.
* A deposit to an unknown subaddress is recorded for the inventory account with
  `NEED_REFUND`, which balances do not count, and its refund is debited there: each
  refund lowers the inventory's balance by its amount, although the comment
  (`transaction.py:227`) calls it a regular transaction of that account. No property
  is about it: `Parked` in `Reconciled` accounts for the difference.
* An order that is asked for twice, or whose job is delivered again, moves the money
  again: `RepeatedAtMost` says how often. The repetition may find the order expired
  or the balance gone and overwrites `Executed`.
* A purchase whose delivery is not found on the chain, or does not fit, becomes
  `Covered`: `_validate_blockchain_transaction` reports failure by -1, which
  `_cover_buy` tests with `if not` (`inventory.py:143`). `StatusIsBacked` therefore asks
  for a covered purchase that its trade is complete, not that it was delivered.
* A worker that dies between the transfer and the sending of the cover job leaves a
  transfer that is never covered if the order has expired when the job comes back.
* A sale above the travel rule limit is never covered: the payment to the provider
  is a payment command and `send_transaction` returns no transaction's id, so the
  job fails and is dropped (`inventory.py:195`, which has a comment about it). The
  same happens to any order when a call to the provider fails.
* `update_status` does not ask whose row it changes (`fund_pull_pre_approval.py:139`):
  a payee's user may approve its own request, and where both users have one VASP the
  change goes to whichever row is found first. `ValidWasApproved` is about payees
  that do not approve (`PayeeOps`); within one VASP it still holds.
* A change to a pre-approval that falls between another write's read and its commit
  may be lost, marked as sent without being sent, or bring a closed row back:
  `Agreed`, `FinalStays` and `AnswerArrives` except the pre-approvals in `raced`.
  For the same reason two presses of one button, or an approval and a rejection, are
  both carried out when both are checked before either is written: `DecidedOnce`
  excepts the pre-approvals in `raced` of `ApprovalDialogs`.
* A row that the other VASP refuses is sent again in every round, and the rows
  after it wait: the payer's row that a request inserted says `pending` back to the
  payee and is refused until the payer's user answers; so are a rejection that
  crossed a close, a close of a request that never arrived, and anything about an
  expired pre-approval. `AnswerArrives` is about a row without such a row before it.

In the clients:

* `SuccessIsReal` excludes dialogs that were closed while something was under way
  (`left`, `slipped`): the answer to the earlier order then counts for the one on
  display. A double click in a pre-approval's dialog, and a failed refresh after a
  payment (`SendModal.tsx:67`), display a failure of what succeeded.
* The web application never sends `init_offchain_required`, so approving a payment
  of action "charge" does nothing at the backend. Approving displays nothing, so it
  may be pressed twice, which locks funds twice, and together with a rejection leaves
  funds locked. A rejection that the merchant answers without success changes nothing
  and is answered as if it had (`p2m_payment.py:182-184`). After any rejection the
  dialog says "Payment Approved!" (`PaymentConfirmationModal.tsx:72`,
  `locales/en/payment.json:4-5`), so `SuccessIsReal` leaves this dialog out. Of the
  payment it says only that a row is rejected when its merchant was told; what is
  pressed in the dialog is the matter of `ImplementsConsent`. A failed rejection is not
  reported, and failed details leave the spinner.
* An execution that fails leaves the web application's transfer in phase
  "executing", with its message, until the dialog is closed (`Stuck` in `Responds`);
  errors about outdated quotes are displayed as if they were about the current one.
* The mobile app applies a deep link at every rendering, over what was typed.
  Its conversion may be from a currency to itself.
* A read or a save that is answered after another user signed in displays the
  earlier user's data until the next read (`late` in `DisplayedIsOwn`), and a read
  made with an earlier token that is refused drops the new one (`TokenKept`), as do
  a second answer to Sign out and a late answer to a sign-in form that was left.
  The answer that names the chain resets the settings to nobody's, and a save puts
  back the settings that were displayed when it was made. Signing out of the mobile
  app does not tell the backend.
* In the mobile app a loop survives its screen when its read was under way then;
  when it is refused it removes the token although there is no screen to change.
  The loop of Home may end there, which `Mirrors` excludes.
* Saving preferences before an identity is submitted fails at the backend.
* A list of the web application shows the answer for earlier filters until the next
  read. In the mobile app, filters chosen while a read is under way leave the old
  loop running, and the list changes between the two for ever: `Heals` asks for
  "again and again" there, for "in the end" in the web application. In both, a read
  that fails ends the list's loop.
* The two clients label sorting by date the wrong way round
  (`dropdown-options.ts:58-59`). No property is about it.
* Administrators: the lists may be stale until the page is opened again, since the
  reads after two blocks may be answered in either order; a late answer to a form
  that was closed closes or fails the next one; a creation whose list cannot be read
  then is displayed as failed, and its repetition finds the name taken; of two
  creations with one name the second is answered by 200 although nothing was
  created (`add_user` returns -1). A token that somebody gets between the deletion
  of the tokens and the commit of the block stays usable (`user.py:221`).
* A token for a new password is checked, and removed after the password was hashed:
  submitted twice at once it sets both passwords (`overlaps` in `DecidedOnce`), and
  the removal takes a newer token with it. The mobile form can be submitted again
  after it succeeded.

## Proofs

Eight modules hold proofs. For every specification with safety properties they prove
`Spec => []Inv` for an inductive invariant, which is stated at the end of the
specification's module, for all values of the constants, from the named assumption on
them that TLC evaluates in the runs. From the invariant they derive the theorems that
`PROJECT.json` lists. An invariant has one named part for each relation that the safety
properties rely on and do not imply; where it grew in steps, the later part is proved on
top of the earlier one, as `Inv1 /\ [Next]_vars` that keeps `Inv2`. Each was checked by
TLC on the instances of the runs before it was proved.

Every safety property and every refinement that a run checks is proved in one of them.
`FinalStays` and `TokenKept`, which are about steps, follow from the invariant in the
state before the step.

### P2PPaymentProofs

For any payments, requests, faults and submissions.

* `IInv`. `RowsInv`: whatever names a payment, its row exists. `SignedInv`: a signature
  is found only where the recipient's VASP made one. `RequestInv`: the only request that
  anybody waits for is the sender's task thread's; without it a late answer could be
  taken for the current one. `PaidInv`: whoever is about to book knows of a transfer.
  `BookedInv`: at most one entry each. `ReadyIsAgreed` and `CompletedIsBooked` follow, and
  the refinement of `Settlement` (`Implements`): each step is a step of `Settlement` or
  leaves its variables alone.
* `PaymentInvariant` adds what money needs. `OnceInv` counts, for each payment, the
  transfers made, a transaction that nobody waits for and that may still be executed
  (`Stray`), and the attempt that goes on until a transfer is made (`Open`): together
  they are at most one more than the faults. A submission closes the attempt only when
  it was executed, so a step that pays takes one from the other two terms. `StandingInv`
  says where the rows stand while that happens, and that the receiver's part of a
  payment that it is ready for never changes. `PaidOnce` follows. `ExpectInv`: once the
  receiver's VASP accepted `ready_for_settlement` its row is `READY` or `COMPLETED` for as
  long as anything is under way, if the sender's user does not abort (`WebStatuses`);
  `PayeeExpectsTransfer` follows.
* `ExchangeInvariant` is about `PaymentExchange`: the object always has a state, and from
  the receiver's acceptance on its KYC data and signature are there, since they are
  written once and stay. `ReadyIsSigned` follows. `NeverAmbiguous` is proved from the table
  of states: of two explicit states that match one object, each pair differs in a field
  that the object has one value of.

### LedgerProofs

The chain's events (`PubSub`) and the ledger (`Transactions`), for any streams, accounts,
amounts, threads, workers and faults.

* `PubSubInv`: what is handed over is a beginning of every stream and no position, in
  memory or in the file, is beyond it, so a restart skips nothing (`SavedHanded`) and the
  client implements `Feed`.
* `IInv` of `Transactions`: what a worker is about to book must not be recorded, which
  depends on nobody else's holding the event (`HoldersInv`) and on where each worker
  stands (`WorkerInv`); a job that was not sent yet exists nowhere (`UnsentInv`).
  `RecordedOnce` follows under `Alone`.
* `Overdraft`. `OverdraftBounded` is not inductive: a balance that is checked says nothing
  about the other threads that have checked it and not yet committed. `OverdraftInv` takes
  from each account what they are about to spend (`Writing`). A balance check adds one
  thread to `Writing`, an amount that the account has, so that at most the other threads
  count against it; a commit moves an amount from one side of the inequality to the
  other. A sum over `Writing` is at most the largest amount for each thread in it.
* `BooksBalance` and `LedgerIsCustody` rest on `BooksInv`: a pending row takes money out;
  a row's version is that of the payment for it or of the transfer it records; a payment
  is for a row that says so, or whose worker waits to hear of it; and a transaction that
  can still be executed is waited for by its worker, which holds its row's one job, and
  is for a row that was not paid. They ask for `Heard`: what `RecordedOnce` needs, and
  that no worker dies or times out while it waits. Otherwise both are false (see above):
  the row is canceled, or its job submitted again, and the first transaction still
  executed. `tx_ledger` has exactly these faults left out.
* `Reconciled` is then an equation between sums, and each action adds the same to both
  sides. `LedgerIsCustody` names for each action the step of `Custody` that it is: `Book`
  credits or parks the deposit that was due, `AddTransaction` moves or withdraws,
  `Execute` pays, `SubmitFailed` releases, a travel rule payment is withdrawn and paid at
  once, and every other step changes nothing that `Custody` sees.

Sums over tables are written as numbers of units (`Total`: the pairs of an entry and a
unit of its amount), not by recursion, so that what they add up to follows from the
library's theorems about cardinalities: a sum over two disjoint sets, over one more
entry, over entries whose amounts stay, over at most so many entries of at most so much.
The abstract `Custody` names its deposits and withdrawals by whatever the ledger names
them, and has only those that there are so far, so that no bound is part of it.

### OrdersProofs

* `IInv`: the status alone is not inductive, what a worker is about to write depends on
  where it stands (`Position`). `Grows` collects what no step takes back, so that the
  position of one worker survives the steps of others. `StatusIsBacked` follows.
* `RepeatInvariant`: jobs in the queue and workers at the places before a transfer, a
  payment or a trade (`Held`) are counted with what was moved, paid and traded
  (`CountInv`). A step moves one from a term to the next, and only a request or a fault
  adds one; the cover jobs are accounted for by the transfers. `RepeatedAtMost` follows.

### PreApprovalProofs

* `IInv`: `BackedInv` follows `valid` to every place it can come from: rows, commands,
  changes under way and the rows that a round has read. `LiveInv`: the command a task
  waits for is in one place, and there is no other. From them `ValidWasApproved` and, with
  `ReadInv` (what is about to be written was decided on a status that it may change), the
  action property `FinalStays`.
* `AgreeInvariant`: statuses only advance (`Advances`), from pending to any and from valid
  to closed, and both users' changes and commands keep to that. What a VASP does not have
  to send, the other one has or has gone on from (`SentInv`); a command, however late or
  repeated, says nothing that its sender's row has not come to, so it cannot take the
  other row back (`CommandInv`); what was answered as accepted is what the sender's task
  read (`TaskInv`). Two rows that have nothing to send then advance to each other, and so
  are the same: `Agreed`. All of it excepts the pre-approvals in `raced`.

### The clients

* `ClientProofs`: what each step on calls preserves (`CallsInv`), for any orders, and
  the types of the conversions of amounts. The next three cite it.
* `TransfersProofs`: both clients, any amounts, quotes and presses. `PagesInv` ties
  the pages of either client to their phases, `LatestInv` what is asked for or
  reviewed to the last submission, `PressInv` says which calls can be under way in
  which phase. From them `ReviewIsLatest`, `OneAtATime`, `SuccessIsReal` and the
  refinement of `Consent`.
* `SendsProofs`: `PressesInv` bounds what was pressed by what was told to have failed;
  `DialogInv` says what a dialog that was not left early knows about the one call
  under way. From them `RepeatsFollowFailures`, `SuccessIsReal` and the refinement of
  `Consent`.
* `UsersProofs`, on `Sessions`: a read and a call keep the number of the token that they
  were made with, which may have been replaced; `GoodRead` and `GoodOp` say what they may
  bring for that token, and `ShownInv` that what is displayed belongs to the token or is
  marked as late. From them `DisplayedIsOwn` and `TokenKept`; `SubmittedIsComplete` from
  the order in which the steps of an identity fill it in.
* `UsersProofs`, on `Decisions`: each of the four parts has an invariant about its own
  dialogs (`ApprovalsInv`, `LinkInv`, `OneHiring` and its siblings), and steps of the
  others leave it alone. What a dialog waits for is about what it displays unless it was
  closed too early; a pre-approval outside `raced` that was decided has that
  status, or is closed after its approval; every change that waits to be written was
  acceptable in the status that it has read. From them
  `SuccessIsReal`, `DecidedOnce` and the refinement of `Consent`.

### Only model-checked

All liveness (`EndsOrSoftMatch`, `BothBook`, `Settles`, `Books`, `AllHanded`, `CoverEnds`,
`AnswerArrives`, `Responds`, `Heals`): the proof system has no rules for fairness and
`ENABLED`. What it cannot show either is that the hypotheses `Heard` and `Alone` are the
weakest; that the properties fail without them is what TLC shows when a run's constants
are changed.

## Not modelled

* Encodings, signatures, the format of addresses: no property here depends on them.
* More than one currency at the backend: balances of currencies are independent of
  each other.
* `sync_db`, which repairs the transaction table when the web process starts. It
  compares the chain's history with all rows while the worker writes; that needs more
  transfers than TLC explores together with the workers' steps. It deletes external
  rows without a version on the chain (`system.py:211`), a withdrawal that a worker is
  just submitting among them.
* In the travel rule flow: a VASP that does not run this code (its commands are
  covered by `PaymentExchange`, not by `P2PPayment`), soft matches, which two VASPs
  that run this code do not reach (in `PaymentExchange` the other one may),
  and an abort from the receiver's user.
* The merchant's side of merchant payments, and their submission.
* Settlement of debts with the liquidity provider: its button stops at the first
  failure and ignores it, and its outcome is the provider's alone.
* Identities that the administrators reject, and payment methods.
* In the clients: layout, translations, charts, the camera, the dialogs for receiving
  (an address that is displayed), details of a transaction, the web application's
  demo mode.
* Deployment, the validator, the gateway.

## Plan

What would add most, in this order:

1. `SyncDb`, alone first: one history of the chain, rows in every state, and the
   repair; then with one worker's step between its reads.
2. The merchant's side of `PaymentLink`, with the limit compared by `>=` at one side
   and `>` at the other.
3. `Overdraft` for the inventory account, which is debited for refunds of deposits
   that it was not credited with: the bound has to count them.
4. Tokens of blocked users in `AdminPages`, with the session that one of them has.
