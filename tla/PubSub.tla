------------------------------- MODULE PubSub -------------------------------
(***************************************************************************)
(* The process that reads the events of the wallet's chain accounts and    *)
(* sends them to the worker's broker.  Its progress is a number per event  *)
(* stream, kept in memory and written to a file after each round over the  *)
(* streams.  It may stop anywhere, also within the write of the file.      *)
(***************************************************************************)
EXTENDS Integers

CONSTANTS
    Keys,           \* event streams, one per account
    BatchSize,      \* fetch_batch_size
    Unreadable,     \* contents of a missing or half-written file
    MaxEvents,      \* bound: events of a stream
    MaxInterruptions  \* bound: restarts and failed calls

ASSUME PubSubAssumption ==
    /\ BatchSize \in Nat \ {0} /\ MaxEvents \in Nat /\ MaxInterruptions \in Nat
    /\ Unreadable \notin [Keys -> Nat]

VARIABLES
    length,         \* [Keys -> number of events in the stream]
    file,           \* the progress file
    pc,             \* "stopped", "sync", "send", "save" or "write"
    state,          \* [Keys -> next event], as of the start of the round
    after,          \* after_sync_state
    todo,           \* streams that are left in this round
    batch,          \* the stream being read, its next event and the end of the fetched ones
    handed,         \* [Keys -> events sent to the broker], history
    interruptions   \* counter for the bound

pubSubVars == <<length, file, pc, state, after, todo, batch, handed, interruptions>>
round == <<state, after, todo, batch>>

Zero == [k \in Keys |-> 0]
NoBatch == [next |-> 0, end |-> 0]
Batches == [key : Keys, next : Nat, end : Nat] \cup {NoBatch}
Smaller(m, n) == IF m <= n THEN m ELSE n

PubSubInit ==
    /\ length = Zero /\ file = Unreadable /\ pc = "stopped"
    /\ state = Zero /\ after = Zero /\ todo = {} /\ batch = NoBatch
    /\ handed = [k \in Keys |-> {}] /\ interruptions = 0

Emit(k) ==
    /\ length[k] < MaxEvents
    /\ length' = [length EXCEPT ![k] = @ + 1]
    /\ UNCHANGED <<file, pc, round, handed, interruptions>>

\* Mutant: without a readable file the client starts with the newest events.
StartM ==
    /\ pc = "stopped"
    /\ state' = IF file = Unreadable THEN length ELSE file
    /\ after' = state' /\ todo' = Keys
    /\ pc' = "sync"
    /\ UNCHANGED <<length, file, batch, handed, interruptions>>

\* init_progress_state: a stream that the file does not name starts at 0.
Start ==
    /\ pc = "stopped"
    /\ state' = IF file = Unreadable THEN Zero ELSE file
    /\ after' = state' /\ todo' = Keys
    /\ pc' = "sync"
    /\ UNCHANGED <<length, file, batch, handed, interruptions>>

\* sync: the call for a stream's next events.
GetEvents(k) ==
    /\ pc = "sync" /\ k \in todo
    /\ batch' = [key |-> k, next |-> state[k],
                 end |-> Smaller(state[k] + BatchSize, length[k])]
    /\ pc' = "send"
    /\ UNCHANGED <<length, file, state, after, todo, handed, interruptions>>

Send ==
    /\ pc = "send" /\ batch.next < batch.end
    /\ handed' = [handed EXCEPT ![batch.key] = @ \cup {batch.next}]
    /\ batch' = [batch EXCEPT !.next = @ + 1]
    /\ UNCHANGED <<length, file, pc, state, after, todo, interruptions>>

\* All were sent.
KeyDone ==
    /\ pc = "send" /\ batch.next = batch.end
    /\ after' = [after EXCEPT ![batch.key] = batch.end]
    /\ todo' = todo \ {batch.key} /\ batch' = NoBatch
    /\ pc' = "sync"
    /\ UNCHANGED <<length, file, state, handed, interruptions>>

\* Mutant: a stream counts as read although sending its events failed.
KeyFailedM ==
    /\ pc = "send" /\ interruptions < MaxInterruptions /\ interruptions' = interruptions + 1
    /\ after' = [after EXCEPT ![batch.key] = batch.end]
    /\ todo' = todo \ {batch.key} /\ batch' = NoBatch
    /\ pc' = "sync"
    /\ UNCHANGED <<length, file, state, handed>>

\* A call failed: the stream's progress stays as it was, some events may be sent.
KeyFailed ==
    /\ pc = "send" /\ interruptions < MaxInterruptions /\ interruptions' = interruptions + 1
    /\ todo' = todo \ {batch.key} /\ batch' = NoBatch
    /\ pc' = "sync"
    /\ UNCHANGED <<length, file, state, after, handed>>

\* save_state opens the file, which empties it,
OpenFile ==
    /\ pc = "sync" /\ todo = {}
    /\ file' = Unreadable /\ pc' = "write"
    /\ UNCHANGED <<length, round, handed, interruptions>>

\* and writes it.  The next round starts from there.
WriteFile ==
    /\ pc = "write"
    /\ file' = after /\ state' = after /\ todo' = Keys
    /\ pc' = "sync"
    /\ UNCHANGED <<length, after, batch, handed, interruptions>>

Crash ==
    /\ pc # "stopped" /\ interruptions < MaxInterruptions /\ interruptions' = interruptions + 1
    /\ pc' = "stopped" /\ batch' = NoBatch
    /\ UNCHANGED <<length, file, state, after, todo, handed>>

Step == Start \/ (\E k \in Keys : GetEvents(k)) \/ Send \/ KeyDone \/ OpenFile \/ WriteFile

PubSubNext == (\E k \in Keys : Emit(k)) \/ Step \/ KeyFailed \/ Crash

PubSubSpec == PubSubInit /\ [][PubSubNext]_pubSubVars

\* The process is restarted and its loop goes on.
FairPubSub == PubSubSpec /\ WF_pubSubVars(Step)

-----------------------------------------------------------------------------
PubSubTypeOK ==
    /\ length \in [Keys -> Nat] /\ file \in [Keys -> Nat] \cup {Unreadable}
    /\ pc \in {"stopped", "sync", "send", "write"}
    /\ state \in [Keys -> Nat] /\ after \in [Keys -> Nat] /\ todo \subseteq Keys
    /\ batch \in Batches /\ (pc = "send" => batch # NoBatch)
    /\ handed \in [Keys -> SUBSET Nat] /\ interruptions \in Nat

\* No event before the saved progress is missing: a restart skips none.
SavedWasHanded ==
    file # Unreadable => \A k \in Keys : 0..(file[k] - 1) \subseteq handed[k]

\* PubSub is the feed that the worker relies on.
F == INSTANCE Feed
ImplementsFeed == F!FeedSpec

\* Every event is handed to the worker in the end.
AllHanded == \A k \in Keys, n \in 0..(MaxEvents - 1) : length[k] > n ~> n \in handed[k]

\* The inductive invariant: what is handed over is a beginning of the stream and
\* no number in memory or in the file is beyond it.
Upto(k, n) == 0..(n - 1) \subseteq handed[k]
Stream(k) ==
    /\ \E n \in 0..length[k] : handed[k] = 0..(n - 1)
    /\ Upto(k, state[k]) /\ Upto(k, after[k])
Sending ==
    pc = "send" => /\ Upto(batch.key, batch.next)
                   /\ batch.next <= batch.end /\ batch.end <= length[batch.key]
PubSubInv == PubSubTypeOK /\ (\A k \in Keys : Stream(k)) /\ Sending /\ SavedWasHanded
=============================================================================
