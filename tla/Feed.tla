-------------------------------- MODULE Feed --------------------------------
(***************************************************************************)
(* What the worker may rely on: of every stream of the chain's events it   *)
(* is handed each event at least once, the first time in the order of the  *)
(* stream.                                                                 *)
(***************************************************************************)
EXTENDS Naturals

CONSTANT Keys           \* event streams

VARIABLES
    length,             \* [Keys -> number of events in the stream]
    handed              \* [Keys -> the events handed over]

feedVars == <<length, handed>>

FeedInit == /\ length = [k \in Keys |-> 0] /\ handed = [k \in Keys |-> {}]

Emitted(k) ==
    /\ length' = [length EXCEPT ![k] = @ + 1]
    /\ UNCHANGED handed

\* The next event.  Handing over an earlier one again changes nothing here.
Handed(k) ==
    /\ \E n \in 0..(length[k] - 1) :
          /\ handed[k] = 0..(n - 1)
          /\ handed' = [handed EXCEPT ![k] = @ \cup {n}]
    /\ UNCHANGED length

FeedNext == \E k \in Keys : Emitted(k) \/ Handed(k)

FeedSpec == FeedInit /\ [][FeedNext]_feedVars
=============================================================================
