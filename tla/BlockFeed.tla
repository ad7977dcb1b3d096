------------------------------- MODULE BlockFeed -------------------------------
(***************************************************************************)
(* What the event monitor promises to the consumer of its batches, with    *)
(* no thread, queue or driver in it.  The chain grows; the monitor works   *)
(* in sessions (one per connection); the consumer is handed blocks of the  *)
(* chain, each higher than the one before, and within a session without a  *)
(* gap, apart from blocks whose event was unusable.  Between two sessions  *)
(* blocks may be missing.                                                  *)
(***************************************************************************)
EXTENDS Naturals

VARIABLES
    height,     \* the chain's latest block
    malformed,  \* the blocks whose event was unusable
    session,    \* the monitor's current session
    last        \* the last block handed over, and the session it came from

feed == <<height, malformed, session, last>>

Init ==
    /\ height = 0 /\ malformed = {} /\ session = 0
    /\ last = [height |-> 0, conn |-> 0]

Commit ==
    /\ height' = height + 1
    /\ malformed' \in {malformed, malformed \cup {height'}}
    /\ UNCHANGED <<session, last>>

NewSession ==
    /\ session' = session + 1
    /\ UNCHANGED <<height, malformed, last>>

\* Only the current session hands over blocks.
HandOver ==
    /\ \E h \in last.height + 1 .. height :
         /\ last.conn = session => last.height + 1 .. h - 1 \subseteq malformed
         /\ last' = [height |-> h, conn |-> session]
    /\ UNCHANGED <<height, malformed, session>>

Next == Commit \/ NewSession \/ HandOver

Spec == Init /\ [][Next]_feed
================================================================================
