-------------------------------- MODULE MCWorker --------------------------------
(***************************************************************************)
(* Instances of Worker for TLC.                                            *)
(***************************************************************************)
EXTENDS Worker

CONSTANTS c1, c2

TwoClients == {c1, c2}

\* A connection that breaks and a panic of the monitor, and the consumer, which
\* is the runtime here.
WorkerFaults == {"driver", "poison", "consumer"}
================================================================================
