------------------------------ MODULE ChainService ------------------------------
(***************************************************************************)
(* What a ChainHandle promises to the threads that hold it, with no        *)
(* channel and no runtime thread in it.  A call reaches the chain at most  *)
(* once, and only while the service is open; an answer means that it did;  *)
(* an error of the service means that it did not, unless it was the call   *)
(* in the middle of which the service died.  A closed service stays closed.*)
(***************************************************************************)
EXTENDS Naturals, Sequences

CONSTANTS Client

VARIABLES
    call,       \* per client, its latest call: number and operation
    waiting,    \* the clients whose call has not returned
    outcome,    \* per client, what its latest returned call gave
    log,        \* the calls the chain was asked to perform, in order
    open,       \* whether the service takes calls
    crashed     \* whether it died in the middle of one

service == <<call, waiting, outcome, log, open, crashed>>

Operation == {"send", "shutdown"}

\* The latest call of client c, as it appears in the log.
This(c)    == [client |-> c, n |-> call[c].n]
Reached(c) == \E i \in 1..Len(log) : log[i] = This(c)

Init ==
    /\ call = [c \in Client |-> [n |-> 0, op |-> "send"]]
    /\ waiting = {} /\ outcome = [c \in Client |-> "none"]
    /\ log = <<>> /\ open = TRUE /\ crashed = FALSE

Invoke(c) ==
    /\ c \notin waiting
    /\ waiting' = waiting \cup {c}
    /\ \E op \in Operation : call' = [call EXCEPT ![c] = [n |-> @.n + 1, op |-> op]]
    /\ UNCHANGED <<outcome, log, open, crashed>>

Perform(c) ==
    /\ open /\ c \in waiting /\ call[c].op = "send" /\ ~Reached(c)
    /\ log' = Append(log, This(c))
    /\ UNCHANGED <<call, waiting, outcome, open, crashed>>

\* Shut down by a client, abandoned with its source of events, or dead.
Close ==
    /\ open /\ open' = FALSE
    /\ crashed' \in BOOLEAN
    /\ UNCHANGED <<call, waiting, outcome, log>>

Answer(c) ==
    /\ c \in waiting
    /\ IF call[c].op = "send" THEN Reached(c) ELSE ~open
    /\ waiting' = waiting \ {c} /\ outcome' = [outcome EXCEPT ![c] = "answered"]
    /\ UNCHANGED <<call, log, open, crashed>>

Refuse(c) ==
    /\ c \in waiting /\ ~open
    /\ ~Reached(c) \/ (crashed /\ log[Len(log)] = This(c))
    /\ waiting' = waiting \ {c} /\ outcome' = [outcome EXCEPT ![c] = "channel"]
    /\ UNCHANGED <<call, log, open, crashed>>

Next ==
    \/ \E c \in Client : Invoke(c) \/ Perform(c) \/ Answer(c) \/ Refuse(c)
    \/ Close

Spec == Init /\ [][Next]_service
================================================================================
