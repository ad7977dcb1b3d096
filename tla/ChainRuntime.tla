------------------------------ MODULE ChainRuntime ------------------------------
(***************************************************************************)
(* The chain runtime of chain/runtime.rs: a thread that owns the chain and *)
(* serves the requests which the holders of its ChainHandle                *)
(* (chain/handle.rs, chain/handle/prod.rs) send over a channel, each with  *)
(* a one-place channel for the reply.  The same thread drains the batches  *)
(* of the event monitor and is the only one that can shut the monitor      *)
(* down.                                                                   *)
(*                                                                         *)
(* The monitor appears only by what the runtime sees of it: its batches,   *)
(* its command channel and the end of its thread (see EventMonitor).  What *)
(* the chain does with the messages is in CosmosTx.                        *)
(***************************************************************************)
EXTENDS Naturals, Sequences, FiniteSets

CONSTANTS
    Client,         \* the threads that hold a handle
    MaxCalls,       \* bound: calls each of them makes
    MaxBatches      \* bound: batches waiting in event_receiver

ASSUME RuntimeAssumption == MaxCalls \in Nat /\ MaxBatches \in Nat

VARIABLES
    call,       \* per client, its latest call: number and operation
    reply,      \* per client, its reply channel: "open", "value" or "dropped"
    waiting,    \* the clients blocked in `receiver.recv()`
    outcome,    \* per client, what its latest returned call gave
    requests,   \* the request channel: clients, in the order they sent
    runtime,    \* where the runtime's thread is
    serving,    \* the client it serves
    log,        \* the calls of chain.send_msgs it has begun
    panicked,   \* whether it panicked
    monitor,    \* the monitor's thread: "running" or "ended"
    told,       \* whether a Shutdown command was sent to the monitor
    batches     \* batches waiting in event_receiver

clients == <<call, reply, waiting, outcome, requests>>
events  == <<monitor, told, batches>>
vars    == <<clients, runtime, serving, log, panicked, events>>

\* "leaving" is the end of `run`, before the runtime is dropped; "gone" after.
RuntimePC == {"select", "sending", "shutting", "closing", "leaving", "gone"}
Operation == {"send", "shutdown"}

Init ==
    /\ call = [c \in Client |-> [n |-> 0, op |-> "send"]]
    /\ reply = [c \in Client |-> "open"]
    /\ waiting = {} /\ outcome = [c \in Client |-> "none"]
    /\ requests = <<>>
    /\ runtime = "select" /\ serving \in Client /\ log = <<>> /\ panicked = FALSE
    /\ monitor = "running" /\ told = FALSE /\ batches = 0

--------------------------------------------------------------------------------
(***************************************************************************)
(* A client: ProdChainHandle::send.                                        *)
(***************************************************************************)
\* shutdown() or send_msgs(): a fresh reply channel, then the request is sent,
\* which fails when the runtime has dropped its receiver.
Call(c) ==
    /\ c \notin waiting /\ call[c].n < MaxCalls
    /\ \E op \in Operation : call' = [call EXCEPT ![c] = [n |-> @.n + 1, op |-> op]]
    /\ waiting' = waiting \cup {c}
    /\ IF runtime # "gone"
       THEN /\ requests' = Append(requests, c)
            /\ reply' = [reply EXCEPT ![c] = "open"]
       ELSE /\ reply' = [reply EXCEPT ![c] = "dropped"]
            /\ UNCHANGED requests
    /\ UNCHANGED <<outcome, runtime, serving, log, panicked, events>>

\* receiver.recv(): the reply, or a channel error once nobody can send one.
Return(c) ==
    /\ c \in waiting /\ reply[c] # "open"
    /\ waiting' = waiting \ {c}
    /\ outcome' = [outcome EXCEPT ![c] = IF reply[c] = "value" THEN "answered" ELSE "channel"]
    /\ UNCHANGED <<call, reply, requests, runtime, serving, log, panicked, events>>

--------------------------------------------------------------------------------
(***************************************************************************)
(* The runtime's thread: `run`.  select! picks any branch that is ready.   *)
(***************************************************************************)
Replied(value) == reply' = [reply EXCEPT ![serving] = value]

\* Deviation: a closed channel is taken for one more batch.
DiscardUnchecked ==
    /\ runtime = "select" /\ (batches > 0 \/ monitor = "ended")
    /\ batches' = batches - 1
    /\ UNCHANGED <<clients, runtime, serving, log, panicked, monitor, told>>

\* A batch is received and ignored.
DiscardBatch ==
    /\ runtime = "select" /\ batches > 0
    /\ batches' = batches - 1
    /\ UNCHANGED <<clients, runtime, serving, log, panicked, monitor, told>>

\* The event channel is empty and its sender gone: `run` returns an error.
EventsClosed ==
    /\ runtime = "select" /\ batches = 0 /\ monitor = "ended"
    /\ runtime' = "leaving"
    /\ UNCHANGED <<clients, serving, log, panicked, events>>

TakeRequest ==
    /\ runtime = "select" /\ requests # <<>>
    /\ requests' = Tail(requests)
    /\ LET c == Head(requests) IN
         /\ serving' = c
         /\ IF call[c].op = "send"
            THEN /\ runtime' = "sending"
                 /\ log' = Append(log, [client |-> c, n |-> call[c].n])
            ELSE runtime' = "shutting" /\ UNCHANGED log
    /\ UNCHANGED <<call, reply, waiting, outcome, panicked, events>>

\* chain.send_msgs returned, a result or an error: either is the reply.
ReplyToSend ==
    /\ runtime = "sending"
    /\ Replied("value") /\ runtime' = "select"
    /\ UNCHANGED <<call, waiting, outcome, requests, serving, log, panicked, events>>

\* chain.send_msgs panicked (the balance query, an answer without account):
\* the thread unwinds and reply_to with it.
ChainPanics ==
    /\ runtime = "sending"
    /\ Replied("dropped") /\ runtime' = "leaving" /\ panicked' = TRUE
    /\ UNCHANGED <<call, waiting, outcome, requests, serving, log, events>>

\* Deviation: the monitor is not told.
TellNobody ==
    /\ runtime = "shutting"
    /\ runtime' = "closing"
    /\ UNCHANGED <<clients, serving, log, panicked, events>>

\* Shutdown, first half: the monitor is told; if its thread ended before, the
\* send fails and `?` returns before the chain is shut down and the reply sent.
TellMonitor ==
    /\ runtime = "shutting"
    /\ IF monitor = "running"
       THEN told' = TRUE /\ runtime' = "closing" /\ UNCHANGED reply
       ELSE Replied("dropped") /\ runtime' = "leaving" /\ UNCHANGED told
    /\ UNCHANGED <<call, waiting, outcome, requests, serving, log, panicked, monitor, batches>>

\* Deviation: the loop is not left.
ReplyAndServeOn ==
    /\ runtime = "closing"
    /\ Replied("value") /\ runtime' = "select"
    /\ UNCHANGED <<call, waiting, outcome, requests, serving, log, panicked, events>>

\* Second half: chain.shutdown(), which cannot fail, the reply, and `break`.
ReplyToShutdown ==
    /\ runtime = "closing"
    /\ Replied("value") /\ runtime' = "leaving"
    /\ UNCHANGED <<call, waiting, outcome, requests, serving, log, panicked, events>>

\* Deviation: the receiver goes, what is queued stays as long as a sender does.
DropRuntimeOnly ==
    /\ runtime = "leaving" /\ runtime' = "gone"
    /\ batches' = 0
    /\ UNCHANGED <<clients, serving, log, panicked, monitor, told>>

Queued(c) == \E i \in 1..Len(requests) : requests[i] = c

\* The runtime is dropped: both its receivers with it, and every request still
\* queued, with its reply_to.
DropRuntime ==
    /\ runtime = "leaving" /\ runtime' = "gone"
    /\ requests' = <<>> /\ batches' = 0
    /\ reply' = [c \in Client |-> IF Queued(c) THEN "dropped" ELSE reply[c]]
    /\ UNCHANGED <<call, waiting, outcome, serving, log, panicked, monitor, told>>

RuntimeStep ==
    \/ DiscardBatch \/ EventsClosed \/ TakeRequest
    \/ ReplyToSend \/ ChainPanics \/ TellMonitor \/ ReplyToShutdown \/ DropRuntime

--------------------------------------------------------------------------------
(***************************************************************************)
(* The monitor's thread.                                                   *)
(***************************************************************************)
\* process_batch; with the receiver gone the failure is only logged.
SendBatch ==
    /\ monitor = "running" /\ runtime # "gone" /\ batches < MaxBatches
    /\ batches' = batches + 1
    /\ UNCHANGED <<clients, runtime, serving, log, panicked, monitor, told>>

\* It ends when told to (unless it is waiting for ever), or in a panic.
MonitorEnds ==
    /\ monitor = "running" /\ monitor' = "ended"
    /\ UNCHANGED <<clients, runtime, serving, log, panicked, told, batches>>

MonitorStep == SendBatch \/ MonitorEnds

Next == (\E c \in Client : Call(c) \/ Return(c)) \/ RuntimeStep \/ MonitorStep

Spec == Init /\ [][Next]_vars

(***************************************************************************)
(* Fairness: the threads are scheduled, select! chooses at random among    *)
(* the ready branches, and chain.send_msgs comes to an end (its retries    *)
(* are bounded; that the node answers every RPC is assumed).  The monitor  *)
(* does not have to do anything, not even to obey.                         *)
(***************************************************************************)
Fairness ==
    /\ \A c \in Client : WF_vars(Return(c))
    /\ WF_vars(DiscardBatch) /\ WF_vars(EventsClosed) /\ WF_vars(TakeRequest)
    /\ WF_vars(ReplyToSend \/ ChainPanics)
    /\ WF_vars(TellMonitor \/ ReplyToShutdown \/ DropRuntime)

FairSpec == Spec /\ Fairness
--------------------------------------------------------------------------------
(***************************************************************************)
(* Properties                                                              *)
(***************************************************************************)
\* The variables keep their types, and the bounds of the model hold.
TypeOK ==
    /\ call \in [Client -> [n : 0..MaxCalls, op : Operation]]
    /\ reply \in [Client -> {"open", "value", "dropped"}]
    /\ waiting \subseteq Client
    /\ outcome \in [Client -> {"none", "answered", "channel"}]
    /\ requests \in Seq(Client)
    /\ runtime \in RuntimePC /\ serving \in Client
    /\ log \in Seq([client : Client, n : 1..MaxCalls])
    /\ panicked \in BOOLEAN
    /\ monitor \in {"running", "ended"} /\ told \in BOOLEAN
    /\ batches \in 0..MaxBatches

\* The handle's promise, ChainService: a call reaches the chain at most once,
\* an answered send did reach it, a refused one did not (unless the runtime
\* panicked), and nothing reaches the chain after a shutdown was answered.
Open        == runtime \in {"select", "sending", "shutting"}
Service     == INSTANCE ChainService WITH open <- Open, crashed <- panicked
ServiceSpec == Service!Spec

\* Nobody waits on a reply that nobody holds: a client that waits is queued
\* once, or being served, or has its reply, and exactly one of these; and none
\* is left without once the runtime is gone.
Serving(c) == serving = c /\ runtime \in {"sending", "shutting", "closing"}
Places(c)  == {i \in 1..Len(requests) : requests[i] = c}
Accounted ==
    \A c \in waiting :
        IF reply[c] = "open"
        THEN runtime # "gone" /\ Cardinality(Places(c)) = IF Serving(c) THEN 0 ELSE 1
        ELSE Places(c) = {} /\ ~Serving(c)

\* The monitor is not left behind: when the runtime is gone, its monitor was
\* told to shut down or had ended by itself, unless the runtime panicked.
MonitorNotOrphaned ==
    runtime = "gone" /\ monitor = "running" => told \/ panicked

\* Every call returns, whatever becomes of the runtime and of the monitor.
EveryCallReturns == \A c \in Client : c \in waiting ~> c \notin waiting

\* A shutdown ends the runtime's thread, also when the monitor cannot be told.
ShutdownEnds ==
    \A c \in Client : c \in waiting /\ call[c].op = "shutdown" ~> runtime = "gone"
================================================================================
