--------------------------------- MODULE Worker ---------------------------------
(***************************************************************************)
(* The worker of one chain, as ChainRuntime::spawn (chain/runtime.rs) puts *)
(* it together with init_event_monitor (chain/cosmos.rs): an EventMonitor  *)
(* on a thread of its own, a ChainRuntime that is the monitor's consumer   *)
(* and the only one to command it, and the handles by which other threads  *)
(* reach the runtime.                                                      *)
(*                                                                         *)
(* The two components share their channels: cmd is the command channel,    *)
(* which the runtime only knows to be used or not; inbox is what waits in  *)
(* event_receiver.  A step of the worker is a step of one component with   *)
(* the other at rest, or a step of both where they meet.                   *)
(***************************************************************************)
EXTENDS Naturals, Sequences

CONSTANTS
    Client, MaxCalls,                               \* of ChainRuntime
    MaxHeight, MaxFaults, MaxDelays, FaultKinds     \* of EventMonitor

VARIABLES
    spawn,      \* where `spawn` is, or how it returned
    handles,    \* the clients that hold a handle
    inbox,      \* results waiting in event_receiver
    \* of ChainRuntime
    call, reply, waiting, outcome, requests, runtime, serving, log, panicked,
    \* of EventMonitor
    pc, cmd, drivers, errs, nsub, subs, pend, outbuf, tries, gaveUp,
    listening, last, noticed, height, malformed, up, faults

Monitor == INSTANCE EventMonitor

Runtime == INSTANCE ChainRuntime WITH
    MaxBatches <- MaxHeight + MaxFaults,
    monitor    <- IF Monitor!Alive THEN "running" ELSE "ended",
    told       <- cmd # "none",
    batches    <- inbox

ASSUME WorkerAssumption ==
    /\ {MaxCalls, MaxHeight, MaxFaults, MaxDelays} \subseteq Nat
    /\ FaultKinds \subseteq Monitor!AllFaults

runtimeOnly == <<call, reply, waiting, outcome, requests, runtime, serving, log, panicked>>
monitorOnly == <<pc, cmd, drivers, errs, nsub, subs, pend, outbuf, tries, gaveUp,
                 listening, last, noticed, height, malformed, up, faults>>
vars        == <<spawn, handles, inbox, runtimeOnly, monitorOnly>>

Init ==
    /\ spawn = "bootstrap" /\ handles = {}
    /\ Monitor!Init /\ Runtime!Init

--------------------------------------------------------------------------------
(***************************************************************************)
(* spawn: the chain, the monitor and its subscriptions, then the thread of *)
(* the monitor and that of the runtime.                                    *)
(***************************************************************************)
\* C::bootstrap fails on an address or on the folder of the keys.
Bootstrap ==
    /\ spawn = "bootstrap"
    /\ spawn' \in {"monitor", "error"}
    /\ UNCHANGED <<handles, inbox, runtimeOnly, monitorOnly>>

\* EventMonitor::new and the first subscribe are calls of init_event_monitor.
MonitorStarting == pc = "new" \/ (pc = "subscribe" /\ Monitor!Current = 1)

\* An error of either is that of spawn; else the caller has the first handle.
\* The monitor has been running meanwhile.
SpawnReturns ==
    /\ spawn = "monitor" /\ ~MonitorStarting
    /\ IF pc = "failed"
       THEN spawn' = "error" /\ UNCHANGED handles
       ELSE spawn' = "done" /\ \E c \in Client : handles' = {c}
    /\ UNCHANGED <<inbox, runtimeOnly, monitorOnly>>

--------------------------------------------------------------------------------
(***************************************************************************)
(* The monitor, its drivers and the node.                                  *)
(***************************************************************************)
\* What surrounds the monitor is at rest.
OnlyMonitor == UNCHANGED <<spawn, handles, inbox, runtimeOnly>>

\* A batch, or the error of a cancelled subscription, goes to the runtime's
\* receiver as long as it exists.
Handed == Head(outbuf).kind \in {"group", "cancelled"}

HandOver ==
    /\ Monitor!SendBatch \/ Monitor!StreamError
    /\ inbox' = inbox + IF listening /\ Handed THEN 1 ELSE 0
    /\ UNCHANGED <<spawn, handles, runtimeOnly>>

MonitorWorks ==
    /\ pc = "new" => spawn = "monitor"
    /\ \/ Monitor!New \/ Monitor!Subscribe \/ Monitor!SubscribeFails
       \/ Monitor!CheckCommand \/ Monitor!EndOfStream \/ Monitor!DriverError
       \/ Monitor!Dial \/ Monitor!DialFails \/ Monitor!Join
       \/ Monitor!Close \/ Monitor!JoinLast
    /\ OnlyMonitor

Pull(q) == Monitor!Pull(q) /\ OnlyMonitor

DriversEnd ==
    /\ \E c \in 1..Monitor!Current : Monitor!DriverRelays(c) \/ Monitor!DriverCloses(c)
    /\ OnlyMonitor

Outside ==
    /\ \/ \E c \in 1..Monitor!Current : Monitor!DriverFails(c) \/ Monitor!DriverPanics(c)
       \/ Monitor!CommitBlock \/ Monitor!CommitTx \/ Monitor!SubscriptionFails
       \/ Monitor!EndpointDown \/ Monitor!EndpointUp
    /\ OnlyMonitor

\* Bound: one of the faults is kept for the drop of the runtime, the only way
\* in which the monitor's consumer is lost here.
FaultInReserve == listening => faults < MaxFaults

--------------------------------------------------------------------------------
(***************************************************************************)
(* The runtime, which `init` starts before spawn returns.                  *)
(***************************************************************************)
OnlyRuntime == UNCHANGED <<spawn, handles, monitorOnly>>

DiscardBatch    == OnlyRuntime /\ spawn = "done" /\ Runtime!DiscardBatch
EventsClosed    == OnlyRuntime /\ spawn = "done" /\ Runtime!EventsClosed
TakeRequest     == OnlyRuntime /\ Runtime!TakeRequest
ChainAnswers    == OnlyRuntime /\ (Runtime!ReplyToSend \/ Runtime!ChainPanics)
ReplyToShutdown == OnlyRuntime /\ Runtime!ReplyToShutdown

\* Deviation: the command is lost on its way.
TellNobody ==
    /\ OnlyRuntime
    /\ Runtime!TellNobody

\* tx_monitor_cmd.send, which fails once the monitor's thread has ended.
TellMonitor ==
    /\ IF Monitor!Alive THEN Monitor!SendShutdown ELSE UNCHANGED monitorOnly
    /\ Runtime!TellMonitor
    /\ UNCHANGED <<spawn, handles>>

\* Deviation: the receiver of the events outlives the runtime.
DropRuntimeKeepEvents ==
    /\ OnlyRuntime
    /\ Runtime!DropRuntime

\* With the runtime goes the monitor's consumer.
DropRuntime ==
    /\ Monitor!ConsumerDrops
    /\ Runtime!DropRuntime
    /\ UNCHANGED <<spawn, handles>>

--------------------------------------------------------------------------------
(***************************************************************************)
(* The handles.  The runtime keeps a sender of its own request channel, so *)
(* that channel does not close with the last of them.                      *)
(***************************************************************************)
Call(c)   == c \in handles /\ OnlyRuntime /\ Runtime!Call(c)
Return(c) == OnlyRuntime /\ Runtime!Return(c)

CloneHandle(c) ==
    /\ handles # {} /\ c \notin handles
    /\ handles' = handles \cup {c}
    /\ UNCHANGED <<spawn, inbox, runtimeOnly, monitorOnly>>

\* Deviation: dropping the last handle shuts the monitor down.
DropHandleAndMonitor(c) ==
    /\ c \in handles /\ c \notin waiting
    /\ handles' = handles \ {c}
    /\ cmd' = IF handles' = {} /\ cmd = "none" /\ Monitor!Alive THEN "sent" ELSE cmd
    /\ UNCHANGED <<spawn, inbox, runtimeOnly, pc, tries, gaveUp, drivers, errs,
                   nsub, subs, pend, outbuf, listening, last, noticed,
                   height, malformed, up, faults>>

\* Deviation: a handle may go while a call is made on it.
DropHandleInCall(c) ==
    /\ c \in handles
    /\ handles' = handles \ {c}
    /\ UNCHANGED <<spawn, inbox, runtimeOnly, monitorOnly>>

\* A call borrows the handle it is made on.
DropHandle(c) ==
    /\ c \in handles /\ c \notin waiting
    /\ handles' = handles \ {c}
    /\ UNCHANGED <<spawn, inbox, runtimeOnly, monitorOnly>>

Next ==
    /\ \/ Bootstrap \/ SpawnReturns
       \/ HandOver \/ MonitorWorks \/ DriversEnd \/ Outside
       \/ \E q \in Monitor!Query : Pull(q)
       \/ DiscardBatch \/ EventsClosed \/ TakeRequest \/ ChainAnswers
       \/ TellMonitor \/ ReplyToShutdown \/ DropRuntime
       \/ \E c \in Client : Call(c) \/ Return(c) \/ CloneHandle(c) \/ DropHandle(c)
    /\ FaultInReserve'

Spec == Init /\ [][Next]_vars

(***************************************************************************)
(* Fairness: that of the two components.  Nobody has to call, or to keep   *)
(* or give up a handle.                                                    *)
(***************************************************************************)
Fairness ==
    /\ WF_vars(Bootstrap \/ SpawnReturns)
    /\ WF_vars(HandOver \/ MonitorWorks)
    /\ \A q \in Monitor!Query : WF_vars(Pull(q))
    /\ WF_vars(DriversEnd)
    /\ \A c \in Client : WF_vars(Return(c))
    /\ WF_vars(DiscardBatch) /\ WF_vars(EventsClosed) /\ WF_vars(TakeRequest)
    /\ WF_vars(ChainAnswers)
    /\ WF_vars(TellMonitor \/ ReplyToShutdown \/ DropRuntime)

FairSpec == Spec /\ Fairness
--------------------------------------------------------------------------------
(***************************************************************************)
(* Properties                                                              *)
(***************************************************************************)
\* The variables keep their types, and nobody has a handle before spawn
\* returns one.
TypeOK ==
    /\ spawn \in {"bootstrap", "monitor", "done", "error"}
    /\ handles \subseteq Client /\ waiting \subseteq handles
    /\ spawn # "done" => handles = {}
    /\ Monitor!TypeOK /\ Runtime!TypeOK

\* Joined to the event monitor of EventMonitor the runtime behaves as with the
\* monitor that ChainRuntime makes up: what was shown of the runtime with the
\* one holds with the other.
RuntimeSpec == Runtime!Spec

\* A shutdown that was answered ends the monitor's thread too, although the
\* runtime does not wait for it, unless the select! the monitor is in never
\* completes again.
ShutdownEndsMonitor ==
    \A c \in Client :
        call[c].op = "shutdown" /\ outcome[c] = "answered"
            ~> ~Monitor!Alive \/ [](pc = "select" /\ cmd = "sent")

\* Only a runtime that serves requests can stop the monitor, and only a handle
\* brings it one.  Once the runtime has left its loop without telling the
\* monitor, or the last handle is gone and no call is under way, no command
\* ever reaches the monitor: it goes on dialling and streaming until it fails,
\* for no Drop stops it, neither that of a handle nor that of the runtime.
OutOfReach ==
    /\ spawn = "done" /\ cmd = "none"
    /\ runtime \in {"leaving", "gone"} \/ (handles = {} /\ runtime = "select")
NeverStopped == [][OutOfReach => OutOfReach']_vars

\* The batches that pile up in the unbounded event channel, while the runtime
\* is busy with the chain, are drained, or dropped with the runtime.
BacklogDrained == inbox > 0 ~> inbox = 0
================================================================================
