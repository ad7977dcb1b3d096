----------------------------- MODULE WorkerProofs ------------------------------
(***************************************************************************)
(* Theorems about Worker, for every bound, every set of faults and any     *)
(* number of clients.  The worker implements both its components, so that  *)
(* what EventMonitorProofs and ChainRuntimeProofs show of these holds in   *)
(* it; its own invariant says how the two hang together.                   *)
(***************************************************************************)
EXTENDS Worker, SequenceFacts

MonitorProofs == INSTANCE EventMonitorProofs

RuntimeProofs == INSTANCE ChainRuntimeProofs WITH
    MaxBatches <- MaxHeight + MaxFaults,
    monitor    <- IF Monitor!Alive THEN "running" ELSE "ended",
    told       <- cmd # "none",
    batches    <- inbox

USE DEF runtimeOnly, monitorOnly

--------------------------------------------------------------------------------
(***************************************************************************)
(* The event monitor in the worker.                                        *)
(***************************************************************************)

\* What surrounds the monitor leaves it alone, or makes one of its steps.
LEMMA StepMonitor == [Next]_vars => [Monitor!Next]_(Monitor!vars)
<1> SUFFICES ASSUME [Next]_vars PROVE Monitor!Next \/ UNCHANGED Monitor!vars
  OBVIOUS
<1> USE DEF Monitor!vars, Monitor!control, Monitor!stream, Monitor!output, Monitor!node
<1>1. CASE Bootstrap \/ SpawnReturns \/ UNCHANGED vars
  BY <1>1 DEF Bootstrap, SpawnReturns, vars
<1>2. CASE HandOver
  BY <1>2 DEF HandOver, Monitor!Next, Monitor!MonitorStep
<1>3. CASE MonitorWorks
  BY <1>3 DEF MonitorWorks, Monitor!Next, Monitor!MonitorStep
<1>4. ASSUME NEW q \in Monitor!Query, Pull(q) PROVE Monitor!Next
  BY <1>4 DEF Pull, Monitor!Next, Monitor!MonitorStep
<1>5. CASE DriversEnd
  BY <1>5 DEF DriversEnd, Monitor!Next, Monitor!DriverStep
<1>6. CASE Outside
  BY <1>6 DEF Outside, Monitor!Next, Monitor!DriverStep, Monitor!Environment
<1>7. CASE TellMonitor
  BY <1>7 DEF TellMonitor, Monitor!Next, Monitor!Environment
<1>8. CASE DropRuntime
  BY <1>8 DEF DropRuntime, Monitor!Next, Monitor!Environment
<1>9. CASE DiscardBatch \/ EventsClosed \/ TakeRequest \/ ChainAnswers \/ ReplyToShutdown
  BY <1>9 DEF DiscardBatch, EventsClosed, TakeRequest, ChainAnswers, ReplyToShutdown,
              OnlyRuntime
<1>10. ASSUME NEW c \in Client, Call(c) \/ Return(c) \/ CloneHandle(c) \/ DropHandle(c)
       PROVE  UNCHANGED Monitor!vars
  BY <1>10 DEF Call, Return, CloneHandle, DropHandle, OnlyRuntime
<1> QED BY <1>1, <1>2, <1>3, <1>4, <1>5, <1>6, <1>7, <1>8, <1>9, <1>10 DEF Next

\* In the worker the event monitor behaves as it was modelled: the runtime is
\* one of its consumers and commanders.
THEOREM MonitorRefined == Spec => Monitor!Spec
<1>1. Init => Monitor!Init
  BY DEF Init
<1> QED BY <1>1, StepMonitor, PTL DEF Spec, Monitor!Spec

(***************************************************************************)
(* The theorems about EventMonitor speak of another instance of it, with   *)
(* the same parameters: its definitions are the same.                      *)
(***************************************************************************)
LEMMA SameMonitorInit == MonitorProofs!Init <=> Monitor!Init
  BY DEF MonitorProofs!Init, MonitorProofs!NoBlock, MonitorProofs!Query,
         MonitorProofs!EmptySubs, Monitor!Init, Monitor!NoBlock, Monitor!Query,
         Monitor!EmptySubs

LEMMA SameMonitorNext ==
    [MonitorProofs!Next]_(MonitorProofs!vars) <=> [Monitor!Next]_(Monitor!vars)
  BY DEF MonitorProofs!vars, MonitorProofs!control, MonitorProofs!stream,
         MonitorProofs!output, MonitorProofs!node, MonitorProofs!Current,
         MonitorProofs!InLoop, MonitorProofs!Ended, MonitorProofs!Alive,
         MonitorProofs!Running, MonitorProofs!Subscribed, MonitorProofs!Query,
         MonitorProofs!EventQueries, MonitorProofs!EmptySubs, MonitorProofs!SubErrors,
         MonitorProofs!Fault, MonitorProofs!New, MonitorProofs!RetryOrGiveUp,
         MonitorProofs!Subscribe, MonitorProofs!SubscribeFails,
         MonitorProofs!CheckCommand, MonitorProofs!Pull, MonitorProofs!EndOfStream,
         MonitorProofs!SendBatch, MonitorProofs!StartReconnect,
         MonitorProofs!StreamError, MonitorProofs!DriverError, MonitorProofs!Closing,
         MonitorProofs!Dial, MonitorProofs!DialFails, MonitorProofs!Join,
         MonitorProofs!Close, MonitorProofs!JoinLast, MonitorProofs!MonitorStep,
         MonitorProofs!DriverTo, MonitorProofs!DriverFails, MonitorProofs!DriverRelays,
         MonitorProofs!DriverCloses, MonitorProofs!DriverPanics,
         MonitorProofs!DriverStep, MonitorProofs!Publish, MonitorProofs!CommitBlock,
         MonitorProofs!CommitTx, MonitorProofs!SubscriptionFails,
         MonitorProofs!EndpointDown, MonitorProofs!EndpointUp,
         MonitorProofs!SendShutdown, MonitorProofs!ConsumerDrops,
         MonitorProofs!Environment, MonitorProofs!Next, MonitorProofs!Item,
         MonitorProofs!Group, MonitorProofs!Failure, MonitorProofs!SameGroup,
         MonitorProofs!PendingAfterItem, MonitorProofs!YieldedOnItem,
         MonitorProofs!YieldedOnError, MonitorProofs!YieldedAtEnd, Monitor!vars,
         Monitor!control, Monitor!stream, Monitor!output, Monitor!node,
         Monitor!Current, Monitor!InLoop, Monitor!Ended, Monitor!Alive,
         Monitor!Running, Monitor!Subscribed, Monitor!Query, Monitor!EventQueries,
         Monitor!EmptySubs, Monitor!SubErrors, Monitor!Fault, Monitor!New,
         Monitor!RetryOrGiveUp, Monitor!Subscribe, Monitor!SubscribeFails,
         Monitor!CheckCommand, Monitor!Pull, Monitor!EndOfStream, Monitor!SendBatch,
         Monitor!StartReconnect, Monitor!StreamError, Monitor!DriverError,
         Monitor!Closing, Monitor!Dial, Monitor!DialFails, Monitor!Join, Monitor!Close,
         Monitor!JoinLast, Monitor!MonitorStep, Monitor!DriverTo, Monitor!DriverFails,
         Monitor!DriverRelays, Monitor!DriverCloses, Monitor!DriverPanics,
         Monitor!DriverStep, Monitor!Publish, Monitor!CommitBlock, Monitor!CommitTx,
         Monitor!SubscriptionFails, Monitor!EndpointDown, Monitor!EndpointUp,
         Monitor!SendShutdown, Monitor!ConsumerDrops, Monitor!Environment,
         Monitor!Next, Monitor!Item, Monitor!Group, Monitor!Failure, Monitor!SameGroup,
         Monitor!PendingAfterItem, Monitor!YieldedOnItem, Monitor!YieldedOnError,
         Monitor!YieldedAtEnd

LEMMA SameMonitorSpec == MonitorProofs!Spec <=> Monitor!Spec
  BY SameMonitorInit, SameMonitorNext, PTL DEF MonitorProofs!Spec, Monitor!Spec

LEMMA SameMonitorIInv == MonitorProofs!IInv <=> Monitor!IInv
  BY DEF MonitorProofs!Current, MonitorProofs!InLoop, MonitorProofs!Ended,
         MonitorProofs!Running, MonitorProofs!Subscribed, MonitorProofs!Query,
         MonitorProofs!EventQueries, MonitorProofs!EmptySubs, MonitorProofs!Items,
         MonitorProofs!Block, MonitorProofs!Result, MonitorProofs!ItemKind,
         MonitorProofs!SubErrors, MonitorProofs!MonitorPC, MonitorProofs!DriverStatus,
         MonitorProofs!TypeOK, MonitorProofs!AllFaults, MonitorProofs!Height,
         MonitorProofs!Queue, MonitorProofs!InQueue, MonitorProofs!InPend,
         MonitorProofs!InOut, MonitorProofs!InFlight, MonitorProofs!Phases,
         MonitorProofs!TxHasNoBlock, MonitorProofs!Singletons, MonitorProofs!Ordered,
         MonitorProofs!Due, MonitorProofs!Gapless, MonitorProofs!Joined,
         MonitorProofs!IInv, Monitor!Current, Monitor!InLoop, Monitor!Ended,
         Monitor!Running, Monitor!Subscribed, Monitor!Query, Monitor!EventQueries,
         Monitor!EmptySubs, Monitor!Items, Monitor!Block, Monitor!Result,
         Monitor!ItemKind, Monitor!SubErrors, Monitor!MonitorPC, Monitor!DriverStatus,
         Monitor!TypeOK, Monitor!AllFaults, Monitor!Height, Monitor!Queue,
         Monitor!InQueue, Monitor!InPend, Monitor!InOut, Monitor!InFlight,
         Monitor!Phases, Monitor!TxHasNoBlock, Monitor!Singletons, Monitor!Ordered,
         Monitor!Due, Monitor!Gapless, Monitor!Joined, Monitor!IInv

LEMMA SameMonitorProperties ==
    /\ MonitorProofs!ReconnectionsBounded <=> Monitor!ReconnectionsBounded
    /\ MonitorProofs!NoLeakedDriver <=> Monitor!NoLeakedDriver
    /\ MonitorProofs!WedgedOnlyAfterGivingUp <=> Monitor!WedgedOnlyAfterGivingUp
  BY DEF MonitorProofs!ReconnectionsBounded, MonitorProofs!NoLeakedDriver,
         MonitorProofs!WedgedOnlyAfterGivingUp, MonitorProofs!Current,
         MonitorProofs!Ended, MonitorProofs!Idle, MonitorProofs!Query,
         Monitor!ReconnectionsBounded, Monitor!NoLeakedDriver,
         Monitor!WedgedOnlyAfterGivingUp, Monitor!Current, Monitor!Ended, Monitor!Idle,
         Monitor!Query

LEMMA SameFeed == MonitorProofs!FeedSpec <=> Monitor!FeedSpec
<1>1. MonitorProofs!Feed!Init <=> Monitor!Feed!Init
  BY DEF MonitorProofs!Feed!Init, Monitor!Feed!Init, MonitorProofs!Current, Monitor!Current
<1>2. [MonitorProofs!Feed!Next]_(MonitorProofs!Feed!feed)
        <=> [Monitor!Feed!Next]_(Monitor!Feed!feed)
  BY DEF MonitorProofs!Current, Monitor!Current, MonitorProofs!Feed!Next,
         MonitorProofs!Feed!Commit, MonitorProofs!Feed!NewSession,
         MonitorProofs!Feed!HandOver, MonitorProofs!Feed!feed, Monitor!Feed!Next,
         Monitor!Feed!Commit, Monitor!Feed!NewSession, Monitor!Feed!HandOver,
         Monitor!Feed!feed
<1> QED
  BY <1>1, <1>2, PTL DEF MonitorProofs!FeedSpec, MonitorProofs!Feed!Spec,
                         Monitor!FeedSpec, Monitor!Feed!Spec

\* The worker's constants are those of an event monitor and of a runtime.
LEMMA ComponentAssumptions ==
    /\ MonitorProofs!ConstantsAssumption
    /\ RuntimeProofs!RuntimeAssumption
  BY WorkerAssumption
  DEF MonitorProofs!ConstantsAssumption, MonitorProofs!AllFaults, Monitor!AllFaults,
      RuntimeProofs!RuntimeAssumption

LEMMA MonitorIInvHolds == Spec => []Monitor!IInv
  BY MonitorRefined, ComponentAssumptions, MonitorProofs!IInvHolds,
     SameMonitorSpec, SameMonitorIInv, PTL

\* In the worker, too, the runtime is handed the chain's blocks in order, none
\* twice, and without a gap within a connection; a fault costs two reconnections
\* at most, no driver is left behind, and the monitor waits in vain only for the
\* two known reasons.
THEOREM MonitorPromises ==
    Spec => /\ Monitor!FeedSpec
            /\ [](/\ Monitor!ReconnectionsBounded /\ Monitor!NoLeakedDriver
                 /\ Monitor!WedgedOnlyAfterGivingUp)
<1>1. MonitorProofs!Spec =>
        /\ MonitorProofs!FeedSpec
        /\ []MonitorProofs!ReconnectionsBounded /\ []MonitorProofs!NoLeakedDriver
        /\ []MonitorProofs!WedgedOnlyAfterGivingUp
  BY ComponentAssumptions, MonitorProofs!FeedHolds, MonitorProofs!ReconnectionsHold,
     MonitorProofs!NoDriverLeaks, MonitorProofs!WaitsInVain, PTL
<1> QED BY <1>1, MonitorRefined, SameMonitorSpec, SameMonitorProperties, SameFeed, PTL

--------------------------------------------------------------------------------
(***************************************************************************)
(* How the two hang together.                                              *)
(***************************************************************************)

\* spawn gives out the first handle, and a call borrows the one it is made on.
Holders ==
    /\ spawn \in {"bootstrap", "monitor", "done", "error"}
    /\ handles \subseteq Client /\ waiting \subseteq handles
    /\ spawn # "done" => handles = {}

\* The monitor's consumer is the runtime, as long as that exists.
Consumer == listening <=> runtime # "gone"

\* A batch that waits in the runtime's receiver has a block of its own, as the
\* heights of the batches grow; an error that waits there was a fault, as the
\* one that is on its way through the batch stream.
Erring  == IF MonitorProofs!Broken THEN 1 ELSE 0
Backlog == inbox \in Nat /\ inbox + Erring <= last.height + faults

WInv == Holders /\ Consumer /\ Backlog

(***************************************************************************)
(* The runtime in the worker.                                              *)
(***************************************************************************)

\* What neither touches the runtime, nor commands the monitor, is a step of the
\* monitor to the runtime if its thread ends, and nothing else.
LEMMA RuntimeAtRest ==
    ASSUME UNCHANGED <<inbox, runtimeOnly>>, cmd' = "none" <=> cmd = "none",
           Monitor!Alive' => Monitor!Alive
    PROVE  [Runtime!Next]_(Runtime!vars)
<1>1. CASE Monitor!Alive /\ ~Monitor!Alive'
  <2>1. Runtime!MonitorEnds
    BY <1>1 DEF Runtime!MonitorEnds, Runtime!clients
  <2> QED BY <2>1 DEF Runtime!Next, Runtime!MonitorStep
<1>2. CASE Monitor!Alive <=> Monitor!Alive'
  BY <1>2 DEF Runtime!vars, Runtime!clients, Runtime!events
<1> QED BY <1>1, <1>2

\* The monitor's own steps are those of a live thread, and commands are neither
\* given nor taken back by them.
LEMMA MonitorLives ==
    ASSUME Monitor!MonitorStep
    PROVE  Monitor!Alive /\ (cmd' = "none" <=> cmd = "none")
  BY DEF Monitor!MonitorStep, Monitor!New, Monitor!Subscribe, Monitor!SubscribeFails,
         Monitor!CheckCommand, Monitor!Pull, Monitor!EndOfStream, Monitor!SendBatch,
         Monitor!StreamError, Monitor!DriverError, Monitor!Dial, Monitor!DialFails,
         Monitor!Join, Monitor!Close, Monitor!JoinLast, Monitor!Alive, Monitor!control

\* The drivers and the node do not touch the monitor's thread.
LEMMA OthersKeepControl ==
    ASSUME DriversEnd \/ Outside
    PROVE  UNCHANGED <<pc, cmd>>
  BY DEF DriversEnd, Outside, Monitor!DriverRelays, Monitor!DriverCloses,
         Monitor!DriverFails, Monitor!DriverPanics, Monitor!CommitBlock, Monitor!CommitTx,
         Monitor!SubscriptionFails, Monitor!EndpointDown, Monitor!EndpointUp, Monitor!control

\* A batch handed over is higher than the one before.
LEMMA BatchesGrow ==
    ASSUME Monitor!IInv, Monitor!SendBatch, listening
    PROVE  /\ last'.height \in Nat /\ last'.height <= MaxHeight
           /\ last.height \in Nat /\ last.height + 1 <= last'.height
<1> DEFINE block == outbuf[1].events[1]
<1>1. /\ outbuf \in Seq(Monitor!Result) /\ outbuf # <<>> /\ Head(outbuf).kind = "group"
      /\ last' = Head(outbuf).events[1]
  BY DEF Monitor!SendBatch, Monitor!IInv, Monitor!TypeOK
<1>2. Head(outbuf) = outbuf[1] /\ outbuf[1] \in Monitor!Result
  BY <1>1, TailElements
<1>3. outbuf[1].events \in Seq(Monitor!Block) /\ outbuf[1].events # <<>>
  BY <1>1, <1>2 DEF Monitor!Result
<1>4. block \in Monitor!Block
  BY <1>3, TailElements
<1>5. block.height \in Nat /\ block.height <= MaxHeight
  BY <1>4, WorkerAssumption DEF Monitor!Block
<1>6. last.height \in Nat
  BY WorkerAssumption DEF Monitor!IInv, Monitor!TypeOK
<1>7. block.height \in Monitor!Height /\ Monitor!InFlight(block.height)
  BY <1>1, <1>2, <1>4, WorkerAssumption
  DEF Monitor!Block, Monitor!Height, Monitor!InFlight, Monitor!InOut
<1>8. last.height < block.height
  BY <1>7 DEF Monitor!IInv, Monitor!Ordered
<1> QED BY <1>1, <1>2, <1>5, <1>6, <1>8

\* What is handed over finds room within the bound of the runtime's model.
LEMMA HandOverRoom ==
    ASSUME Monitor!IInv, WInv, HandOver, listening, Handed
    PROVE  inbox \in Nat /\ inbox < MaxHeight + MaxFaults
<1>1. /\ last.height \in Nat /\ last.height <= MaxHeight
      /\ faults \in Nat /\ faults <= MaxFaults
      /\ inbox \in Nat /\ inbox + Erring <= last.height + faults
  BY WorkerAssumption DEF WInv, Backlog, Monitor!IInv, Monitor!TypeOK
<1>2. CASE Monitor!SendBatch
  <2>1. last.height + 1 <= MaxHeight
    BY <1>1, <1>2, BatchesGrow, WorkerAssumption
  <2> QED BY <1>1, <2>1, WorkerAssumption DEF Erring
<1>3. CASE Monitor!StreamError
  <2>1. outbuf \in Seq(Monitor!Result) /\ outbuf # <<>> /\ Head(outbuf).kind \in Monitor!SubErrors
    BY <1>3 DEF Monitor!StreamError, Monitor!IInv, Monitor!TypeOK
  <2>2. 1 \in 1..Len(outbuf) /\ Head(outbuf) = outbuf[1]
    BY <2>1, TailElements
  <2>3. MonitorProofs!Broken
    BY <2>1, <2>2 DEF MonitorProofs!Broken, MonitorProofs!ErrorsIn,
                      MonitorProofs!SubErrors, Monitor!SubErrors
  <2> QED BY <1>1, <2>3, WorkerAssumption DEF Erring
<1> QED BY <1>2, <1>3 DEF HandOver

LEMMA StepRuntime ==
    Monitor!IInv /\ WInv /\ [Next]_vars => [Runtime!Next]_(Runtime!vars)
<1> SUFFICES ASSUME Monitor!IInv, WInv, [Next]_vars PROVE [Runtime!Next]_(Runtime!vars)
  OBVIOUS
<1>1. CASE Bootstrap \/ SpawnReturns \/ UNCHANGED vars
  <2>1. UNCHANGED <<inbox, runtimeOnly, pc, cmd>>
    BY <1>1 DEF Bootstrap, SpawnReturns, vars
  <2> QED BY <2>1, RuntimeAtRest DEF Monitor!Alive
<1>2. CASE HandOver
  <2>1. /\ Monitor!Alive /\ Monitor!Alive' /\ (cmd' = "none" <=> cmd = "none")
        /\ UNCHANGED runtimeOnly
    <3>1. pc = "select" /\ pc' \in {"top", "dial"} /\ cmd' = cmd
      BY <1>2 DEF HandOver, Monitor!SendBatch, Monitor!StreamError, Monitor!StartReconnect
    <3> QED BY <1>2, <3>1 DEF HandOver, Monitor!Alive
  <2>2. CASE listening /\ Handed
    <3>1. inbox \in Nat /\ inbox < MaxHeight + MaxFaults /\ inbox' = inbox + 1
      BY <1>2, <2>2, HandOverRoom DEF HandOver
    <3>2. runtime # "gone"
      BY <2>2 DEF WInv, Consumer
    <3>3. Runtime!SendBatch
      BY <2>1, <3>1, <3>2 DEF Runtime!SendBatch, Runtime!clients
    <3> QED BY <3>3 DEF Runtime!Next, Runtime!MonitorStep
  <2>3. CASE ~(listening /\ Handed)
    <3>1. inbox' = inbox
      BY <1>2, <2>3 DEF HandOver, WInv, Backlog
    <3> QED BY <2>1, <3>1, RuntimeAtRest
  <2> QED BY <2>2, <2>3
<1>3. CASE MonitorWorks
  <2>1. Monitor!MonitorStep /\ UNCHANGED <<inbox, runtimeOnly>>
    BY <1>3 DEF MonitorWorks, OnlyMonitor, Monitor!MonitorStep
  <2> QED BY <2>1, MonitorLives, RuntimeAtRest
<1>4. ASSUME NEW q \in Monitor!Query, Pull(q) PROVE [Runtime!Next]_(Runtime!vars)
  <2>1. Monitor!MonitorStep /\ UNCHANGED <<inbox, runtimeOnly>>
    BY <1>4 DEF Pull, OnlyMonitor, Monitor!MonitorStep
  <2> QED BY <2>1, MonitorLives, RuntimeAtRest
<1>5. CASE DriversEnd \/ Outside
  <2>1. UNCHANGED <<inbox, runtimeOnly, pc, cmd>>
    BY <1>5, OthersKeepControl DEF DriversEnd, Outside, OnlyMonitor
  <2> QED BY <2>1, RuntimeAtRest DEF Monitor!Alive
<1>6. CASE \/ DiscardBatch \/ EventsClosed \/ TakeRequest \/ ChainAnswers
           \/ TellMonitor \/ ReplyToShutdown \/ DropRuntime
  BY <1>6 DEF DiscardBatch, EventsClosed, TakeRequest, ChainAnswers, TellMonitor,
              ReplyToShutdown, DropRuntime, Runtime!Next, Runtime!RuntimeStep
<1>7. ASSUME NEW c \in Client, Call(c) \/ Return(c) PROVE Runtime!Next
  BY <1>7 DEF Call, Return, Runtime!Next
<1>8. ASSUME NEW c \in Client, CloneHandle(c) \/ DropHandle(c)
      PROVE  [Runtime!Next]_(Runtime!vars)
  <2>1. UNCHANGED <<inbox, runtimeOnly, pc, cmd>>
    BY <1>8 DEF CloneHandle, DropHandle
  <2> QED BY <2>1, RuntimeAtRest DEF Monitor!Alive
<1> QED BY <1>1, <1>2, <1>3, <1>4, <1>5, <1>6, <1>7, <1>8 DEF Next

--------------------------------------------------------------------------------
(***************************************************************************)
(* The invariant is kept.                                                  *)
(***************************************************************************)
LEMMA StepHolders == Holders /\ [Next]_vars => Holders'
<1> SUFFICES ASSUME Holders, [Next]_vars PROVE Holders'
  OBVIOUS
<1> USE DEF Holders
<1>1. CASE Bootstrap \/ UNCHANGED vars
  BY <1>1 DEF Bootstrap, vars
<1>2. CASE SpawnReturns
  BY <1>2 DEF SpawnReturns
<1>3. CASE HandOver \/ MonitorWorks \/ DriversEnd \/ Outside \/ \E q \in Monitor!Query : Pull(q)
  BY <1>3 DEF HandOver, MonitorWorks, DriversEnd, Outside, Pull, OnlyMonitor
<1>4. CASE \/ DiscardBatch \/ EventsClosed \/ TakeRequest \/ ChainAnswers
           \/ TellMonitor \/ ReplyToShutdown \/ DropRuntime
  BY <1>4 DEF DiscardBatch, EventsClosed, TakeRequest, ChainAnswers, TellMonitor,
              ReplyToShutdown, DropRuntime, OnlyRuntime,
              Runtime!DiscardBatch, Runtime!EventsClosed, Runtime!TakeRequest,
              Runtime!ReplyToSend, Runtime!ChainPanics, Runtime!TellMonitor,
              Runtime!ReplyToShutdown, Runtime!DropRuntime, Runtime!clients
<1>5. ASSUME NEW c \in Client, Call(c) \/ Return(c) PROVE Holders'
  BY <1>5 DEF Call, Return, OnlyRuntime, Runtime!Call, Runtime!Return
<1>6. ASSUME NEW c \in Client, CloneHandle(c) \/ DropHandle(c) PROVE Holders'
  BY <1>6 DEF CloneHandle, DropHandle
<1> QED BY <1>1, <1>2, <1>3, <1>4, <1>5, <1>6 DEF Next

\* Only with the runtime does the consumer go.
LEMMA StepConsumer == Consumer /\ [Next]_vars => Consumer'
<1> SUFFICES ASSUME Consumer, [Next]_vars PROVE Consumer'
  OBVIOUS
<1> USE DEF Consumer
<1>1. CASE Bootstrap \/ SpawnReturns \/ UNCHANGED vars
  BY <1>1 DEF Bootstrap, SpawnReturns, vars
<1>2. CASE HandOver \/ MonitorWorks \/ \E q \in Monitor!Query : Pull(q)
  <2>1. Monitor!MonitorStep /\ runtime' = runtime
    BY <1>2 DEF HandOver, MonitorWorks, Pull, OnlyMonitor, Monitor!MonitorStep
  <2>2. listening' = listening
    BY <2>1 DEF Monitor!MonitorStep, Monitor!New, Monitor!Subscribe, Monitor!SubscribeFails,
         Monitor!CheckCommand, Monitor!Pull, Monitor!EndOfStream, Monitor!SendBatch,
         Monitor!StreamError, Monitor!DriverError, Monitor!Dial, Monitor!DialFails,
         Monitor!Join, Monitor!Close, Monitor!JoinLast, Monitor!output
  <2> QED BY <2>1, <2>2
<1>3. CASE DriversEnd \/ Outside
  BY <1>3 DEF DriversEnd, Outside, OnlyMonitor, Monitor!DriverRelays, Monitor!DriverCloses,
         Monitor!DriverFails, Monitor!DriverPanics, Monitor!CommitBlock, Monitor!CommitTx,
         Monitor!SubscriptionFails, Monitor!EndpointDown, Monitor!EndpointUp, Monitor!output
<1>4. CASE \/ DiscardBatch \/ EventsClosed \/ TakeRequest \/ ChainAnswers \/ ReplyToShutdown
  BY <1>4 DEF DiscardBatch, EventsClosed, TakeRequest, ChainAnswers, ReplyToShutdown,
              OnlyRuntime, Runtime!DiscardBatch, Runtime!EventsClosed, Runtime!TakeRequest,
              Runtime!ReplyToSend, Runtime!ChainPanics, Runtime!ReplyToShutdown
<1>5. CASE TellMonitor
  BY <1>5 DEF TellMonitor, Monitor!SendShutdown, Monitor!output, Runtime!TellMonitor
<1>6. CASE DropRuntime
  BY <1>6 DEF DropRuntime, Monitor!ConsumerDrops, Runtime!DropRuntime
<1>7. ASSUME NEW c \in Client, Call(c) \/ Return(c) \/ CloneHandle(c) \/ DropHandle(c)
      PROVE  Consumer'
  BY <1>7 DEF Call, Return, CloneHandle, DropHandle, OnlyRuntime, Runtime!Call, Runtime!Return
<1> QED BY <1>1, <1>2, <1>3, <1>4, <1>5, <1>6, <1>7 DEF Next

\* An error comes into the batch stream with a fault.
LEMMA StepBroken ==
    ASSUME Monitor!IInv, [Monitor!Next]_(Monitor!vars)
    PROVE  MonitorProofs!Broken' => MonitorProofs!Broken \/ faults' = faults + 1
<1>1. CASE MonitorProofs!SubscriptionFails
  BY <1>1 DEF MonitorProofs!SubscriptionFails, MonitorProofs!Fault
<1>2. CASE ~MonitorProofs!SubscriptionFails
  <2>1. MonitorProofs!IInv /\ [MonitorProofs!Next]_(MonitorProofs!vars)
    BY SameMonitorIInv, SameMonitorNext
  <2> QED BY <1>2, <2>1, ComponentAssumptions, MonitorProofs!StepErrors DEF MonitorProofs!IInv
<1> QED BY <1>1, <1>2

\* Faults are only counted up, and a batch of the monitor alone is changed.
LEMMA StepFaults ==
    ASSUME Monitor!IInv, [Monitor!Next]_(Monitor!vars)
    PROVE  /\ faults \in Nat /\ faults' \in Nat /\ faults <= faults'
           /\ Monitor!SendBatch \/ last' = last
<1> USE DEF Monitor!Fault, Monitor!output
<1>1. faults \in Nat
  BY WorkerAssumption DEF Monitor!IInv, Monitor!TypeOK
<1>2. CASE UNCHANGED Monitor!vars
  BY <1>1, <1>2 DEF Monitor!vars
<1>3. CASE Monitor!SendBatch
  BY <1>1, <1>3 DEF Monitor!SendBatch
<1>4. CASE Monitor!SubscribeFails
  BY <1>1, <1>4 DEF Monitor!SubscribeFails
<1>5. CASE \E q \in Monitor!Query : Monitor!Pull(q)
  BY <1>1, <1>5 DEF Monitor!Pull
<1>6. CASE \/ Monitor!New \/ Monitor!Subscribe \/ Monitor!CheckCommand
           \/ Monitor!EndOfStream \/ Monitor!StreamError \/ Monitor!DriverError
           \/ Monitor!Dial \/ Monitor!DialFails \/ Monitor!Join
           \/ Monitor!Close \/ Monitor!JoinLast
  <2>1. faults' = faults /\ last' = last
    BY <1>6 DEF Monitor!New, Monitor!Subscribe, Monitor!CheckCommand,
       Monitor!EndOfStream, Monitor!StreamError, Monitor!DriverError, Monitor!Dial,
       Monitor!DialFails, Monitor!Join, Monitor!Close, Monitor!JoinLast
  <2> QED BY <1>1, <2>1
<1>7. CASE Monitor!DriverStep
  BY <1>1, <1>7 DEF Monitor!DriverStep, Monitor!DriverRelays, Monitor!DriverCloses,
     Monitor!DriverFails, Monitor!DriverPanics
<1>8. CASE Monitor!Environment
  BY <1>1, <1>8 DEF Monitor!Environment, Monitor!CommitBlock, Monitor!CommitTx,
     Monitor!SubscriptionFails, Monitor!EndpointDown, Monitor!EndpointUp,
     Monitor!SendShutdown, Monitor!ConsumerDrops
<1> QED BY <1>2, <1>3, <1>7, <1>8, <1>4, <1>5, <1>6 DEF Monitor!Next, Monitor!MonitorStep

\* The backlog stays within its bound as long as it does not grow.
LEMMA QuietBacklog ==
    ASSUME Monitor!IInv, Backlog, [Monitor!Next]_(Monitor!vars),
           inbox' \in Nat, inbox' <= inbox, last' = last
    PROVE  Backlog'
<1>1. last.height \in Nat
  BY WorkerAssumption DEF Monitor!IInv, Monitor!TypeOK
<1>2. Erring' <= Erring \/ (Erring' <= Erring + 1 /\ faults' = faults + 1)
  BY StepBroken DEF Erring
<1>3. Erring \in Nat /\ Erring' \in Nat
  BY DEF Erring
<1> QED BY <1>1, <1>2, <1>3, StepFaults DEF Backlog

LEMMA HandOverBacklog ==
    ASSUME Monitor!IInv, Backlog, [Monitor!Next]_(Monitor!vars), HandOver, listening, Handed
    PROVE  Backlog'
<1>1. /\ last.height \in Nat /\ faults \in Nat /\ faults' \in Nat /\ faults <= faults'
      /\ inbox' = inbox + 1
  BY StepFaults, WorkerAssumption DEF HandOver, Monitor!IInv, Monitor!TypeOK
<1>2. outbuf \in Seq(Monitor!Result) /\ outbuf # <<>>
  BY DEF HandOver, Monitor!SendBatch, Monitor!StreamError, Monitor!IInv, Monitor!TypeOK
<1>3. 1 \in 1..Len(outbuf) /\ Head(outbuf) = outbuf[1]
  BY <1>2, TailElements
<1>4. CASE Monitor!SendBatch
  <2>1. Erring' <= Erring /\ faults' = faults
    <3>1. faults' = faults
      BY <1>4 DEF Monitor!SendBatch
    <3> QED BY <1>1, <3>1, StepBroken DEF Erring
  <2>2. last'.height \in Nat /\ last.height + 1 <= last'.height
    BY <1>4, BatchesGrow
  <2>3. Erring \in Nat /\ Erring' \in Nat
    BY DEF Erring
  <2> QED BY <1>1, <2>1, <2>2, <2>3 DEF Backlog
<1>5. CASE Monitor!StreamError
  <2>1. MonitorProofs!Broken
    BY <1>3, <1>5 DEF Monitor!StreamError, MonitorProofs!Broken, MonitorProofs!ErrorsIn,
                      MonitorProofs!SubErrors, Monitor!SubErrors
  <2>2. ~MonitorProofs!Broken'
    <3>1. outbuf' = <<>> /\ subs'["Tx"] = <<>> /\ subs'["NewBlock"] = <<>>
      BY <1>5 DEF Monitor!StreamError, Monitor!StartReconnect, Monitor!EmptySubs, Monitor!Query
    <3> QED BY <3>1 DEF MonitorProofs!Broken, MonitorProofs!ErrorsIn
  <2>3. last' = last
    BY <1>5 DEF Monitor!StreamError
  <2> QED BY <1>1, <2>1, <2>2, <2>3 DEF Backlog, Erring
<1> QED BY <1>4, <1>5 DEF HandOver

LEMMA StepBacklog == Monitor!IInv /\ WInv /\ [Next]_vars => Backlog'
<1> SUFFICES ASSUME Monitor!IInv, WInv, [Next]_vars PROVE Backlog'
  OBVIOUS
<1>1. Backlog /\ inbox \in Nat /\ [Monitor!Next]_(Monitor!vars)
  BY StepMonitor DEF WInv, Backlog
<1>2. CASE HandOver /\ listening /\ Handed
  BY <1>1, <1>2, HandOverBacklog
<1>3. ASSUME inbox' \in Nat, inbox' <= inbox, ~Monitor!SendBatch PROVE Backlog'
  BY <1>1, <1>3, StepFaults, QuietBacklog
<1>4. CASE HandOver /\ ~(listening /\ Handed)
  <2>1. inbox' = inbox
    BY <1>1, <1>4 DEF HandOver
  <2>2. last' = last
    BY <1>4 DEF HandOver, Handed, Monitor!SendBatch, Monitor!StreamError
  <2> QED BY <1>1, <2>1, <2>2, QuietBacklog
<1>5. CASE Bootstrap \/ SpawnReturns \/ UNCHANGED vars
  BY <1>1, <1>5, QuietBacklog DEF Bootstrap, SpawnReturns, vars
<1>6. CASE MonitorWorks \/ DriversEnd \/ Outside \/ \E q \in Monitor!Query : Pull(q)
  <2>1. inbox' = inbox
    BY <1>6 DEF MonitorWorks, DriversEnd, Outside, Pull, OnlyMonitor
  <2>2. last' = last
    BY <1>6 DEF MonitorWorks, DriversEnd, Outside, Pull, Monitor!output, Monitor!New,
       Monitor!Subscribe, Monitor!SubscribeFails, Monitor!CheckCommand, Monitor!Pull,
       Monitor!EndOfStream, Monitor!DriverError, Monitor!Dial, Monitor!DialFails,
       Monitor!Join, Monitor!Close, Monitor!JoinLast, Monitor!DriverRelays,
       Monitor!DriverCloses, Monitor!DriverFails, Monitor!DriverPanics,
       Monitor!CommitBlock, Monitor!CommitTx, Monitor!SubscriptionFails,
       Monitor!EndpointDown, Monitor!EndpointUp
  <2> QED BY <1>1, <2>1, <2>2, QuietBacklog
<1>7. CASE DiscardBatch
  BY <1>1, <1>7, QuietBacklog DEF DiscardBatch, OnlyRuntime, Runtime!DiscardBatch
<1>8. CASE EventsClosed \/ TakeRequest \/ ChainAnswers \/ ReplyToShutdown
  <2>1. last' = last /\ inbox' = inbox
    BY <1>8 DEF EventsClosed, TakeRequest, ChainAnswers, ReplyToShutdown, OnlyRuntime,
       Runtime!EventsClosed, Runtime!TakeRequest, Runtime!ReplyToSend,
       Runtime!ChainPanics, Runtime!ReplyToShutdown, Runtime!events
  <2> QED BY <1>1, <2>1, QuietBacklog
<1>9. CASE TellMonitor
  <2>1. last' = last /\ inbox' = inbox
    BY <1>9 DEF TellMonitor, Runtime!TellMonitor, Monitor!SendShutdown, Monitor!output
  <2> QED BY <1>1, <2>1, QuietBacklog
<1>10. CASE DropRuntime
  <2>1. last' = last /\ inbox' = 0
    BY <1>10 DEF DropRuntime, Runtime!DropRuntime, Monitor!ConsumerDrops
  <2> QED BY <1>1, <2>1, QuietBacklog
<1>11. ASSUME NEW c \in Client, Call(c) \/ Return(c) \/ CloneHandle(c) \/ DropHandle(c)
       PROVE  Backlog'
  <2>1. last' = last /\ inbox' = inbox
    BY <1>11 DEF Call, Return, CloneHandle, DropHandle, OnlyRuntime, Runtime!Call,
                 Runtime!Return, Runtime!events
  <2> QED BY <1>1, <2>1, QuietBacklog
<1> QED BY <1>2, <1>4, <1>5, <1>6, <1>7, <1>8, <1>9, <1>10, <1>11 DEF Next

LEMMA InitWInv == Init => WInv
<1> SUFFICES ASSUME Init PROVE WInv
  OBVIOUS
<1>1. Holders /\ Consumer
  BY DEF Init, Runtime!Init, Monitor!Init, Holders, Consumer
<1>2. ~MonitorProofs!Broken
  BY DEF Init, Monitor!Init, Monitor!EmptySubs, Monitor!Query,
         MonitorProofs!Broken, MonitorProofs!ErrorsIn
<1>3. inbox = 0 /\ last.height = 0 /\ faults = 0
  BY DEF Init, Runtime!Init, Monitor!Init, Monitor!NoBlock
<1> QED BY <1>1, <1>2, <1>3 DEF WInv, Backlog, Erring

LEMMA WInvHolds == Spec => []WInv
<1>1. Monitor!IInv /\ WInv /\ [Next]_vars => WInv'
  BY StepHolders, StepConsumer, StepBacklog DEF WInv
<1> QED BY <1>1, InitWInv, MonitorIInvHolds, PTL DEF Spec

--------------------------------------------------------------------------------
(***************************************************************************)
(* What the worker promises.                                               *)
(***************************************************************************)

\* Joined to the event monitor, with whatever faults, the runtime behaves as it
\* does with the monitor that ChainRuntime makes up.
THEOREM RuntimeRefined == Spec => RuntimeSpec
<1>1. Init => Runtime!Init
  BY DEF Init
<1> QED BY <1>1, StepRuntime, WInvHolds, MonitorIInvHolds, PTL
        DEF Spec, RuntimeSpec, Runtime!Spec

LEMMA SameRuntimeInit == RuntimeProofs!Init <=> Runtime!Init
  BY DEF RuntimeProofs!Init, Runtime!Init

LEMMA SameRuntimeNext ==
    [RuntimeProofs!Next]_(RuntimeProofs!vars) <=> [Runtime!Next]_(Runtime!vars)
  BY DEF RuntimeProofs!Call, RuntimeProofs!Return, RuntimeProofs!DiscardBatch,
         RuntimeProofs!EventsClosed, RuntimeProofs!TakeRequest,
         RuntimeProofs!ReplyToSend, RuntimeProofs!ChainPanics,
         RuntimeProofs!TellMonitor, RuntimeProofs!ReplyToShutdown,
         RuntimeProofs!DropRuntime, RuntimeProofs!SendBatch, RuntimeProofs!MonitorEnds,
         RuntimeProofs!RuntimeStep, RuntimeProofs!MonitorStep, RuntimeProofs!Next,
         RuntimeProofs!vars, RuntimeProofs!clients, RuntimeProofs!events,
         RuntimeProofs!Operation, RuntimeProofs!Replied, RuntimeProofs!Queued,
         Runtime!Call, Runtime!Return, Runtime!DiscardBatch, Runtime!EventsClosed,
         Runtime!TakeRequest, Runtime!ReplyToSend, Runtime!ChainPanics,
         Runtime!TellMonitor, Runtime!ReplyToShutdown, Runtime!DropRuntime,
         Runtime!SendBatch, Runtime!MonitorEnds, Runtime!RuntimeStep,
         Runtime!MonitorStep, Runtime!Next, Runtime!vars, Runtime!clients,
         Runtime!events, Runtime!Operation, Runtime!Replied, Runtime!Queued

LEMMA SameRuntimeSpec == RuntimeProofs!Spec <=> Runtime!Spec
  BY SameRuntimeInit, SameRuntimeNext, PTL DEF RuntimeProofs!Spec, Runtime!Spec

LEMMA SameRuntimeProperties ==
    /\ RuntimeProofs!TypeOK <=> Runtime!TypeOK
    /\ RuntimeProofs!Accounted <=> Runtime!Accounted
    /\ RuntimeProofs!MonitorNotOrphaned <=> Runtime!MonitorNotOrphaned
<1>1. RuntimeProofs!TypeOK <=> Runtime!TypeOK
  BY DEF RuntimeProofs!TypeOK, RuntimeProofs!RuntimePC, RuntimeProofs!Operation,
         Runtime!TypeOK, Runtime!RuntimePC, Runtime!Operation
<1>2. ASSUME NEW S PROVE RuntimeProofs!Cardinality(S) = Runtime!Cardinality(S)
  BY DEF RuntimeProofs!Cardinality, Runtime!Cardinality
<1>3. \A c : /\ RuntimeProofs!Serving(c) <=> Runtime!Serving(c)
            /\ RuntimeProofs!Places(c) = Runtime!Places(c)
  BY DEF RuntimeProofs!Serving, RuntimeProofs!Places, Runtime!Serving, Runtime!Places
<1>4. RuntimeProofs!Accounted <=> Runtime!Accounted
  BY <1>2, <1>3 DEF RuntimeProofs!Accounted, Runtime!Accounted
<1>5. RuntimeProofs!MonitorNotOrphaned <=> Runtime!MonitorNotOrphaned
  BY DEF RuntimeProofs!MonitorNotOrphaned, Runtime!MonitorNotOrphaned
<1> QED BY <1>1, <1>4, <1>5

LEMMA SameService == RuntimeProofs!ServiceSpec <=> Runtime!ServiceSpec
<1>1. RuntimeProofs!Service!Init <=> Runtime!Service!Init
  BY DEF RuntimeProofs!Open, Runtime!Open, RuntimeProofs!Service!Init,
         Runtime!Service!Init
<1>2. [RuntimeProofs!Service!Next]_(RuntimeProofs!Service!service)
        <=> [Runtime!Service!Next]_(Runtime!Service!service)
  BY DEF RuntimeProofs!Open, Runtime!Open, RuntimeProofs!Service!Next,
         RuntimeProofs!Service!Invoke, RuntimeProofs!Service!Perform,
         RuntimeProofs!Service!Close, RuntimeProofs!Service!Answer,
         RuntimeProofs!Service!Refuse, RuntimeProofs!Service!service,
         RuntimeProofs!Service!This, RuntimeProofs!Service!Reached,
         RuntimeProofs!Service!Operation, Runtime!Service!Next, Runtime!Service!Invoke,
         Runtime!Service!Perform, Runtime!Service!Close, Runtime!Service!Answer,
         Runtime!Service!Refuse, Runtime!Service!service, Runtime!Service!This,
         Runtime!Service!Reached, Runtime!Service!Operation
<1> QED
  BY <1>1, <1>2, PTL DEF RuntimeProofs!ServiceSpec, RuntimeProofs!Service!Spec,
                         Runtime!ServiceSpec, Runtime!Service!Spec

\* In the worker, too, the handle keeps its promise, every call is accounted for
\* and performed in its order, nobody waits for a runtime that has nothing to do,
\* and a runtime that ends has not left its monitor behind.
THEOREM RuntimePromises ==
    Spec => /\ Runtime!ServiceSpec
            /\ [](Runtime!Accounted /\ Runtime!MonitorNotOrphaned)
            /\ [](RuntimeProofs!LogInOrder /\ RuntimeProofs!SomebodyActs)
<1>1. RuntimeProofs!Spec =>
        /\ RuntimeProofs!ServiceSpec
        /\ []RuntimeProofs!Accounted /\ []RuntimeProofs!MonitorNotOrphaned
        /\ []RuntimeProofs!LogInOrder /\ []RuntimeProofs!SomebodyActs
  BY ComponentAssumptions, RuntimeProofs!ServiceHolds, RuntimeProofs!EveryCallAccounted,
     RuntimeProofs!MonitorToldOrEnded, RuntimeProofs!PerformedInOrder,
     RuntimeProofs!NobodyWaitsInVain, PTL
<1> QED BY <1>1, RuntimeRefined, SameRuntimeSpec, SameRuntimeProperties, SameService, PTL
        DEF RuntimeSpec

\* The variables of both components keep their types, and nobody has a handle
\* before spawn has returned one.
THEOREM TypesHold == Spec => []TypeOK
<1>1. Spec => []RuntimeProofs!TypeOK
  BY ComponentAssumptions, RuntimeProofs!TypesHold, RuntimeRefined, SameRuntimeSpec, PTL
  DEF RuntimeSpec
<1>2. RuntimeProofs!TypeOK /\ WInv /\ Monitor!IInv => TypeOK
  BY SameRuntimeProperties DEF WInv, Holders, TypeOK, Monitor!IInv
<1> QED BY <1>1, <1>2, WInvHolds, MonitorIInvHolds, PTL

(***************************************************************************)
(* Out of reach.                                                           *)
(***************************************************************************)

\* Without a handle nobody is queued at the runtime, for who is queued waits.
LEMMA NobodyQueued ==
    ASSUME RuntimeProofs!IInv, Holders, handles = {}
    PROVE  requests = <<>>
<1>1. \A i \in 1..Len(requests) : requests[i] \in waiting
  BY DEF RuntimeProofs!IInv, RuntimeProofs!QInv, RuntimeProofs!QueuedRight
<1>2. waiting = {} /\ requests \in Seq(Client)
  BY DEF Holders, RuntimeProofs!IInv, RuntimeProofs!TypeOK
<1> QED BY <1>1, <1>2

\* Once the monitor is out of reach, it stays so.
LEMMA StepOutOfReach ==
    ASSUME RuntimeProofs!IInv, Holders, OutOfReach, [Next]_vars
    PROVE  OutOfReach'
<1>1. handles = {} => requests = <<>> /\ waiting = {}
  BY NobodyQueued DEF Holders
<1>2. /\ spawn = "done" /\ cmd = "none"
      /\ runtime \in {"leaving", "gone"} \/ (handles = {} /\ runtime = "select")
  BY DEF OutOfReach
<1>3. CASE Bootstrap \/ SpawnReturns \/ UNCHANGED vars
  BY <1>2, <1>3 DEF Bootstrap, SpawnReturns, vars, OutOfReach
<1>4. ASSUME HandOver \/ MonitorWorks \/ DriversEnd \/ Outside
             \/ \E q \in Monitor!Query : Pull(q)
      PROVE  OutOfReach'
  <2>1. UNCHANGED <<spawn, handles, runtime>>
    BY <1>4 DEF HandOver, MonitorWorks, DriversEnd, Outside, Pull, OnlyMonitor
  <2>2. CASE HandOver \/ MonitorWorks \/ \E q \in Monitor!Query : Pull(q)
    <3>1. Monitor!MonitorStep
      BY <2>2 DEF HandOver, MonitorWorks, Pull, Monitor!MonitorStep
    <3> QED BY <1>2, <2>1, <3>1, MonitorLives DEF OutOfReach
  <2>3. CASE DriversEnd \/ Outside
    BY <1>2, <2>1, <2>3, OthersKeepControl DEF OutOfReach
  <2> QED BY <1>4, <2>2, <2>3
<1>5. CASE DiscardBatch \/ EventsClosed \/ TakeRequest \/ ChainAnswers \/ ReplyToShutdown
  BY <1>1, <1>2, <1>5
  DEF DiscardBatch, EventsClosed, TakeRequest, ChainAnswers, ReplyToShutdown, OnlyRuntime,
      Runtime!DiscardBatch, Runtime!EventsClosed, Runtime!TakeRequest, Runtime!ReplyToSend,
      Runtime!ChainPanics, Runtime!ReplyToShutdown, OutOfReach
<1>6. ~TellMonitor
  BY <1>2 DEF TellMonitor, Runtime!TellMonitor
<1>7. CASE DropRuntime
  BY <1>2, <1>7 DEF DropRuntime, Runtime!DropRuntime, Monitor!ConsumerDrops, Monitor!control,
                    OutOfReach
<1>8. ASSUME NEW c \in Client, Call(c) \/ Return(c) \/ CloneHandle(c) \/ DropHandle(c)
      PROVE  OutOfReach'
  BY <1>1, <1>2, <1>8 DEF Call, Return, CloneHandle, DropHandle, OnlyRuntime, Runtime!Call,
                     Runtime!Return, OutOfReach
<1> QED BY <1>3, <1>4, <1>5, <1>6, <1>7, <1>8 DEF Next

\* A monitor that no handle reaches any more is never stopped by anybody.
THEOREM NeverStoppedHolds == Spec => NeverStopped
<1>1. Spec => []RuntimeProofs!IInv
  BY ComponentAssumptions, RuntimeProofs!IInvHolds, RuntimeRefined, SameRuntimeSpec, PTL
  DEF RuntimeSpec
<1>2. RuntimeProofs!IInv /\ WInv /\ [Next]_vars => [OutOfReach => OutOfReach']_vars
  BY StepOutOfReach DEF WInv
<1> QED BY <1>1, <1>2, WInvHolds, PTL DEF Spec, NeverStopped
================================================================================
