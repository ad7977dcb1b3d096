------------------------------ MODULE EventMonitor ------------------------------
(***************************************************************************)
(* The event monitor of subscribe/monitor.rs: a thread that owns a         *)
(* WebSocket client, subscribes to the chain's events, groups them into    *)
(* batches and hands the batches to a consumer over a channel; a driver    *)
(* task per connection, which relays its error when it ends with one; and  *)
(* what surrounds them (the node, whoever sends commands, the consumer).   *)
(*                                                                         *)
(* The WebSocket client, its driver and the node are not in the            *)
(* repository: they are modelled from what the monitor does with them.     *)
(* Everything they may do wrong is a fault, drawn from FaultKinds and      *)
(* limited to MaxFaults, so that a run says which faults it covers.        *)
(***************************************************************************)
EXTENDS TryGroupWhile, FiniteSets

CONSTANTS
    MaxHeight,      \* bound: blocks the chain commits
    MaxFaults,      \* bound: faults in a behaviour
    MaxDelays,      \* delays of the reconnection strategy; 18 in the code
    FaultKinds      \* the faults that may happen

AllFaults ==
    { "driver",     \* a driver's connection breaks: its task ends with an error
      "panic",      \* a driver's task panics
      "endpoint",   \* the node refuses connections for a while
      "subscribe",  \* the node rejects one subscription
      "cancelled",  \* a subscription stream yields "subscription cancelled"
      "generic",    \* a subscription stream yields another error
      "malformed",  \* a NewBlock event arrives without its attribute map
      "poison",     \* a Tx event the handler cannot destructure
      "consumer" }  \* the consumer drops its receiver

ASSUME ConstantsAssumption ==
    /\ MaxHeight \in Nat /\ MaxFaults \in Nat /\ MaxDelays \in Nat
    /\ FaultKinds \subseteq AllFaults

VARIABLES
    pc,         \* where the monitor's thread is
    cmd,        \* the Shutdown command in rx_cmd: "none", "sent" or "taken"
    drivers,    \* one status per connection dialled; the last one is `client`
    errs,       \* rx_err: the connections whose error waits there
    nsub,       \* how many of the queries `client` is subscribed to
    subs,       \* per query, the items waiting in its subscription
    pend,       \* the group that try_group_while has open
    outbuf,     \* what it has yielded and the loop has not yet taken
    tries,      \* delays the running reconnection has left
    gaveUp,     \* whether the latest reconnection ran out of delays
    listening,  \* whether the consumer still holds its receiver
    last,       \* the last batch sent: its height and its connection
    noticed,    \* whether an error was sent since then
    height,     \* the node's latest block
    malformed,  \* the heights whose NewBlock event was malformed
    up,         \* whether the node accepts connections
    faults      \* faults so far

control == <<pc, cmd, tries, gaveUp>>
stream  == <<nsub, subs, pend, outbuf>>
output  == <<listening, last, noticed>>
node    == <<height, malformed, up>>
vars    == <<control, drivers, errs, stream, output, node, faults>>

--------------------------------------------------------------------------------
EventQueries == <<"Tx", "NewBlock">>
Query        == {"Tx", "NewBlock"}

\* What an item turns into in collect_events: a block becomes an event; a
\* silent item becomes none (every Tx, and a NewBlock whose extraction fails);
\* poison makes the extraction panic; the others are the stream's errors.
SubErrors == {"cancelled", "generic"}
ItemKind  == {"block", "silent", "poison"} \cup SubErrors

Item(kind, h, c) == [kind |-> kind, height |-> h, conn |-> c]
NoBlock          == [height |-> 0, conn |-> 0]

MonitorPC    == {"new", "subscribe", "top", "select", "dial", "join",
                 "close", "joinlast", "failed", "stopped", "panicked"}
DriverStatus == {"running", "closing", "failing", "done", "panicked"}

Current       == Len(drivers)
InLoop        == pc \in {"top", "select"}
Alive         == pc \notin {"failed", "stopped", "panicked"}
Ended(c)      == drivers[c] \in {"done", "panicked"}
Subscribed(q) == \E i \in 1..nsub : EventQueries[i] = q
Running       == Current > 0 /\ drivers[Current] = "running"
Streaming     == InLoop /\ Running /\ nsub = 2

EmptySubs == [q \in Query |-> <<>>]

Init ==
    /\ pc = "new" /\ cmd = "none" /\ tries = 0 /\ gaveUp = FALSE
    /\ drivers = <<>> /\ errs = <<>>
    /\ nsub = 0 /\ subs = EmptySubs /\ pend = <<>> /\ outbuf = <<>>
    /\ listening = TRUE /\ last = NoBlock /\ noticed = FALSE
    /\ height = 0 /\ malformed = {} /\ up = TRUE
    /\ faults = 0

Fault(kind) ==
    /\ kind \in FaultKinds
    /\ faults < MaxFaults
    /\ faults' = faults + 1

--------------------------------------------------------------------------------
(***************************************************************************)
(* Starting: `new`, then `subscribe` by the owner, then `run`.             *)
(***************************************************************************)
New ==
    /\ pc = "new"
    /\ IF up
       THEN drivers' = <<"running">> /\ pc' = "subscribe"
       ELSE pc' = "failed" /\ UNCHANGED drivers
    /\ UNCHANGED <<cmd, tries, gaveUp, errs, stream, output, node, faults>>

\* Deviations of RetryOrGiveUp: no end of attempts; and no second attempt.
RetryForEver  == tries' = tries - 1 /\ pc' = "dial" /\ UNCHANGED gaveUp
NoSecondTry   == pc' = "top" /\ gaveUp' = TRUE /\ UNCHANGED tries

\* Another attempt while the strategy has delays; else `reconnect` only logs,
\* and run_loop starts again on the empty stream it left in `subscriptions`.
RetryOrGiveUp ==
    IF tries > 0
    THEN tries' = tries - 1 /\ pc' = "dial" /\ UNCHANGED gaveUp
    ELSE pc' = "top" /\ gaveUp' = TRUE /\ UNCHANGED tries

\* One query of `subscribe`.  The last one makes the combined stream, which
\* run_loop takes over.
Subscribe ==
    /\ pc = "subscribe" /\ Running
    /\ nsub' = nsub + 1
    /\ IF nsub' = Len(EventQueries)
       THEN pc' = "top" /\ gaveUp' = FALSE
       ELSE UNCHANGED <<pc, gaveUp>>
    /\ UNCHANGED <<cmd, tries, drivers, errs, subs, pend, outbuf, output, node, faults>>

\* One query fails: the node rejects it or the driver is gone.  The streams
\* already obtained are dropped.  At the start the error goes to the owner.
SubscribeFails ==
    /\ pc = "subscribe"
    /\ IF Running THEN Fault("subscribe") ELSE UNCHANGED faults
    /\ IF Current = 1
       THEN pc' = "failed" /\ UNCHANGED <<tries, gaveUp>>
       ELSE RetryOrGiveUp
    /\ nsub' = 0 /\ subs' = EmptySubs
    /\ UNCHANGED <<cmd, drivers, errs, pend, outbuf, output, node>>

--------------------------------------------------------------------------------
(***************************************************************************)
(* The loop: run_loop.  Commands are looked at only here, before the       *)
(* thread blocks in select!.                                               *)
(***************************************************************************)
\* Deviation: the command is taken and forgotten.
CheckCommandForgets ==
    /\ pc = "top"
    /\ cmd' = (IF cmd = "sent" THEN "taken" ELSE cmd) /\ pc' = "select"
    /\ UNCHANGED <<tries, gaveUp, drivers, errs, stream, output, node, faults>>

CheckCommand ==
    /\ pc = "top"
    /\ IF cmd = "sent"
       THEN /\ cmd' = "taken" /\ pc' = "close"
            /\ nsub' = 0 /\ subs' = EmptySubs /\ pend' = <<>> /\ outbuf' = <<>>
       ELSE pc' = "select" /\ UNCHANGED <<cmd, stream>>
    /\ UNCHANGED <<tries, gaveUp, drivers, errs, output, node, faults>>

\* The batch stream takes the next item of one subscription (they are merged
\* in no fixed order) and works until it has something to yield.
Pull(q) ==
    /\ pc = "select" /\ outbuf = <<>> /\ subs[q] # <<>>
    /\ subs' = [subs EXCEPT ![q] = Tail(@)]
    /\ LET item == Head(subs[q])
           e    == [height |-> item.height, conn |-> item.conn]
       IN \/ /\ item.kind = "block"
             /\ pend' = PendingAfterItem(pend, e)
             /\ outbuf' = YieldedOnItem(pend, e)
             /\ UNCHANGED pc
          \/ item.kind = "silent" /\ UNCHANGED <<pc, pend, outbuf>>
          \/ item.kind = "poison" /\ pc' = "panicked" /\ UNCHANGED <<pend, outbuf>>
          \/ /\ item.kind \in SubErrors
             /\ pend' = <<>>
             /\ outbuf' = YieldedOnError(pend, item.kind)
             /\ UNCHANGED pc
    /\ UNCHANGED <<cmd, tries, gaveUp, drivers, errs, nsub, output, node, faults>>

\* Every subscription has ended (its driver is gone) and is drained: the open
\* group is yielded.
EndOfStream ==
    /\ pc = "select" /\ outbuf = <<>> /\ pend # <<>>
    /\ \A q \in Query : subs[q] = <<>>
    /\ drivers[Current] \notin {"running", "closing"}
    /\ pend' = <<>> /\ outbuf' = YieldedAtEnd(pend)
    /\ UNCHANGED <<control, drivers, errs, nsub, subs, output, node, faults>>

\* Ok(batch): process_batch sends it; a missing receiver is only logged.
SendBatch ==
    /\ pc = "select" /\ outbuf # <<>> /\ Head(outbuf).kind = "group"
    /\ outbuf' = Tail(outbuf)
    /\ IF listening
       THEN last' = Head(outbuf).events[1] /\ noticed' = FALSE
       ELSE UNCHANGED <<last, noticed>>
    /\ pc' = "top"
    /\ UNCHANGED <<cmd, tries, gaveUp, drivers, errs, nsub, subs, pend, listening, node, faults>>

\* Deviation: the batch stream outlives the loop.
StartReconnectKeepingStream ==
    /\ pc' = "dial" /\ tries' = MaxDelays
    /\ nsub' = 0 /\ subs' = EmptySubs /\ UNCHANGED <<pend, outbuf>>

\* Leaving the loop to reconnect: the batch stream is never polled again, so
\* whatever it held is gone.
StartReconnect ==
    /\ pc' = "dial" /\ tries' = MaxDelays
    /\ nsub' = 0 /\ subs' = EmptySubs /\ pend' = <<>> /\ outbuf' = <<>>

\* Err from the batch stream.  Only a cancelled subscription is propagated.
StreamError ==
    /\ pc = "select" /\ outbuf # <<>> /\ Head(outbuf).kind \in SubErrors
    /\ noticed' = IF Head(outbuf).kind = "cancelled" /\ listening THEN TRUE ELSE noticed
    /\ StartReconnect
    /\ UNCHANGED <<cmd, gaveUp, drivers, errs, listening, last, node, faults>>

\* Deviation: the error is looked at, not taken.
DriverErrorPeeked ==
    /\ pc = "select" /\ errs # <<>>
    /\ StartReconnect
    /\ UNCHANGED <<cmd, gaveUp, drivers, errs, output, node, faults>>

\* Err from rx_err, whichever connection it came from; select! takes it even
\* when the batch stream is ready too.
DriverError ==
    /\ pc = "select" /\ errs # <<>>
    /\ errs' = Tail(errs)
    /\ StartReconnect
    /\ UNCHANGED <<cmd, gaveUp, drivers, output, node, faults>>

--------------------------------------------------------------------------------
(***************************************************************************)
(* Reconnecting: try_reconnect, then `subscribe` again.                    *)
(***************************************************************************)
\* client.close(): the driver is told to terminate, if it still runs.
Closing(c) == IF drivers[c] = "running" THEN "closing" ELSE drivers[c]

\* A new client, whose driver is spawned with the same tx_err; the previous
\* client is swapped out and closed.
Dial ==
    /\ pc = "dial" /\ up
    /\ drivers' = Append([drivers EXCEPT ![Current] = Closing(Current)], "running")
    /\ pc' = "join"
    /\ UNCHANGED <<cmd, tries, gaveUp, errs, stream, output, node, faults>>

DialFails ==
    /\ pc = "dial" /\ ~up
    /\ RetryOrGiveUp
    /\ UNCHANGED <<cmd, drivers, errs, stream, output, node, faults>>

\* Deviation: the previous driver is closed but not waited for.
JoinDetached ==
    /\ pc = "join"
    /\ pc' = "subscribe"
    /\ UNCHANGED <<cmd, tries, gaveUp, drivers, errs, stream, output, node, faults>>

\* block_on(driver_handle): a panicked task is a JoinError, and one more retry.
Join ==
    /\ pc = "join" /\ Ended(Current - 1)
    /\ IF drivers[Current - 1] = "done"
       THEN pc' = "subscribe" /\ UNCHANGED <<tries, gaveUp>>
       ELSE RetryOrGiveUp
    /\ UNCHANGED <<cmd, drivers, errs, stream, output, node, faults>>

(***************************************************************************)
(* Stopping: the end of `run`.                                             *)
(***************************************************************************)
Close ==
    /\ pc = "close"
    /\ drivers' = [drivers EXCEPT ![Current] = Closing(Current)]
    /\ pc' = "joinlast"
    /\ UNCHANGED <<cmd, tries, gaveUp, errs, stream, output, node, faults>>

JoinLast ==
    /\ pc = "joinlast" /\ Ended(Current)
    /\ pc' = "stopped"
    /\ UNCHANGED <<cmd, tries, gaveUp, drivers, errs, stream, output, node, faults>>

MonitorStep ==
    \/ New \/ Subscribe \/ SubscribeFails
    \/ CheckCommand \/ (\E q \in Query : Pull(q)) \/ EndOfStream
    \/ SendBatch \/ StreamError \/ DriverError
    \/ Dial \/ DialFails \/ Join
    \/ Close \/ JoinLast

--------------------------------------------------------------------------------
(***************************************************************************)
(* The driver task of connection c: run_driver around the client's driver. *)
(***************************************************************************)
DriverTo(c, from, to) ==
    /\ drivers[c] \in from
    /\ drivers' = [drivers EXCEPT ![c] = to]

\* driver.run() returns an error; its subscriptions end with it.
DriverFails(c) ==
    /\ DriverTo(c, {"running", "closing"}, "failing")
    /\ Fault("driver")
    /\ UNCHANGED <<control, errs, stream, output, node>>

\* Deviation: the driver's error is only logged.
DriverRelaysNothing(c) ==
    /\ DriverTo(c, {"failing"}, "done")
    /\ UNCHANGED <<control, errs, stream, output, node, faults>>

\* tx.send(e); with the monitor gone the error is only logged.
DriverRelays(c) ==
    /\ DriverTo(c, {"failing"}, "done")
    /\ errs' = IF Alive THEN Append(errs, c) ELSE errs
    /\ UNCHANGED <<control, stream, output, node, faults>>

\* driver.run() returns Ok after it was told to terminate.
DriverCloses(c) ==
    /\ DriverTo(c, {"closing"}, "done")
    /\ UNCHANGED <<control, errs, stream, output, node, faults>>

DriverPanics(c) ==
    /\ DriverTo(c, {"running", "closing"}, "panicked")
    /\ Fault("panic")
    /\ UNCHANGED <<control, errs, stream, output, node>>

DriverStep == \E c \in 1..Current :
    DriverFails(c) \/ DriverRelays(c) \/ DriverCloses(c) \/ DriverPanics(c)

--------------------------------------------------------------------------------
(***************************************************************************)
(* The node, the commander and the consumer.                               *)
(***************************************************************************)
\* What the node publishes reaches a subscription of a running connection.
Publish(q, item) ==
    subs' = IF Running /\ Subscribed(q)
            THEN [subs EXCEPT ![q] = Append(@, item)]
            ELSE subs

CommitBlock ==
    /\ height < MaxHeight
    /\ height' = height + 1
    /\ \/ Publish("NewBlock", Item("block", height', Current)) /\ UNCHANGED <<malformed, faults>>
       \/ /\ Fault("malformed")
          /\ Publish("NewBlock", Item("silent", height', Current))
          /\ malformed' = malformed \cup {height'}
    /\ UNCHANGED <<control, drivers, errs, nsub, pend, outbuf, output, up>>

\* Bound: one transaction waits at a time.
CommitTx ==
    /\ Running /\ Subscribed("Tx") /\ subs["Tx"] = <<>>
    /\ \/ Publish("Tx", Item("silent", 0, Current)) /\ UNCHANGED faults
       \/ Fault("poison") /\ Publish("Tx", Item("poison", 0, Current))
    /\ UNCHANGED <<control, drivers, errs, nsub, pend, outbuf, output, node>>

SubscriptionFails == \E q \in Query, kind \in SubErrors :
    /\ Running /\ Subscribed(q)
    /\ Fault(kind)
    /\ Publish(q, Item(kind, 0, Current))
    /\ UNCHANGED <<control, drivers, errs, nsub, pend, outbuf, output, node>>

EndpointDown ==
    /\ up /\ up' = FALSE
    /\ Fault("endpoint")
    /\ UNCHANGED <<control, drivers, errs, stream, output, height, malformed>>

EndpointUp ==
    /\ ~up /\ up' = TRUE
    /\ UNCHANGED <<control, drivers, errs, stream, output, height, malformed, faults>>

SendShutdown ==
    /\ pc # "new" /\ Alive /\ cmd = "none"
    /\ cmd' = "sent"
    /\ UNCHANGED <<pc, tries, gaveUp, drivers, errs, stream, output, node, faults>>

ConsumerDrops ==
    /\ listening /\ listening' = FALSE
    /\ Fault("consumer")
    /\ UNCHANGED <<control, drivers, errs, stream, last, noticed, node>>

Environment ==
    \/ CommitBlock \/ CommitTx \/ SubscriptionFails
    \/ EndpointDown \/ EndpointUp \/ SendShutdown \/ ConsumerDrops

Next == MonitorStep \/ DriverStep \/ Environment

Spec == Init /\ [][Next]_vars

--------------------------------------------------------------------------------
(***************************************************************************)
(* Fairness.  The monitor's thread and the driver tasks are scheduled by   *)
(* the OS and tokio, and SelectAll polls every ready subscription; the     *)
(* node that stopped accepting connections accepts them again.  No fault,  *)
(* block or command has to happen.                                         *)
(***************************************************************************)
MonitorBusy ==
    \/ New \/ Subscribe \/ SubscribeFails \/ CheckCommand \/ EndOfStream
    \/ SendBatch \/ StreamError \/ DriverError
    \/ Dial \/ DialFails \/ Join \/ Close \/ JoinLast

Fairness ==
    /\ WF_vars(MonitorBusy)
    /\ \A q \in Query : WF_vars(Pull(q))
    /\ WF_vars(\E c \in 1..Current : DriverRelays(c) \/ DriverCloses(c))
    /\ WF_vars(EndpointUp)

FairSpec == Spec /\ Fairness
--------------------------------------------------------------------------------
(***************************************************************************)
(* Properties                                                              *)
(***************************************************************************)
Items  == {r \in [kind : ItemKind, height : 0..MaxHeight, conn : Nat] :
              r.kind = "block" => r.height > 0 /\ r.conn > 0}
Block  == [height : 1..MaxHeight, conn : Nat \ {0}]
Result == {r \in [kind : {"group"} \cup SubErrors, events : Seq(Block)] :
              r.kind = "group" <=> r.events # <<>>}

\* The variables keep their types, and the bounds of the model hold.
TypeOK ==
    /\ pc \in MonitorPC /\ cmd \in {"none", "sent", "taken"}
    /\ tries \in 0..MaxDelays /\ gaveUp \in BOOLEAN
    /\ drivers \in Seq(DriverStatus) /\ errs \in Seq(Nat)
    /\ nsub \in 0..Len(EventQueries)
    /\ subs \in [Query -> Seq(Items)]
    /\ pend \in Seq(Block) /\ outbuf \in Seq(Result)
    /\ listening \in BOOLEAN /\ noticed \in BOOLEAN
    /\ last \in [height : 0..MaxHeight, conn : Nat]
    /\ height \in 0..MaxHeight /\ malformed \subseteq 1..MaxHeight
    /\ up \in BOOLEAN /\ faults \in 0..MaxFaults

\* The consumer is handed blocks in the chain's order, each at most once,
\* and without a gap within a connection, whatever becomes of the groups that
\* try_group_while holds back across errors, ends and reconnections.
Feed     == INSTANCE BlockFeed WITH session <- Current
FeedSpec == Feed!Spec

\* A fault costs at most two reconnections.  Two, because a connection that
\* breaks while the monitor is already replacing it leaves its error in the
\* rx_err shared by all connections, where it makes the monitor throw away the
\* healthy connection that followed.
ReconnectionsBounded == Current <= 1 + 2 * faults

\* Reconnecting joins the driver it replaces and stopping joins the last one:
\* no driver but the current one (and the one being joined) is still running.
NoLeakedDriver ==
    \A c \in 1..Current : ~Ended(c) =>
        \/ c = Current /\ pc # "stopped"
        \/ c = Current - 1 /\ pc = "join"

\* The monitor blocks in select! on a connection that is gone, with nothing
\* left to wake it up, only when a reconnection ran out of delays or the
\* driver panicked (a panic is never relayed to rx_err).
Idle == pc = "select" /\ outbuf = <<>> /\ errs = <<>> /\ \A q \in Query : subs[q] = <<>>
WedgedOnlyAfterGivingUp ==
    Idle /\ Ended(Current) => gaveUp \/ drivers[Current] = "panicked"

\* After any failure of a connection or of a subscription the monitor streams
\* again, unless its thread ended; it stops trying only after a panic of the
\* driver, which nobody reports, or after the last delay of the strategy.
OutOfDelays    == gaveUp /\ tries = 0
DriverPanicked == Current > 0 /\ drivers[Current] = "panicked"
Recovers == ~Streaming ~> Streaming \/ ~Alive \/ OutOfDelays \/ DriverPanicked

\* A Shutdown command is obeyed unless the select! the monitor is in never
\* completes again: commands are polled only between two of its results.
ShutdownObeyedUnlessBlocked ==
    cmd = "sent" ~> ~Alive \/ [](cmd = "sent" /\ pc = "select")

\* A block whose successor has arrived on the same connection reaches the
\* consumer unless the monitor leaves the loop or has an error of a driver to
\* attend to, or nobody listens.
Waiting(h) == \E i \in 1..Len(subs["NewBlock"]) :
                 subs["NewBlock"][i].kind = "block" /\ subs["NewBlock"][i].height = h
BlocksArrive ==
    \A h \in 1..MaxHeight - 1 :
        Waiting(h) /\ Waiting(h + 1) ~> last.height >= h \/ ~InLoop \/ ~listening

\* The doc of propagate_error: subscribers get the error "to notice that the
\* WebSocket connection or subscription has been closed ... as this typically
\* means that we have missed a bunch of events".
GapsAreNoticed ==
    [][last'.height > last.height + 1 /\ last.height > 0 => noticed]_vars

\* The comment of `run`: "when it aborts because of WebSocket client restart,
\* we pick up the work again"; so, with the node reachable for good, the
\* monitor is streaming again and again, or its thread ended.
PicksUpTheWork == <>[]up => []<>(Streaming \/ ~Alive)
--------------------------------------------------------------------------------
(***************************************************************************)
(* The inductive invariant behind FeedSpec and NoLeakedDriver.             *)
(***************************************************************************)
\* A block is in flight when it waits in the subscription, in the open group
\* or among the yielded batches.
Height      == 0..MaxHeight
Queue       == subs["NewBlock"]
InQueue(h)  == \E i \in 1..Len(Queue) : Queue[i].kind = "block" /\ Queue[i].height = h
InPend(h)   == pend # <<>> /\ pend[1].height = h
InOut(h)    == outbuf # <<>> /\ outbuf[1].kind = "group" /\ outbuf[1].events[1].height = h
InFlight(h) == InQueue(h) \/ InPend(h) \/ InOut(h)

\* Outside the loop nothing is in flight, and a subscription is young: the
\* consumer has not heard from its connection.
Phases ==
    /\ pc = "new" => drivers = <<>>
    /\ pc \notin {"new", "failed"} => Current >= 1
    /\ pc = "join" => Current >= 2
    /\ nsub = 2 => pc \in {"top", "select", "panicked"}
    /\ InLoop => nsub # 1
    /\ pc \in {"new", "dial", "join", "close", "joinlast"} => nsub = 0
    /\ nsub # 2 => Queue = <<>> /\ pend = <<>> /\ outbuf = <<>>
    /\ nsub = 0 => subs["Tx"] = <<>>

\* Blocks come from one subscription only.
TxHasNoBlock == \A i \in 1..Len(subs["Tx"]) : subs["Tx"][i].kind # "block"

\* A group is one block: the NewBlock events of a connection have pairwise
\* different heights and no other event survives the extraction.
Singletons ==
    /\ Len(pend) <= 1
    /\ pend # <<>> => pend[1].conn = Current
    /\ \A i \in 1..Len(outbuf) : outbuf[i].kind = "group" =>
         i = 1 /\ Len(outbuf[i].events) = 1 /\ outbuf[i].events[1].conn = Current
    /\ \A i \in 1..Len(Queue) : Queue[i].kind = "block" => Queue[i].conn = Current
    /\ last.conn <= Current
    /\ pc \in {"join", "subscribe"} => last.conn < Current

\* What is in flight is ordered as it will come out, above the last batch.
Ordered ==
    /\ \A h \in Height : InFlight(h) => last.height < h /\ h <= height
    /\ \A i, j \in 1..Len(Queue) :
         i < j /\ Queue[i].kind = "block" /\ Queue[j].kind = "block"
           => Queue[i].height < Queue[j].height
    /\ \A h, k \in Height : InPend(h) /\ InQueue(k) => h < k
    /\ \A h, k \in Height : InOut(h) /\ (InPend(k) \/ InQueue(k)) => h < k
    /\ last.height <= height

\* A block is due when the consumer has, or will get, an earlier one of the
\* same connection.
Due(g) == \/ listening /\ last.conn = Current /\ last.height < g
          \/ \E h \in Height : h < g /\ InFlight(h)

\* Whatever is due before a block in flight is in flight or malformed; while
\* the subscription lives, so is whatever is due up to the chain's height.
Gapless ==
    /\ \A g, k \in Height : InFlight(k) /\ g < k /\ Due(g) => g \in malformed \/ InFlight(g)
    /\ Running /\ nsub = 2 =>
         \A g \in Height : g <= height /\ Due(g) => g \in malformed \/ InFlight(g)

\* Every driver before the current one has been joined.
Joined ==
    /\ \A c \in 1..Current : c < Current /\ (pc = "join" => c < Current - 1) => Ended(c)
    /\ pc = "stopped" => Ended(Current)

IInv == TypeOK /\ Phases /\ TxHasNoBlock /\ Singletons /\ Ordered /\ Gapless /\ Joined
================================================================================
