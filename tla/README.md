# TLA+ models of the off-chain worker

This directory models the off-chain worker for Cosmos chains: TLA+ modules for
its concurrent and stateful parts, TLC configurations that check them on small
instances, and theorems checked by TLAPS. Paths below are relative to the
repository's `src/` unless they name a file of this directory.

    tlc -config EventMonitorSafety.cfg MCEventMonitor.tla     # any run of PROJECT.json
    tlapm EventMonitorProofs.tla                              # the proofs

`PROJECT.json` lists the runs, the lines each definition stands for, the hazards
with the properties that watch them, the findings, and for every property a
deviation of the code (operators commented "Deviation") that breaks it.

## 1. The system

A worker subscribes to the events of a chain and sends transactions to it.

| part | state | operations | talks to |
|---|---|---|---|
| **Event monitor** `subscribe/monitor.rs` | a WebSocket client and its driver task, the subscriptions, `rx_err`, `rx_cmd`, the batch stream | `new`, `subscribe`, `run`, reconnect, shut down | node (WebSocket), driver tasks (`tx_err`), consumer (`tx_batch`), commander (`rx_cmd`) |
| **Grouping** `util/stream.rs` | the open group | `try_group_while` | is the monitor's batch stream |
| **Extraction** `subscribe/transform.rs` | none | `extract_rpc_event` | called on every event |
| **Event bus** `subscribe/bus.rs` | a list of senders | `subscribe`, `broadcast` | subscribers (one channel each) |
| **Chain runtime** `chain/runtime.rs` | the chain, the request channel, the receiver of batches, the monitor's command channel | `run`: a `select!` over batches and requests | handles, monitor, chain |
| **Chain handle** `chain/handle.rs`, `chain/handle/prod.rs` | a sender of requests | `shutdown`, `send_msgs` (blocking) | runtime |
| **Cosmos chain** `chain/cosmos.rs` | cached account, RPC and gRPC clients, key ring | `bootstrap`, `init_event_monitor`, `send_msgs`, `shutdown`, queries | node (RPC, gRPC), key ring |
| **Key ring** `keyring.rs` | keys in memory, or a folder of files | `get_key`, `add_key`, `keys`, `sign_msg` | disk |
| **Configuration** `config.rs` | a TOML file | `load`, `store` | disk |
| **Retry strategies** `util/retry.rs` | an iterator of delays | `clamp`, `clamp_total`, `ConstantGrowth` | used by monitor and chain |
| **Worker** `ChainRuntime::spawn`, `init_event_monitor` | the threads and handles of one chain | start, clone and drop of handles | puts the parts together |
| **Utilities** `util/diff.rs`, `util/recv_multiple.rs`, `util/iter.rs`, `util/block_on.rs` | none | - | not called |
| **Example** `bin/main.rs` | - | starts a monitor and drains it | monitor |
| **Protobuf types** `prost/` | - | generated | - |

Threads: each monitor is a thread, with one tokio task per connection; the
runtime is a thread; any number of threads hold handles. They share nothing but
channels, all unbounded except the one-place reply channels.

### What is hard

* **Reconnection.** The monitor replaces its client while the old driver still
  runs; every connection shares one error channel; commands are looked at only
  between results; after the last delay the loop restarts on an empty stream.
* **Grouping across failures.** The stream holds back the newest block; errors,
  ends and reconnections meet it with a group open.
* **The end of the runtime.** The monitor may end first, the chain may panic, a
  shutdown may race requests of other threads; callers block without timeout.
* **Transactions.** Sequence numbers are read from the last block while earlier
  transactions wait; calls fail half-way; the confirmation loop has its own
  idea of when it is done.
* **The bus.** Indices are collected, then used while the list shifts.
* **The files.** A key, or the configuration, is truncated before it is written; a
  transaction reads its key five times; several names share one file, and several
  threads may write it.
* **Extraction.** A node merges the attributes of all messages of a transaction;
  they are told apart by counting, and a miscount panics in the monitor's thread.
* **Limits.** Delays, gas and fees are cut off at limits in several places.

What makes each part correct: *monitor* - what the consumer gets is the chain's
blocks in order, without repetition and without a gap inside a connection; it
recovers when it can, can be stopped, and leaks no driver. *Runtime and handle* -
each call reaches the chain at most once, its answer says whether it did, every
call returns, and a shutdown shuts down runtime and monitor. *Chain* - no message
is lost or doubled by the cutting, and the answer agrees with what happened. *Key
ring and configuration* - what was stored is found, and one key signs a
transaction. *Worker* - with the real monitor the runtime keeps its promise, and a
shutdown reaches the monitor's thread.
*Bus* - a subscriber gets every broadcast from when it joined until it leaves.

## 2. Modules

    BlockFeed    <--implements--  EventMonitor  --extends-->  TryGroupWhile
    ChainService <--implements--  ChainRuntime
    Worker   composes  EventMonitor and ChainRuntime, by INSTANCE
    EventBus
    CosmosTx
    KeyRing   ConfigFile   Extraction   RetryDelays

    MCEventMonitor, MCChainRuntime, MCWorker, MCCosmosTx    instances for TLC
    MCStandalone    runs KeyRing, ConfigFile, Extraction and RetryDelays side by side

    SequenceFacts                             lemmas on sequences, for all proofs
    EventMonitorProofs   ChainRuntimeProofs   EventBusProofs   CosmosTxProofs
    WorkerProofs      uses EventMonitorProofs and ChainRuntimeProofs, by INSTANCE
    StandaloneProofs  ConfigFile, Extraction, RetryDelays; extends KeyRingProofs

### EventMonitor (with TryGroupWhile)

`pc` is the place of the monitor's thread: `new`, `subscribe`, the top of
`run_loop`, blocked in `select!`, the steps of `try_reconnect` (`dial`, `join`),
of the end of `run` (`close`, `joinlast`), and the ways to end. `drivers` has one
status per connection ever dialled, the last being `client`; `errs` is `rx_err`.
A subscription is a queue of items per query; `pend` and `outbuf` are the open
group of `try_group_while` and what it has yielded.

| code | actions |
|---|---|
| `EventMonitor::new`, `subscribe` | `New`, `Subscribe` (one query), `SubscribeFails` |
| `run_loop`: the command | `CheckCommand` |
| the batch stream, polled inside `select!` | `Pull(q)`, `EndOfStream` |
| `Ok(batch)`, `Err(SubscriptionCancelled)`, other `Err` | `SendBatch`, `StreamError`, `DriverError` |
| `reconnect`, `try_reconnect`, `try_resubscribe` | `Dial`, `DialFails`, `Join`, then `Subscribe`/`SubscribeFails`; `RetryOrGiveUp` decides after a failure |
| the end of `run` | `Close`, `JoinLast` |
| `run_driver` | `DriverFails`, `DriverRelays`, `DriverCloses`, `DriverPanics` |

An RPC event is one of a few kinds, by what `collect_events` makes of it: a
block, nothing (every `Tx`: `extract_rpc_event` only prints; and a `NewBlock`
without attributes, whose error is swallowed), a panic, or an error of the
stream. Blocks are numbered by height. The node, the client library and the
consumer are external: all they can do wrong is a *fault* (`AllFaults`), and a
run names the faults it allows and how many.

`TryGroupWhile` gives each turn of the generator as operators on the open group,
a sequence: `State { cur, group }` is `group \o <<cur>>`.

`BlockFeed` is what the consumer may rely on: the chain grows, sessions follow
one another, blocks are handed over in order, gap-free within a session but for
malformed ones.

### ChainRuntime

The state is the request channel (clients in the order they sent), each
client's reply channel (`open`, holding a `value`, or `dropped`), the runtime's
place in `run`, and what it sees of the monitor: waiting batches, whether its
thread ended, whether it was told to. `DropRuntime` is the drop of the runtime
after `run`: its receivers go, and with them every queued request and its
`reply_to` (crossbeam-channel 0.5.1 discards the messages of an unbounded
channel with its last receiver). `ChainService` is the promise of the handle,
with `open` mapped to the runtime's serving states and `crashed` to `panicked`.

### Worker

`ChainRuntime::spawn` with everything it starts. `EventMonitor` is instantiated
with the same names; `ChainRuntime` with its view of the monitor *defined* by the
monitor's state: it is told when `cmd` was used, has ended when the monitor is not
alive, and `inbox` is what waits in `event_receiver`. A step is one of a component
with the other at rest, or one of both where they meet:

| where | action | in both components |
|---|---|---|
| `process_batch`, `propagate_error` | `HandOver` | the monitor's `SendBatch`, `StreamError`; one more batch for the runtime |
| `tx_monitor_cmd.send` | `TellMonitor` | the runtime's `TellMonitor`; the monitor's `SendShutdown` |
| end of the runtime's thread | `DropRuntime` | the runtime's `DropRuntime`; the monitor's `ConsumerDrops` |

`Bootstrap` and `SpawnReturns` are the start and its failures; `CloneHandle` and
`DropHandle` what callers do with handles. That the composition is right is itself
checked: `RuntimeSpec` says that what the runtime does here is a behaviour of
`ChainRuntime` as it stands.

### EventBus

One action per turn of the two loops of `broadcast`; receivers are dropped at
any time between them. `RemoveAt` on the list is `VecDeque::remove`.

### CosmosTx

`send_msgs` as a state machine: `Push` (one turn of the cutting loop),
`QueryAccount`, `Simulate`, `Broadcast`/`BroadcastFails` (the steps of `send_tx`
between which the chain moves), `Poll` (one attempt of `wait_for_block_commits`).
Messages are their sizes; `n` and `size` of the code are computed from the
batch, which is reset together with them. `AdjustedGas` and `CalculateFee` are
`apply_adjustment_to_gas` and `calculate_fee` with their rounding, in hundredths.
The delays of the confirmation loop follow from `rpc_timeout`, in milliseconds, and
`slept` adds them up. The node is external: its queries answer from the last
block, it accepts a transaction only with the sequence that follows the waiting
ones, and may reject it for other reasons; a query fails, or answers what panics.
Signatures and encodings are left out: no property depends on them.

### KeyRing

The folder of the disk store is a function from file stems to keys; a name is the
sequence of its parts between dots, because `set_extension` replaces the last
one. Three kinds of actors share the folder: calls of `add_key`, several at a time
(`CreateFile` truncates, `WriteFile` or `WriteCutShort` ends it), a `send_tx` that
reads the configured key five times (`BeginSend`, `ReadKey`), and `keys`, which
reads file after file (`BeginList`, `ListFile`, `EndList`). Keys are numbered by
the `add_key` that stored them, so that a read tells which one it met. Two calls
that have one file open each write from its beginning: until the last of them
ended, and after it, the file may hold the key of either, nothing that can be read
(`Torn`), or a key that neither stored (`Mixed`); `WriteSome` is what a reader may
meet in between. `added`, `done`, `late` (the calls that found the file open) and
the variables that end in `Since` or `Mixed` are history.

### ConfigFile

A configuration file is the number of the `store` it is from and how much of the
text it holds. Because every table has a default or is optional, an empty file, one
that ends behind the global tables, and one that ends behind the mandatory keys of a
chain are configurations as well: `Parse` fails on the other prefixes only.

### Extraction

What `extract_rpc_event` does with a `Tx`. A message is its action, the attributes
it emits, whether the value its handler parses does parse (`sound`: the packet data of
a request and the numbers in it, the id of a report, the packet data of a received
packet), and whether it emits the status of a success; a value of an attribute *is*
the message that emitted it: `Nth` is the n-th message with that attribute. `extract_helper`'s counter per action is the index the handlers use,
and their unwraps, of what is missing and of what does not parse, are the disjuncts
of `Panics`. Two attributes are not of a message: `tx.height` and `tx.hash` (line 50) are
added to every `Tx` event by the node, and assumed to be there and, the former, a number.
`EventMonitor` uses the outcome only (`silent` or `poison`).

### RetryDelays

A step is one call of the iterator's `next`, for `ConstantGrowth` and for the
Fibonacci strategy of the retry crate (external), clamped by `clamp` or
`clamp_total`. `EventMonitor` and `CosmosTx` use the number of delays only.

## 3. Runs

| run | bounds | shows |
|---|---|---|
| `monitor_safety` | 4 blocks, 3 faults of any kind, 2 delays | `TypeOK`, `IInv`, `FeedSpec` (implements `BlockFeed`), `NoLeakedDriver`, `ReconnectionsBounded`, `WedgedOnlyAfterGivingUp` |
| `monitor_liveness` | 4 blocks, 2 faults of any kind, 3 delays | `Recovers`, `ShutdownObeyedUnlessBlocked`, `BlocksArrive` |
| `monitor_notice` (violated) | a driver that breaks | `GapsAreNoticed` |
| `monitor_give_up` (violated) | a driver that breaks, an endpoint that is down for a while | `PicksUpTheWork` |
| `runtime_service` | 3 clients, 2 calls each, 1 waiting batch | `ServiceSpec` (implements `ChainService`), `Accounted`, `MonitorNotOrphaned`, `EveryCallReturns`, `ShutdownEnds` |
| `worker_life` | 2 clients, 1 call each, 2 blocks, a fault of the driver or a panic of the monitor and the loss of its consumer, 1 delay | `RuntimeSpec` (implements `ChainRuntime`), `ShutdownEndsMonitor`, `NeverStopped`, `BacklogDrained` |
| `bus_delivery` | 4 subscribers, 3 broadcasts | `Consecutive`, `FirstRemovalIsRight` |
| `bus_removal` (violated) | 3 subscribers, 1 broadcast | `LiveStayRegistered` |
| `tx_send` | lists of up to 5 messages, 4 transactions, 2 calls, 2 rival transactions, an `rpc_timeout` of 0, 299, 300, 599 or 600 ms, worth 0, 0, 1, 1 and 2 delays | `MessagesKept`, `CutAtTheLimit`, `OkMeansRejected`, `NoConfirmationIsTrue`, `GivesUpInTime`, `FeeCovered`, `OneTxPerBlock`, `EveryCallEnds` |
| `standalone_parts` | 4 names with 3 files, 3 adds, 2 at a time; 2 stores; every `Tx` of up to 3 messages of 10 kinds; 866 strategies of delays | `AcknowledgedKeysKept`, `OneKeyUnlessTouched`, `ListedKeysRight`; `LoadsWhatWasStored`; `OwnValuesRead`; `LimitsKept`, `DelaysCounted` |
| `tx_size` (violated) | two messages | `SizeRespected` |
| `tx_events` (violated) | one transaction | `OkMeansCommitted` |

**Bounds.** Four blocks let a block be queued, one pend, one be yielded and one
be committed at once; three faults let a second connection fail while the first
is replaced and its replacement fail after it; the number of delays only counts
attempts, so one or two show what happens before and after the last one
(the code has 18, which `DelaysCounted` confirms). Three
clients let one be served, one be queued and one call in between; a second call
each shows that nothing is left of the first. In `worker_life` the batches are
bounded by the blocks and faults, and one fault is kept for the drop of the runtime
(`FaultInReserve`), the only way in which its monitor can lose its consumer. The
messages of `tx_send` make transactions of one and of two messages, cut by number
and by size, and a last one below the limits; the simulated gas is below `max_gas`,
at it, where the adjustment has no room, and above. Three adds let a key be stored,
replaced or cut short, and another name touched in the meantime, two at a time let
them overlap; the four names are one plain, one that shares its file, one whose
file's stem is the name of another, one apart. Three messages are the fewest in
which one takes the values of another and the next finds none left.
`CHECK_DEADLOCK FALSE` is in every configuration: the threads end, the bounded
environments run out, and the monitor can wait for ever, which its properties state.

**Fairness.** *Monitor:* the thread runs when it can, `SelectAll` polls every
subscription that is ready, driver tasks that have an error or were told to
close end (tokio runs them on other threads), and a node that is down comes back
(`PicksUpTheWork` needs it; the others hold of outages that outlast the delays as
well, and name them). No block, command or fault has to happen. *Runtime:* the
thread runs, `select!` chooses at random among ready branches, so none starves, and
`chain.send_msgs` ends: its retries are bounded, and the node is assumed to answer
every RPC. The monitor need not do anything, not even obey. *Worker:* that of the
two components, and `spawn` goes on; nobody has to call, or to keep or drop a
handle. *Transactions:* the thread runs and the node answers, if only with an error.

**What the violated runs show.**
* `GapsAreNoticed`: only a cancelled subscription is propagated; after an error
  of the driver the consumer sees a gap and no error, against the doc of
  `propagate_error`.
* `PicksUpTheWork`: out of delays, `reconnect` logs; the next `run_loop` waits on
  `stream::empty()`, for ever and deaf to commands, against the comment in `run`.
* `LiveStayRegistered`: ascending indices removed from a list that shifts.
* `SizeRespected`: the limit is compared after the message was added.
* `OkMeansCommitted`: `query_events_from_txs` never returns an event, so only
  rejected transactions are ever settled.

Passing properties describe the same places as they are: `OneKeyUnlessTouched`
and `ListedKeysRight` state when five reads of one file, and a listing, can be
trusted, and so when they cannot; `AcknowledgedKeysKept` and `LoadsWhatWasStored`
what an Ok of a store is worth; `OwnValuesRead` which transactions are read right;
`WedgedOnlyAfterGivingUp` says that giving up and a panicked driver are the *only*
ways to wait in vain; `NeverStopped` that a monitor whose handles are gone, or whose
runtime left without a word, is never told to stop; `FirstRemovalIsRight` that one
removal per broadcast is always right; `OkMeansRejected` what an Ok is worth;
`OneTxPerBlock` that the sequence incremented by `send_tx` is never used;
`NoConfirmationIsTrue` that the answer means an accepted transaction, but for an
`rpc_timeout` below one delay, of which it says nothing.

**Delimited, not caught.** Some hazards happen in the code as it is. The models show
them, and the properties say how far they reach and excuse the rest: an overlapping
`add_key`, a replaced key, dotted stems, reads of a key that is being replaced (with the
panic of the balance query), a store that was cut short, attributes that are not regular.
An error of `send_msgs` may be false (the node took the transaction), or come after
earlier transactions were broadcast: `MessagesKept` and `OneTxPerBlock` hold all the
same. After a panic of the extraction the driver task is left running, which no property
rules out. `BacklogDrained` bounds nothing: batches pile up while `send_msgs` runs. The
hazards have a note where this is so.

## 4. Proofs

TLAPS proves, for every value of the constants, every invariant, every action property
and every refinement that the runs expect to pass; the eight liveness properties stay
with TLC. The theorems assume only the `ASSUME` of their module (bounds are naturals;
faults, names and messages are known ones), and follow one pattern: an inductive
invariant, one lemma per action or group of actions, and a last step by PTL.

**EventMonitorProofs** (`TypesHold`, `NoDriverLeaks`, `FeedHolds`, all from
`IInvHolds`; `ReconnectionsHold`, `WaitsInVain`; `GroupingKeepsAll`). That the next
block handed over is higher than the last, and follows it without a gap, depends
on what is between the node and the consumer. `IInv` therefore says, of the
blocks *in flight* (in the subscription, in the open group, among the yielded
batches): they are ordered, in this order of places, above the last one handed
over (`Ordered`); groups are single blocks of the current connection
(`Singletons`); and every height that is *due* - above a block of this connection
that the consumer has or will get - is in flight or malformed, below any block in
flight, and up to the chain's height while the subscription lives (`Gapless`).
`Phases` ties this to the thread: outside the loop nothing is in flight, and a
connection that is being replaced or subscribed has handed over nothing yet.
`Joined` carries the drivers: all before the current one have ended, but for the
one being joined. The refinement maps
`CommitBlock` to `Commit`, `New` and `Dial` to `NewSession`, `SendBatch` to
`HandOver` and every other step to a stutter.
`ReconnectionsHold` and `WaitsInVain` add two parts. `Paid` is an account:
connections dialled, errors in `rx_err`, and what will still lead to a dial (an
attempt begun, a driver that died, one that died while it was subscribed or
joined, an error in the batch stream) never exceed one and two per fault. Each step
moves an entry or is a fault. `Awake` says that in the loop a driver that ended has
left its error behind, unless the loop began without a subscription. `GroupingKeepsAll` is
about `TryGroupWhile` alone, for groups of any length, which one subscription for blocks
never makes: a turn yields and keeps what it had and the newcomer, in their order.

**ChainRuntimeProofs** (`ServiceHolds`, `EveryCallAccounted`, `MonitorToldOrEnded`,
`PerformedInOrder`, `NobodyWaitsInVain`, `TypesHold`). The invariant says where the
reply channel of each waiting client is: in the queue (once), with the runtime, filled,
or dropped with a runtime that is gone (`QueuedRight`, `ServedRight`, `NobodyLost`,
`CalledFirst`), that nothing is left in a runtime that ended (`NothingLeft`), and why it
ended (`LeftFor`). A second one, `LInv`, relates the chain's log to the replies, so that
an answer is the truth; from it follows that each client's calls are performed in its
order (`PerformedInOrder`). `NobodyWaitsInVain` is what a fair step starts from in
`EveryCallReturns`. The refinement maps `Call` to `Invoke`, `TakeRequest` of a send to
`Perform`, `Return` to `Answer` or `Refuse`, and `EventsClosed`, `ChainPanics`,
`TellMonitor` to `Close`.

**EventBusProofs** (`DeliveryHolds`, `FirstRemovalHolds`, `TypesHold`). `Consecutive` is
nearly inductive: `Loops` adds the bounds of the two loops of `broadcast`, and
`Newcomers` that who has not subscribed yet was sent nothing. Whichever senders
the second loop removes, those that stay keep their order, so that none is sent an
event twice or skipped. `FirstRemovalHolds` adds `Noted`: until the first removal the
first index noted is that of a sender whose receiver is gone; that one of the places of
such senders goes is counted by a bijection (`PlacesShift`).

**CosmosTxProofs** (`MessagesHold`, `CutHolds`, `OkIsNoSuccess`,
`NoConfirmationHolds`, `TimeoutKept`, `OneTxPerBlockHolds`, `FeesHold`, `TypesHold`).
`TimeoutKept` is about every `rpc_timeout` in milliseconds with the code's two constants:
what is slept is bounded for every call, from below for those that give up only.
`NoConfirmationHolds` needs an `rpc_timeout` of one delay. `IInv` numbers the transactions (an accepted one has a sequence below what is
committed or waits), says what a settled result is, and ties the time slept to the
delays left. `CutInv` and `KeptInv` say of the open batch what the properties say of
transactions. `FeesHold` is arithmetic with roundings.

**KeyRingProofs** (`AcknowledgedHold`, `OneKeyHolds`, `ListedHold`, `TypesHold`). The
invariant gives each file its possible contents by the calls that touched it:
a file that no other call wrote to has its call's key once that was answered, and
nothing readable before (`Contents`), and this is kept while the reads of a
transaction (`Signing`) and a listing (`Listing`) go on. What it turns on is that
any other call with the file of an open one shares it (`OthersShare`), so that a
write disturbs only what is excused: calls whose writes to one file overlap, which may
both be answered by Ok and leave a key of neither, and, in listings, dotted stems.

**WorkerProofs** (`RuntimeRefined`, `MonitorRefined`, `RuntimePromises`,
`MonitorPromises`, `NeverStoppedHolds`, `TypesHold`). The worker is a behaviour of each of
its components. For the monitor that holds step by step: `HandOver`, `TellMonitor` and
`DropRuntime` are `SendBatch` or `StreamError`, `SendShutdown` and `ConsumerDrops`, and
what else the runtime and the handles do leaves it alone. For the runtime it takes an
invariant, `WInv`: a call borrows a handle (`Holders`), the monitor has its consumer as
long as the runtime exists (`Consumer`), and what waits in `event_receiver`, with an
error on its way there, is at most the height of the last batch and the faults so far
(`Backlog`), so that the bound `MaxBatches` of `ChainRuntime`, here the blocks and the
faults, is never reached. That each batch handed over is higher than the one before comes
from `IInv` of the monitor, which holds in the worker because of `MonitorRefined`. With
both refinements the theorems on the components are theorems on the worker: its
monitor feeds the runtime as `BlockFeed` says, and its handles keep the promise of
`ChainService`. (`MonitorProofs` and `RuntimeProofs` instantiate the modules of those
theorems with the worker's variables; the lemmas `Same...` say that the definitions in
them are those of `Monitor` and `Runtime`.) `NeverStoppedHolds` turns on the runtime's
queue: who is queued waits, who waits holds a handle, so without handles no request is
left that could end in a command.

**StandaloneProofs**. *Extraction* (`OwnValuesHold`): the invariant says that the index of
an action is the number of its messages so far. If, up to a message, those that emitted
an attribute are those of its action, the two sets are one, and counting it gives the
message's own place (`OwnPlace`): the value is there, no other has that place, and no
unwrap fails. This holds for transactions of any length; TLC has those of three
messages. *ConfigFile* (`LoadHolds`): the file has a text of the last store, whole
unless that was cut short or is under way. *RetryDelays* (`LimitsHold`,
`DelaysAreClamped`, from `Counted`: what was given is what was counted, up to the total)
holds of all strategies, where TLC has small ones; `DelaysAreCounted` follows the two
strategies of the code delay by delay. `TypesKept` and `PartsPromise` lift these, and those
of the key files, to the specification that TLC runs.

**Only model-checked**: the liveness properties (`Recovers`, `BlocksArrive`,
`ShutdownObeyedUnlessBlocked`, `EveryCallReturns`, `ShutdownEnds`, `ShutdownEndsMonitor`,
`BacklogDrained`, `EveryCallEnds`), which rest on fairness and so on `ENABLED`, out of the
prover's reach; and the five properties that a run shows to be violated.

## 5. Not modelled

* `src/src/prost`, two thirds of the implementation's lines, is generated: data types and
  gRPC stubs without state of their own. The models cover what is written by hand.
* *Cosmos chain*: what is encoded and signed, `health_checkup` (it only logs),
  `get_signer` and `get_key` (read only). A negative gas price or adjustment is not
  modelled; the code would panic on it.
* *Key ring*: the memory store (a map, with no intermediate states, that nothing
  builds), and the derivation and use of keys, functions of cryptographic libraries.
* *Monitor*: `set_queries` and `add_query`, which nothing calls; `sort_events`, since
  batches hold one event. When the runtime cannot start because a subscription failed, the
  driver task of the client that was dialled is left running: `SubscribeFails` shows it,
  no property states it.
* *Runtime*: `ChainRequest::Subscribe`, which no handle builds.
* *Retry*: `ConstantGrowth` of zero delays under `clamp_total` never ends; no caller
  builds it, and `LimitsKept` holds of it.
* The utilities nothing calls (`diff`, `recv_multiple`, `iter`, `block_on`), the timing
  macro, the example program (the consumer of `EventMonitor`), data types and errors.
* Memory: the unbounded channels are bounded in the models through what feeds them;
  `BacklogDrained` says that they do not keep what they were fed.

## 6. What is left

* The safety half of the other liveness properties, as `NobodyWaitsInVain` is that of
  `EveryCallReturns`: what an open call of `CosmosTx`, or a batch in flight, has before it.
* A worker with several chains, once the code shares anything between them.
