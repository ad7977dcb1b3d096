-------------------------------- MODULE EventBus --------------------------------
(***************************************************************************)
(* The event bus of subscribe/bus.rs: a list of senders, one per           *)
(* subscriber, and a broadcast that sends to each of them in turn, notes   *)
(* the indices of those whose receiver is gone, and then removes these     *)
(* indices from the list one by one.  subscribe and broadcast need the bus *)
(* exclusively, so only the subscribers run concurrently with a broadcast: *)
(* they may drop their receiver between any two sends.                     *)
(***************************************************************************)
EXTENDS Naturals, Sequences, FiniteSets, SequencesExt

CONSTANTS
    MaxSubscribers,     \* bound: calls of subscribe
    MaxBroadcasts       \* bound: calls of broadcast

ASSUME BusAssumption == MaxSubscribers \in Nat /\ MaxBroadcasts \in Nat

VARIABLES
    txs,            \* the senders, by the number of their subscriber
    subscribers,    \* how many there have been
    holding,        \* the subscribers that hold their receiver
    channel,        \* per subscriber, what was sent to it, received or not
    joined,         \* per subscriber, the broadcasts begun before it joined
    broadcasts,     \* broadcasts begun; the n-th sends the value n
    pc,             \* "idle", "sending" or "removing"
    next,           \* the index the broadcast is at
    disconnected    \* the indices it found disconnected

progress  == <<broadcasts, pc, next, disconnected>>
vars      == <<txs, subscribers, holding, channel, joined, progress>>

Subscriber == 1..MaxSubscribers

Init ==
    /\ txs = <<>> /\ subscribers = 0 /\ holding = {}
    /\ channel = [s \in Subscriber |-> <<>>] /\ joined = [s \in Subscriber |-> 0]
    /\ broadcasts = 0 /\ pc = "idle" /\ next = 1 /\ disconnected = <<>>

--------------------------------------------------------------------------------
Subscribe ==
    /\ pc = "idle" /\ subscribers < MaxSubscribers
    /\ subscribers' = subscribers + 1
    /\ txs' = Append(txs, subscribers')
    /\ holding' = holding \cup {subscribers'}
    /\ joined' = [joined EXCEPT ![subscribers'] = broadcasts]
    /\ UNCHANGED <<channel, progress>>

\* Deviation: the indices of the previous broadcast are kept.
BroadcastKeepingIndices ==
    /\ pc = "idle" /\ broadcasts < MaxBroadcasts
    /\ broadcasts' = broadcasts + 1
    /\ pc' = "sending" /\ next' = 1
    /\ UNCHANGED <<txs, subscribers, holding, channel, joined, disconnected>>

Broadcast ==
    /\ pc = "idle" /\ broadcasts < MaxBroadcasts
    /\ broadcasts' = broadcasts + 1
    /\ pc' = "sending" /\ next' = 1 /\ disconnected' = <<>>
    /\ UNCHANGED <<txs, subscribers, holding, channel, joined>>

\* Deviation: the loop ends at the first disconnected subscriber.
SendUntilError ==
    /\ pc = "sending" /\ next <= Len(txs)
    /\ LET s == txs[next] IN
         IF s \in holding
         THEN /\ channel' = [channel EXCEPT ![s] = Append(@, broadcasts)]
              /\ next' = next + 1 /\ UNCHANGED disconnected
         ELSE /\ disconnected' = Append(disconnected, next)
              /\ next' = Len(txs) + 1 /\ UNCHANGED channel
    /\ UNCHANGED <<txs, subscribers, holding, joined, broadcasts, pc>>

\* One turn of the sending loop.
Send ==
    /\ pc = "sending" /\ next <= Len(txs)
    /\ LET s == txs[next] IN
         IF s \in holding
         THEN channel' = [channel EXCEPT ![s] = Append(@, broadcasts)] /\ UNCHANGED disconnected
         ELSE disconnected' = Append(disconnected, next) /\ UNCHANGED channel
    /\ next' = next + 1
    /\ UNCHANGED <<txs, subscribers, holding, joined, broadcasts, pc>>

AllSent ==
    /\ pc = "sending" /\ next > Len(txs)
    /\ pc' = "removing" /\ next' = 1
    /\ UNCHANGED <<txs, subscribers, holding, channel, joined, broadcasts, disconnected>>

\* One turn of the removing loop: VecDeque::remove shifts what follows the
\* index, and does nothing when the index is out of bounds.
RemoveNext ==
    /\ pc = "removing" /\ next <= Len(disconnected)
    /\ txs' = IF disconnected[next] <= Len(txs) THEN RemoveAt(txs, disconnected[next]) ELSE txs
    /\ next' = next + 1
    /\ UNCHANGED <<subscribers, holding, channel, joined, broadcasts, pc, disconnected>>

AllRemoved ==
    /\ pc = "removing" /\ next > Len(disconnected)
    /\ pc' = "idle"
    /\ UNCHANGED <<txs, subscribers, holding, channel, joined, broadcasts, next, disconnected>>

--------------------------------------------------------------------------------
(***************************************************************************)
(* The subscribers.                                                        *)
(***************************************************************************)
\* The receiver is dropped.  (What it receives before that, and when, makes
\* no difference to the bus.)
Drop(s) ==
    /\ s \in holding
    /\ holding' = holding \ {s}
    /\ UNCHANGED <<txs, subscribers, channel, joined, progress>>

Next ==
    \/ Subscribe \/ Broadcast \/ Send \/ AllSent \/ RemoveNext \/ AllRemoved
    \/ \E s \in Subscriber : Drop(s)

Spec == Init /\ [][Next]_vars
--------------------------------------------------------------------------------
(***************************************************************************)
(* Properties                                                              *)
(***************************************************************************)
\* The variables keep their types; a subscriber has one sender at most.
TypeOK ==
    /\ txs \in Seq(Subscriber) /\ IsInjective(txs)
    /\ subscribers \in 0..MaxSubscribers /\ holding \subseteq 1..subscribers
    /\ channel \in [Subscriber -> Seq(1..MaxBroadcasts)]
    /\ joined \in [Subscriber -> 0..MaxBroadcasts]
    /\ broadcasts \in 0..MaxBroadcasts /\ pc \in {"idle", "sending", "removing"}
    /\ next \in 1..(MaxSubscribers + 1)
    /\ disconnected \in Seq(1..MaxSubscribers)

Registered(s) == s \in Range(txs)

\* What a subscriber is sent is a run of consecutive broadcasts from the first
\* one after it joined, whoever drops in the meantime; it is complete, up to
\* the broadcast under way, as long as the bus has its sender.
Reached(s) == \* the last broadcast that has got to s, when it is registered
    IF pc = "sending" /\ \E i \in next..Len(txs) : txs[i] = s
    THEN broadcasts - 1 ELSE broadcasts
Consecutive ==
    \A s \in holding :
        /\ \A i \in 1..Len(channel[s]) : channel[s][i] = joined[s] + i
        /\ Registered(s) => joined[s] + Len(channel[s]) = Reached(s)

\* A broadcast that finds subscribers disconnected gets rid of one of them at
\* least: the first index it removes has not shifted.  So the senders of
\* dropped receivers do not pile up while the bus is used.
Gone == {i \in 1..Len(txs) : txs[i] \notin holding}
FirstRemovalIsRight ==
    [][pc = "removing" /\ next = 1 /\ disconnected # <<>> /\ next' = 2
         => /\ disconnected[1] <= Len(txs) /\ txs[disconnected[1]] \notin holding
            /\ Cardinality(Gone') = Cardinality(Gone) - 1]_vars

\* The comment of the loop, "Remove all disconnected subscribers": nobody
\* else is removed.
LiveStayRegistered == \A s \in holding : Registered(s)
================================================================================
