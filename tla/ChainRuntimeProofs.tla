--------------------------- MODULE ChainRuntimeProofs ---------------------------
(***************************************************************************)
(* Theorems about ChainRuntime, for any number of clients, of calls and of *)
(* batches.                                                                *)
(***************************************************************************)
EXTENDS ChainRuntime, FiniteSetTheorems, SequenceFacts

USE RuntimeAssumption DEF RuntimePC, Operation, clients, events, vars

--------------------------------------------------------------------------------
(***************************************************************************)
(* The types.                                                              *)
(***************************************************************************)

LEMMA InitTypeOK == Init => TypeOK
  <1> SUFFICES ASSUME Init PROVE TypeOK
    OBVIOUS
  <1>1. /\ requests \in Seq(Client)
        /\ log \in Seq([client : Client, n : 1..MaxCalls])
    BY EmptySeq DEF Init
  <1>2. call \in [Client -> [n : 0..MaxCalls, op : Operation]]
    BY DEF Init
  <1>3. panicked \in BOOLEAN /\ told \in BOOLEAN
    BY DEF Init
  <1> QED BY <1>1, <1>2, <1>3 DEF Init, TypeOK

\* A client's call.
LEMMA CallType ==
    ASSUME TypeOK, NEW c \in Client, Call(c)
    PROVE  TypeOK'
<1>1. PICK op \in Operation : call' = [call EXCEPT ![c] = [n |-> @.n + 1, op |-> op]]
  BY DEF Call
<1>2. call[c].n \in 0..MaxCalls /\ call[c].n < MaxCalls
  BY DEF Call, TypeOK
<1>3. [n |-> call[c].n + 1, op |-> op] \in [n : 0..MaxCalls, op : Operation]
  BY <1>2
<1>4. call' \in [Client -> [n : 0..MaxCalls, op : Operation]]
  BY <1>1, <1>3 DEF TypeOK
<1>5. requests' \in Seq(Client)
  <2>1. requests \in Seq(Client) /\ Append(requests, c) \in Seq(Client)
    BY AppendElements DEF TypeOK
  <2> QED BY <2>1 DEF Call
<1>6. reply' \in [Client -> {"open", "value", "dropped"}]
  BY DEF Call, TypeOK
<1> QED BY <1>4, <1>5, <1>6 DEF Call, TypeOK

\* A step of the runtime that only writes the reply of the client it serves.
LEMMA RepliedType ==
    ASSUME TypeOK, NEW v \in {"value", "dropped"}, Replied(v)
    PROVE  reply' \in [Client -> {"open", "value", "dropped"}]
  BY DEF Replied, TypeOK

LEMMA TakeRequestType ==
    ASSUME TypeOK, TakeRequest, requests # <<>> => call[Head(requests)].n >= 1
    PROVE  TypeOK'
<1>1. requests # <<>> /\ Head(requests) \in Client /\ Tail(requests) \in Seq(Client)
  BY TailElements DEF TakeRequest, TypeOK
<1>2. [client |-> Head(requests), n |-> call[Head(requests)].n]
        \in [client : Client, n : 1..MaxCalls]
  BY <1>1 DEF TypeOK
<1>3. log' \in Seq([client : Client, n : 1..MaxCalls])
  <2> DEFINE S == [client : Client, n : 1..MaxCalls]
  <2>1. log \in Seq(S)
    BY DEF TypeOK
  <2>2. Append(log, [client |-> Head(requests), n |-> call[Head(requests)].n]) \in Seq(S)
    BY <1>2, <2>1, AppendElements
  <2> QED BY <2>1, <2>2 DEF TakeRequest
<1> QED BY <1>1, <1>3 DEF TakeRequest, TypeOK

\* The types are kept; a client whose request is queued has made a call.
LEMMA StepTypeOK ==
    ASSUME TypeOK, Next, requests # <<>> => call[Head(requests)].n >= 1
    PROVE  TypeOK'
<1>1. ASSUME NEW c \in Client, Call(c) PROVE TypeOK'
  BY <1>1, CallType
<1>2. ASSUME NEW c \in Client, Return(c) PROVE TypeOK'
  BY <1>2 DEF Return, TypeOK
<1>3. CASE DiscardBatch
  BY <1>3 DEF DiscardBatch, TypeOK
<1>4. CASE EventsClosed
  BY <1>4 DEF EventsClosed, TypeOK
<1>5. CASE TakeRequest
  BY <1>5, TakeRequestType
<1>6. CASE ReplyToSend
  BY <1>6, RepliedType DEF ReplyToSend, TypeOK
<1>7. CASE ChainPanics
  BY <1>7, RepliedType DEF ChainPanics, TypeOK
<1>8. CASE TellMonitor
  BY <1>8, RepliedType DEF TellMonitor, TypeOK
<1>9. CASE ReplyToShutdown
  BY <1>9, RepliedType DEF ReplyToShutdown, TypeOK
<1>10. CASE DropRuntime
  <2>1. reply' \in [Client -> {"open", "value", "dropped"}]
    BY <1>10 DEF DropRuntime, TypeOK
  <2>2. <<>> \in Seq(Client)
    BY EmptySeq
  <2> QED BY <1>10, <2>1, <2>2 DEF DropRuntime, TypeOK
<1>11. CASE MonitorStep
  BY <1>11 DEF MonitorStep, SendBatch, MonitorEnds, TypeOK
<1> QED
  BY <1>1, <1>2, <1>3, <1>4, <1>5, <1>6, <1>7, <1>8, <1>9, <1>10, <1>11
  DEF Next, RuntimeStep

--------------------------------------------------------------------------------
(***************************************************************************)
(* Where a waiting client's request is.                                    *)
(***************************************************************************)

\* A client is queued once, and only while it waits for its first reply.
QueuedRight ==
    /\ \A i, j \in 1..Len(requests) : requests[i] = requests[j] => i = j
    /\ \A i \in 1..Len(requests) :
         requests[i] \in waiting /\ reply[requests[i]] = "open"

\* So is the one that is served, and it is not queued any more.
ServedRight ==
    runtime \in {"sending", "shutting", "closing"} =>
        serving \in waiting /\ reply[serving] = "open" /\ ~Queued(serving)

\* A client with no reply is queued or served.
NobodyLost == \A c \in waiting : reply[c] = "open" => Queued(c) \/ Serving(c)

\* Who waits has called; once the runtime is gone nothing is queued.
CalledFirst == \A c \in waiting : call[c].n >= 1
NothingLeft == runtime = "gone" => requests = <<>>

QInv == QueuedRight /\ ServedRight /\ NobodyLost /\ CalledFirst /\ NothingLeft

USE DEF QueuedRight, ServedRight, NobodyLost, CalledFirst, NothingLeft

LEMMA InitQInv == Init => QInv
  BY EmptySeq DEF Init, QInv

LEMMA CallQInv ==
    ASSUME TypeOK, QInv, NEW c \in Client, Call(c)
    PROVE  QInv'
<1>1. call' \in [Client -> [n : 0..MaxCalls, op : Operation]] /\ call'[c].n = call[c].n + 1
  <2>1. PICK op \in Operation : call' = [call EXCEPT ![c] = [n |-> @.n + 1, op |-> op]]
    BY DEF Call
  <2>2. call[c].n \in Nat
    BY DEF TypeOK
  <2> QED BY <2>1, <2>2, CallType DEF TypeOK
<1>2. \A d \in Client : d # c => call'[d] = call[d] /\ reply'[d] = reply[d]
  BY DEF Call, TypeOK
<1>3. c \notin waiting /\ waiting' = waiting \cup {c} /\ c \in Client
      /\ runtime' = runtime /\ serving' = serving /\ waiting \subseteq Client
  BY DEF Call, TypeOK
<1>4. CalledFirst'
  <2>1. call[c].n \in Nat
    BY DEF TypeOK
  <2> QED BY <1>1, <1>2, <1>3, <2>1 DEF QInv
<1>5. requests \in Seq(Client)
  BY DEF TypeOK
<1>6. CASE runtime # "gone"
  <2>1. requests' = Append(requests, c) /\ reply'[c] = "open"
    BY <1>6 DEF Call, TypeOK
  <2>2. /\ Len(requests) \in Nat /\ Len(requests') = Len(requests) + 1
        /\ \A i \in 1..Len(requests) : requests'[i] = requests[i]
        /\ requests'[Len(requests) + 1] = c
    BY <1>5, <2>1, AppendElements
  <2>3. \A i \in 1..Len(requests') : i \in 1..Len(requests) \/ i = Len(requests) + 1
    BY <2>2
  <2>4. \A i \in 1..Len(requests) : requests[i] \in waiting /\ requests[i] # c
    BY <1>3 DEF QInv
  <2>5. QueuedRight'
    BY <1>2, <1>3, <2>1, <2>2, <2>3, <2>4 DEF QInv
  <2>6. \A d : d # c => (Queued(d)' <=> Queued(d))
    BY <2>2, <2>3 DEF Queued
  <2>7. Queued(c)'
    BY <2>2 DEF Queued
  <2>8. ServedRight'
    BY <1>2, <1>3, <2>6 DEF QInv
  <2>9. NobodyLost'
    BY <1>2, <1>3, <2>6, <2>7 DEF QInv, Serving
  <2> QED BY <1>3, <1>4, <1>6, <2>5, <2>8, <2>9 DEF QInv
<1>7. CASE runtime = "gone"
  <2>1. requests' = requests /\ reply'[c] = "dropped"
    BY <1>7 DEF Call, TypeOK
  <2>2. requests' = <<>> /\ Len(requests') = 0
    BY <1>7, <2>1, EmptySeq DEF QInv
  <2> QED BY <1>2, <1>3, <1>4, <1>7, <2>1, <2>2 DEF QInv, Queued, Serving
<1> QED BY <1>6, <1>7

LEMMA ReturnQInv ==
    ASSUME TypeOK, QInv, NEW c \in Client, Return(c)
    PROVE  QInv'
  BY DEF Return, QInv, TypeOK, Queued, Serving

LEMMA TakeQInv ==
    ASSUME TypeOK, QInv, TakeRequest
    PROVE  QInv'
<1>1. requests \in Seq(Client) /\ requests # <<>> /\ requests' = Tail(requests)
  BY DEF TakeRequest, TypeOK
<1> DEFINE c == Head(requests)
<1>2. /\ c = requests[1] /\ Len(requests) \in Nat /\ Len(requests) >= 1
      /\ Len(requests') = Len(requests) - 1
      /\ \A i \in 1..Len(requests') : requests'[i] = requests[i + 1]
  BY <1>1, TailElements
<1>3. serving' = c /\ runtime' \in {"sending", "shutting"}
      /\ waiting' = waiting /\ reply' = reply /\ call' = call
  BY DEF TakeRequest
<1>4. \A i \in 1..Len(requests') : i + 1 \in 1..Len(requests) /\ i + 1 # 1
  BY <1>2
<1>5. \A i \in 1..Len(requests) : i = 1 \/ (i - 1 \in 1..Len(requests') /\ (i - 1) + 1 = i)
  BY <1>2
<1>6. 1 \in 1..Len(requests)
  BY <1>2
<1>7. QueuedRight'
  <2>1. ASSUME NEW i \in 1..Len(requests'), NEW j \in 1..Len(requests'),
               requests'[i] = requests'[j]
        PROVE  i = j
    <3>1. i + 1 = j + 1
      BY <1>2, <1>4, <2>1 DEF QInv
    <3> QED BY <3>1
  <2>2. ASSUME NEW i \in 1..Len(requests')
        PROVE  requests'[i] \in waiting /\ reply[requests'[i]] = "open"
    BY <1>2, <1>4, <2>2 DEF QInv
  <2> QED BY <1>3, <2>1, <2>2
<1>8. \A i \in 1..Len(requests') : requests'[i] # c
  BY <1>2, <1>4, <1>6 DEF QInv
<1>9. ServedRight'
  BY <1>2, <1>3, <1>6, <1>8 DEF QInv, Queued
<1>10. ASSUME NEW d, Queued(d) PROVE d = c \/ Queued(d)'
  <2>1. PICK i \in 1..Len(requests) : requests[i] = d
    BY <1>10 DEF Queued
  <2>2. CASE i = 1
    BY <1>2, <2>1, <2>2
  <2>3. CASE i # 1
    <3>1. i - 1 \in 1..Len(requests') /\ (i - 1) + 1 = i
      BY <1>5, <2>3
    <3>2. requests'[i - 1] = d
      BY <1>2, <2>1, <3>1
    <3> QED BY <3>1, <3>2 DEF Queued
  <2> QED BY <2>2, <2>3
<1>11. runtime = "select"
  BY DEF TakeRequest
<1>12. NobodyLost'
  BY <1>3, <1>10, <1>11 DEF QInv, Serving
<1> QED BY <1>3, <1>7, <1>9, <1>12 DEF QInv

\* The runtime answers, or drops, the request it serves.
LEMMA RepliedQInv ==
    ASSUME TypeOK, QInv, NEW v \in {"value", "dropped"}, Replied(v),
           runtime \in {"sending", "shutting", "closing"},
           runtime' \in {"select", "leaving"},
           UNCHANGED <<call, waiting, requests, serving>>
    PROVE  QInv'
<1>1. \A c \in Client : reply'[c] = IF c = serving THEN v ELSE reply[c]
  BY DEF Replied, TypeOK
<1>2. waiting \subseteq Client /\ serving \in Client
  BY DEF TypeOK
<1>3. \A i \in 1..Len(requests) : requests[i] # serving
  BY DEF QInv, Queued
<1>4. QueuedRight'
  BY <1>1, <1>2, <1>3 DEF QInv
<1>5. NobodyLost'
  BY <1>1, <1>2 DEF QInv, Queued, Serving
<1> QED BY <1>4, <1>5 DEF QInv

LEMMA DropQInv ==
    ASSUME TypeOK, QInv, DropRuntime
    PROVE  QInv'
<1>1. requests' = <<>> /\ Len(requests') = 0 /\ runtime' = "gone" /\ runtime = "leaving"
  BY EmptySeq DEF DropRuntime
<1>2. \A c \in Client : reply'[c] = IF Queued(c) THEN "dropped" ELSE reply[c]
  BY DEF DropRuntime
<1>3. waiting \subseteq Client /\ waiting' = waiting /\ call' = call
  BY DEF DropRuntime, TypeOK
<1>4. NobodyLost'
  BY <1>1, <1>2, <1>3 DEF QInv, Serving
<1> QED BY <1>1, <1>3, <1>4 DEF QInv

\* Steps that leave the clients and the place of the runtime.
LEMMA StepQInv ==
    ASSUME TypeOK, QInv, [Next]_vars
    PROVE  QInv'
<1>1. CASE UNCHANGED vars
  BY <1>1 DEF QInv, Queued, Serving
<1>2. ASSUME NEW c \in Client, Call(c) PROVE QInv'
  BY <1>2, CallQInv
<1>3. ASSUME NEW c \in Client, Return(c) PROVE QInv'
  BY <1>3, ReturnQInv
<1>4. CASE DiscardBatch \/ MonitorStep
  <2>1. UNCHANGED <<clients, runtime, serving>>
    BY <1>4 DEF DiscardBatch, MonitorStep, SendBatch, MonitorEnds
  <2> QED BY <2>1 DEF QInv, Queued, Serving
<1>5. CASE EventsClosed
  <2>1. runtime = "select" /\ runtime' = "leaving" /\ UNCHANGED <<clients, serving>>
    BY <1>5 DEF EventsClosed
  <2> QED BY <2>1 DEF QInv, Queued, Serving
<1>6. CASE TakeRequest
  BY <1>6, TakeQInv
<1>7. CASE ReplyToSend \/ ChainPanics \/ ReplyToShutdown
  BY <1>7, RepliedQInv DEF ReplyToSend, ChainPanics, ReplyToShutdown
<1>8. CASE TellMonitor
  <2>1. CASE monitor = "running"
    <3>1. runtime = "shutting" /\ runtime' = "closing" /\ UNCHANGED <<clients, serving>>
      BY <1>8, <2>1 DEF TellMonitor
    <3> QED BY <3>1 DEF QInv, Queued, Serving
  <2>2. CASE monitor # "running"
    BY <1>8, <2>2, RepliedQInv DEF TellMonitor
  <2> QED BY <2>1, <2>2
<1>9. CASE DropRuntime
  BY <1>9, DropQInv
<1> QED
  BY <1>1, <1>2, <1>3, <1>4, <1>5, <1>6, <1>7, <1>8, <1>9 DEF Next, RuntimeStep

--------------------------------------------------------------------------------
(***************************************************************************)
(* Why the runtime left, and how it stands with the monitor.               *)
(***************************************************************************)

\* It leaves `run` when it told the monitor to shut down, when the monitor has
\* ended, or in a panic; and it panics nowhere else.
LeftFor ==
    /\ runtime = "closing" => told
    /\ runtime \in {"leaving", "gone"} => told \/ monitor = "ended" \/ panicked
    /\ panicked => runtime \in {"leaving", "gone"}

LEMMA StepLeftFor ==
    ASSUME TypeOK, LeftFor, [Next]_vars
    PROVE  LeftFor'
<1>1. CASE UNCHANGED vars
  BY <1>1 DEF LeftFor
<1>2. ASSUME NEW c \in Client, Call(c) \/ Return(c) PROVE LeftFor'
  BY <1>2 DEF Call, Return, LeftFor
<1>3. CASE RuntimeStep
  BY <1>3 DEF RuntimeStep, DiscardBatch, EventsClosed, TakeRequest, ReplyToSend,
              ChainPanics, TellMonitor, ReplyToShutdown, DropRuntime, LeftFor, TypeOK
<1>4. CASE MonitorStep
  BY <1>4 DEF MonitorStep, SendBatch, MonitorEnds, LeftFor
<1> QED BY <1>1, <1>2, <1>3, <1>4 DEF Next

--------------------------------------------------------------------------------
(***************************************************************************)
(* The inductive invariant, and what follows from it.                      *)
(***************************************************************************)
IInv == TypeOK /\ QInv /\ LeftFor

LEMMA StepIInv == IInv /\ [Next]_vars => IInv'
  <1> SUFFICES ASSUME IInv, [Next]_vars PROVE IInv'
    OBVIOUS
  <1>1. requests # <<>> => call[Head(requests)].n >= 1
    <2>1. requests # <<>> => 1 \in 1..Len(requests) /\ Head(requests) = requests[1]
      BY TailElements DEF IInv, TypeOK
    <2> QED BY <2>1 DEF IInv, QInv
  <1>2. TypeOK'
    <2>1. CASE UNCHANGED vars
      BY <2>1 DEF IInv, TypeOK
    <2> QED BY <1>1, <2>1, StepTypeOK DEF IInv
  <1> QED BY <1>2, StepQInv, StepLeftFor DEF IInv

LEMMA IInvHolds == Spec => []IInv
<1>1. Init => IInv
  BY InitTypeOK, InitQInv DEF Init, IInv, LeftFor
<1> QED BY <1>1, StepIInv, PTL DEF Spec

\* The variables keep their types in every state of the runtime.
THEOREM TypesHold == Spec => []TypeOK
<1>1. IInv => TypeOK
  BY DEF IInv
<1> QED BY <1>1, IInvHolds, PTL

\* A waiting client is queued once, or served, or has its reply: exactly one.
THEOREM EveryCallAccounted == Spec => []Accounted
<1>1. ASSUME IInv PROVE Accounted
  <2> SUFFICES ASSUME NEW c \in waiting
               PROVE  IF reply[c] = "open"
                      THEN runtime # "gone"
                           /\ Cardinality(Places(c)) = IF Serving(c) THEN 0 ELSE 1
                      ELSE Places(c) = {} /\ ~Serving(c)
    BY DEF Accounted
  <2>1. QInv
    BY <1>1 DEF IInv
  <2>2. CASE reply[c] # "open"
    <3>1. \A i \in 1..Len(requests) : requests[i] # c
      BY <2>1, <2>2 DEF QInv
    <3>2. Places(c) = {}
      BY <3>1 DEF Places
    <3>3. ~Serving(c)
      BY <2>1, <2>2 DEF QInv, Serving
    <3> QED BY <2>2, <3>2, <3>3
  <2>3. CASE reply[c] = "open" /\ Serving(c)
    <3>1. runtime # "gone" /\ ~Queued(c)
      BY <2>1, <2>3 DEF QInv, Serving
    <3>2. Places(c) = {}
      BY <3>1 DEF Queued, Places
    <3>3. Cardinality(Places(c)) = 0
      BY <3>2, FS_EmptySet
    <3> QED BY <2>3, <3>1, <3>3
  <2>4. CASE reply[c] = "open" /\ ~Serving(c)
    <3>1. PICK i \in 1..Len(requests) : requests[i] = c
      BY <2>1, <2>4 DEF QInv, Queued
    <3>2. \A j \in 1..Len(requests) : requests[j] = c => j = i
      BY <2>1, <3>1 DEF QInv
    <3>3. Places(c) = {i}
      BY <3>1, <3>2 DEF Places
    <3>4. Cardinality(Places(c)) = 1
      BY <3>3, FS_Singleton
    <3>5. runtime # "gone"
      <4>1. requests = <<>> => 1..Len(requests) = {}
        OBVIOUS
      <4> QED BY <2>1, <3>1, <4>1 DEF QInv
    <3> QED BY <2>4, <3>4, <3>5
  <2> QED BY <2>2, <2>3, <2>4
<1> QED BY <1>1, IInvHolds, PTL

\* A runtime that is gone without a panic has told its monitor to shut down,
\* unless the monitor had ended before.
THEOREM MonitorToldOrEnded == Spec => []MonitorNotOrphaned
<1>1. IInv => MonitorNotOrphaned
  BY DEF IInv, LeftFor, MonitorNotOrphaned
<1> QED BY <1>1, IInvHolds, PTL

--------------------------------------------------------------------------------
(***************************************************************************)
(* The runtime implements ChainService.  The log, the calls, and what the  *)
(* replies say of them.                                                    *)
(***************************************************************************)
This(c)    == [client |-> c, n |-> call[c].n]
Reached(c) == \E i \in 1..Len(log) : log[i] = This(c)

\* The log holds calls that were made.
LogOfCalls == \A i \in 1..Len(log) : log[i].n <= call[log[i].client].n

\* What is queued has not reached the chain; a send that is served is the
\* latest that has; a shutdown never does.
QueuedNotReached == \A c \in Client : Queued(c) => ~Reached(c)
SentIsLatest ==
    runtime = "sending" =>
        Len(log) >= 1 /\ log[Len(log)] = This(serving) /\ call[serving].op = "send"
ShutdownNotReached ==
    runtime \in {"shutting", "closing"} =>
        ~Reached(serving) /\ call[serving].op = "shutdown"

\* A reply is the truth: for an answer, the call was performed; for an error,
\* it was not, unless the runtime died in it.
ValueRight ==
    \A c \in waiting : reply[c] = "value" =>
        IF call[c].op = "send" THEN Reached(c) ELSE ~Open
DroppedRight ==
    \A c \in waiting : reply[c] = "dropped" =>
        ~Open /\ (~Reached(c) \/ (panicked /\ log[Len(log)] = This(c)))

LInv ==
    /\ LogOfCalls /\ QueuedNotReached /\ SentIsLatest
    /\ ShutdownNotReached /\ ValueRight /\ DroppedRight

USE DEF LogOfCalls, QueuedNotReached, SentIsLatest, ShutdownNotReached,
        ValueRight, DroppedRight, Open

LEMMA InitLInv == Init => LInv
  BY EmptySeq DEF Init, LInv, Queued

\* Steps of others leave what was reached.
LEMMA SameReached ==
    ASSUME UNCHANGED <<call, log>>, NEW c
    PROVE  This(c)' = This(c) /\ (Reached(c)' <=> Reached(c))
  BY DEF This, Reached

LEMMA CallLInv ==
    ASSUME IInv, LInv, NEW c \in Client, Call(c)
    PROVE  LInv'
<1>1. /\ waiting \subseteq Client /\ serving \in Client
      /\ requests \in Seq(Client)
      /\ Len(log) \in Nat /\ \A i \in 1..Len(log) : log[i].client \in Client /\ log[i].n \in Nat
  <2> DEFINE S == [client : Client, n : 1..MaxCalls]
  <2>1. log \in Seq(S)
    BY DEF IInv, TypeOK
  <2>2. Len(log) \in Nat /\ \A i \in 1..Len(log) : log[i] \in S
    <3> HIDE DEF S
    <3> QED BY <2>1, LenProperties, ElementOfSeq
  <2>3. \A i \in 1..Len(log) : log[i].client \in Client /\ log[i].n \in 1..MaxCalls
    BY <2>2
  <2>4. \A i \in 1..Len(log) : log[i].n \in Nat
    BY <2>3
  <2>5. waiting \subseteq Client /\ serving \in Client /\ requests \in Seq(Client)
    BY DEF IInv, TypeOK
  <2> HIDE DEF S
  <2> QED BY <2>2, <2>3, <2>4, <2>5
<1>2. /\ call[c].n \in Nat /\ call'[c].n = call[c].n + 1
      /\ \A d \in Client : d # c => call'[d] = call[d] /\ reply'[d] = reply[d]
  <2>1. PICK op \in Operation : call' = [call EXCEPT ![c] = [n |-> @.n + 1, op |-> op]]
    BY DEF Call
  <2> QED BY <2>1 DEF Call, IInv, TypeOK
<1>3. c \notin waiting /\ waiting' = waiting \cup {c}
      /\ UNCHANGED <<runtime, serving, log, panicked>>
  BY DEF Call
<1>4. ~Reached(c)'
  <2>1. \A i \in 1..Len(log) : log[i] # [client |-> c, n |-> call[c].n + 1]
    <3> SUFFICES ASSUME NEW i \in 1..Len(log), log[i] = [client |-> c, n |-> call[c].n + 1]
                 PROVE  FALSE
      OBVIOUS
    <3>1. log[i].n <= call[c].n
      BY DEF LInv
    <3> QED BY <1>2, <3>1
  <2> QED BY <1>2, <1>3, <2>1 DEF Reached, This
<1>5. \A d \in Client : d # c => This(d)' = This(d) /\ (Reached(d)' <=> Reached(d))
  BY <1>2, <1>3 DEF Reached, This
<1>6. LogOfCalls'
  <2> SUFFICES ASSUME NEW i \in 1..Len(log)
               PROVE  log[i].n <= call'[log[i].client].n
    BY <1>3
  <2>1. log[i].n <= call[log[i].client].n /\ log[i].client \in Client /\ log[i].n \in Nat
    BY <1>1 DEF LInv
  <2> QED BY <1>2, <2>1
<1>7. QueuedNotReached'
  <2>1. \A d \in Client : d # c => (Queued(d)' => Queued(d))
    <3>1. CASE runtime # "gone"
      <4>1. requests' = Append(requests, c)
        BY <3>1 DEF Call
      <4> QED BY <1>1, <4>1, AppendElements DEF Queued
    <3>2. CASE runtime = "gone"
      BY <3>2 DEF Call, Queued
    <3> QED BY <3>1, <3>2
  <2> QED BY <1>4, <1>5, <2>1 DEF LInv
<1>8. runtime \in {"sending", "shutting", "closing"} => serving # c
  BY <1>3 DEF IInv, QInv
<1>9. SentIsLatest' /\ ShutdownNotReached'
  BY <1>1, <1>2, <1>3, <1>5, <1>8 DEF LInv
<1>10. reply'[c] = "open" \/ (reply'[c] = "dropped" /\ runtime = "gone")
  BY DEF Call, IInv, TypeOK
<1>11. ValueRight'
  BY <1>1, <1>2, <1>3, <1>5, <1>10 DEF LInv
<1>12. DroppedRight'
  BY <1>1, <1>2, <1>3, <1>4, <1>5, <1>10 DEF LInv
<1> QED BY <1>6, <1>7, <1>9, <1>11, <1>12 DEF LInv

LEMMA TakeLInv ==
    ASSUME IInv, LInv, TakeRequest
    PROVE  LInv'
<1>0. PICK c \in Client : c = Head(requests)
  BY TailElements DEF TakeRequest, IInv, TypeOK
<1>1. /\ requests \in Seq(Client) /\ requests # <<>> /\ c \in Client
      /\ 1 \in 1..Len(requests) /\ c = requests[1]
  BY <1>0, TailElements DEF TakeRequest, IInv, TypeOK
<1>2. /\ runtime = "select" /\ serving' = c
      /\ UNCHANGED <<call, reply, waiting, panicked>>
  BY <1>0 DEF TakeRequest
<1>3. Queued(c) /\ ~Reached(c) /\ \A d \in Client : Queued(d)' => Queued(d) /\ d # c
  <2>1. Queued(c)
    BY <1>1 DEF Queued
  <2>2. /\ Len(requests) \in Nat /\ requests' = Tail(requests)
        /\ Len(requests') = Len(requests) - 1
        /\ \A i \in 1..Len(requests') : requests'[i] = requests[i + 1]
    BY <1>1, TailElements DEF TakeRequest
  <2>3. \A i \in 1..Len(requests') : i + 1 \in 1..Len(requests) /\ i + 1 # 1
    BY <2>2
  <2>4. \A i \in 1..Len(requests') : requests'[i] # c
    BY <1>1, <2>2, <2>3 DEF IInv, QInv
  <2> QED BY <1>1, <2>1, <2>2, <2>3, <2>4 DEF LInv, Queued
<1>4. \A d \in waiting : reply[d] # "dropped"
  BY <1>2 DEF LInv
<1>5. waiting \subseteq Client
  BY DEF IInv, TypeOK
<1>6. CASE call[c].op = "send"
  <2>1. log' = Append(log, This(c)) /\ runtime' = "sending"
    BY <1>0, <1>6 DEF TakeRequest, This
  <2> DEFINE S == [client : Client, n : 1..MaxCalls]
  <2>2. log \in Seq(S) /\ This(c) \in S
    <3>1. call[c].n >= 1
      BY <1>1 DEF IInv, QInv
    <3> QED BY <1>1, <3>1 DEF IInv, TypeOK, This
  <2>3. /\ Len(log) \in Nat /\ Len(log') = Len(log) + 1
        /\ \A i \in 1..Len(log) : log'[i] = log[i]
        /\ log'[Len(log) + 1] = This(c)
    BY <2>1, <2>2, AppendElements
  <2>4. \A i \in 1..Len(log') : i \in 1..Len(log) \/ i = Len(log) + 1
    BY <2>3
  <2>5. \A d : This(d)' = This(d)
    BY <1>2 DEF This
  <2>6. \A d \in Client : d # c => (Reached(d)' <=> Reached(d))
    <3>1. \A d \in Client : d # c => This(d) # This(c)
      BY DEF This
    <3> QED BY <2>3, <2>4, <2>5, <3>1 DEF Reached
  <2>7. Reached(c)'
    <3>1. Len(log) + 1 \in 1..Len(log')
      BY <2>3
    <3> QED BY <2>3, <2>5, <3>1 DEF Reached
  <2>8. LogOfCalls'
    <3>1. This(c).n <= call[This(c).client].n
      <4>1. call[c].n \in Nat
        BY <1>1 DEF IInv, TypeOK
      <4> QED BY <4>1 DEF This
    <3> QED BY <1>2, <2>3, <2>4, <3>1 DEF LInv
  <2>9. QueuedNotReached'
    BY <1>3, <2>6 DEF LInv
  <2>10. SentIsLatest' /\ ShutdownNotReached'
    BY <1>2, <1>6, <2>1, <2>3, <2>5
  <2>11. ValueRight'
    BY <1>2, <1>5, <1>6, <2>6, <2>7 DEF LInv
  <2>12. DroppedRight'
    BY <1>2, <1>4
  <2> QED BY <2>8, <2>9, <2>10, <2>11, <2>12 DEF LInv
<1>7. CASE call[c].op # "send"
  <2>1. log' = log /\ runtime' = "shutting"
    BY <1>0, <1>7 DEF TakeRequest
  <2>2. call[c].op = "shutdown"
    BY <1>1, <1>7 DEF IInv, TypeOK
  <2>3. \A d : This(d)' = This(d) /\ (Reached(d)' <=> Reached(d))
    BY <1>2, <2>1, SameReached
  <2>4. LogOfCalls' /\ QueuedNotReached'
    BY <1>2, <1>3, <2>1, <2>3 DEF LInv
  <2>5. SentIsLatest' /\ ShutdownNotReached'
    BY <1>2, <1>3, <2>1, <2>2, <2>3
  <2>6. ValueRight' /\ DroppedRight'
    BY <1>2, <1>4, <2>1, <2>3 DEF LInv
  <2> QED BY <2>4, <2>5, <2>6 DEF LInv
<1> QED BY <1>6, <1>7

\* Steps that reply: the log, the calls and what waits stay.
LEMMA RepliedLInv ==
    ASSUME IInv, LInv, NEW v \in {"value", "dropped"}, Replied(v),
           UNCHANGED <<call, waiting, requests, serving, log>>,
           runtime \in {"sending", "shutting", "closing"},
           runtime' \in {"select", "leaving"},
           runtime' = "select" => runtime = "sending",
           panicked => panicked',
           v = "value" => runtime \in {"sending", "closing"},
           v = "dropped" => runtime' = "leaving" /\ (runtime = "sending" => panicked')
    PROVE  LInv'
<1>1. \A d \in Client : reply'[d] = IF d = serving THEN v ELSE reply[d]
  BY DEF Replied, IInv, TypeOK
<1>2. waiting \subseteq Client /\ serving \in Client
  BY DEF IInv, TypeOK
<1>3. \A d : This(d)' = This(d) /\ (Reached(d)' <=> Reached(d))
  BY SameReached
<1>4. LogOfCalls' /\ QueuedNotReached' /\ SentIsLatest' /\ ShutdownNotReached'
  BY <1>3 DEF LInv, Queued
<1>5. runtime = "sending" => Reached(serving)
  <2>1. runtime = "sending" => Len(log) \in 1..Len(log)
    BY LenProperties DEF LInv, IInv, TypeOK
  <2> QED BY <2>1 DEF LInv, Reached
<1>6. ValueRight'
  BY <1>1, <1>2, <1>3, <1>5 DEF LInv
<1>7. DroppedRight'
  BY <1>1, <1>2, <1>3 DEF LInv
<1> QED BY <1>4, <1>6, <1>7 DEF LInv

LEMMA DropLInv ==
    ASSUME IInv, LInv, DropRuntime
    PROVE  LInv'
<1>1. /\ runtime = "leaving" /\ runtime' = "gone" /\ requests' = <<>>
      /\ Len(requests') = 0
      /\ UNCHANGED <<call, waiting, log, serving, panicked>>
  BY EmptySeq DEF DropRuntime
<1>2. \A d \in Client : reply'[d] = IF Queued(d) THEN "dropped" ELSE reply[d]
  BY DEF DropRuntime
<1>3. \A d : This(d)' = This(d) /\ (Reached(d)' <=> Reached(d))
  BY <1>1, SameReached
<1>4. waiting \subseteq Client
  BY DEF IInv, TypeOK
<1>5. LogOfCalls' /\ QueuedNotReached' /\ SentIsLatest' /\ ShutdownNotReached'
  BY <1>1 DEF LInv, Queued
<1>6. ValueRight' /\ DroppedRight'
  BY <1>1, <1>2, <1>3, <1>4 DEF LInv
<1> QED BY <1>5, <1>6 DEF LInv

LEMMA StepLInv == IInv /\ LInv /\ [Next]_vars => LInv'
  <1> SUFFICES ASSUME IInv, LInv, [Next]_vars PROVE LInv'
    OBVIOUS
  <1>1. ASSUME UNCHANGED <<call, reply, waiting, requests, serving, log, panicked>>,
               ~Open => ~Open',
               runtime' = "sending" => runtime = "sending",
               runtime' \in {"shutting", "closing"} => runtime \in {"shutting", "closing"}
        PROVE  LInv'
    <2>1. \A d : This(d)' = This(d) /\ (Reached(d)' <=> Reached(d))
      BY <1>1, SameReached
    <2> QED BY <1>1, <2>1 DEF LInv, Queued
  <1>2. CASE UNCHANGED vars
    BY <1>1, <1>2
  <1>3. ASSUME NEW c \in Client, Call(c) PROVE LInv'
    BY <1>3, CallLInv
  <1>4. ASSUME NEW c \in Client, Return(c) PROVE LInv'
    <2>1. \A d : This(d)' = This(d) /\ (Reached(d)' <=> Reached(d))
      BY <1>4, SameReached DEF Return
    <2> QED BY <1>4, <2>1 DEF LInv, Queued, Return
  <1>5. CASE DiscardBatch \/ EventsClosed \/ MonitorStep
    BY <1>1, <1>5 DEF DiscardBatch, EventsClosed, MonitorStep, SendBatch, MonitorEnds
  <1>6. CASE TakeRequest
    BY <1>6, TakeLInv
  <1>7. CASE ReplyToSend
    BY <1>7, RepliedLInv DEF ReplyToSend
  <1>8. CASE ChainPanics
    BY <1>8, RepliedLInv DEF ChainPanics
  <1>9. CASE ReplyToShutdown
    BY <1>9, RepliedLInv DEF ReplyToShutdown
  <1>10. CASE TellMonitor
    <2>1. CASE monitor = "running"
      BY <1>1, <1>10, <2>1 DEF TellMonitor
    <2>2. CASE monitor # "running"
      BY <1>10, <2>2, RepliedLInv DEF TellMonitor
    <2> QED BY <2>1, <2>2
  <1>11. CASE DropRuntime
    BY <1>11, DropLInv
  <1> QED
    BY <1>2, <1>3, <1>4, <1>5, <1>6, <1>7, <1>8, <1>9, <1>10, <1>11 DEF Next, RuntimeStep

\* Every step is one of the service, or none.
LEMMA StepService == IInv /\ LInv /\ [Next]_vars => [Service!Next]_(Service!service)
  <1> SUFFICES ASSUME IInv, LInv, [Next]_vars
               PROVE  Service!Next \/ UNCHANGED Service!service
    OBVIOUS
  <1> USE DEF Service!service
  <1>1. \A c : This(c) = Service!This(c) /\ (Reached(c) <=> Service!Reached(c))
    BY DEF This, Reached, Service!This, Service!Reached
  <1>2. CASE UNCHANGED vars
    BY <1>2
  <1>3. ASSUME NEW c \in Client, Call(c) PROVE Service!Next
    <2>1. Service!Invoke(c)
      BY <1>3 DEF Call, Service!Invoke, Service!Operation
    <2> QED BY <2>1 DEF Service!Next
  <1>4. ASSUME NEW c \in Client, Return(c) PROVE Service!Next
    <2>1. c \in waiting /\ reply[c] \in {"value", "dropped"}
      BY <1>4 DEF Return, IInv, TypeOK
    <2>2. CASE reply[c] = "value"
      <3>1. Service!Answer(c)
        BY <1>1, <1>4, <2>1, <2>2 DEF Return, LInv, Service!Answer
      <3> QED BY <3>1 DEF Service!Next
    <2>3. CASE reply[c] = "dropped"
      <3>1. Service!Refuse(c)
        BY <1>1, <1>4, <2>1, <2>3 DEF Return, LInv, Service!Refuse
      <3> QED BY <3>1 DEF Service!Next
    <2> QED BY <2>1, <2>2, <2>3
  <1>5. CASE DiscardBatch \/ MonitorStep \/ ReplyToSend \/ ReplyToShutdown \/ DropRuntime
    BY <1>5 DEF DiscardBatch, MonitorStep, SendBatch, MonitorEnds, ReplyToSend,
                ReplyToShutdown, DropRuntime
  <1>6. CASE EventsClosed
    <2>1. Service!Close
      BY <1>6 DEF EventsClosed, Service!Close, IInv, TypeOK
    <2> QED BY <2>1 DEF Service!Next
  <1>7. CASE ChainPanics
    <2>1. Service!Close
      BY <1>7 DEF ChainPanics, Service!Close
    <2> QED BY <2>1 DEF Service!Next
  <1>8. CASE TellMonitor
    <2>1. Service!Close
      BY <1>8 DEF TellMonitor, Service!Close, IInv, TypeOK
    <2> QED BY <2>1 DEF Service!Next
  <1>9. CASE TakeRequest
    <2>1. PICK c \in Client : c = Head(requests)
      BY TailElements, <1>9 DEF TakeRequest, IInv, TypeOK
    <2>2. Queued(c)
      <3>1. requests \in Seq(Client) /\ requests # <<>>
        BY <1>9 DEF TakeRequest, IInv, TypeOK
      <3>2. 1 \in 1..Len(requests) /\ requests[1] = c
        BY <2>1, <3>1, TailElements
      <3> QED BY <3>2 DEF Queued
    <2>3. c \in waiting /\ ~Reached(c)
      BY <2>2 DEF Queued, IInv, QInv, LInv
    <2>4. CASE call[c].op = "send"
      <3>1. Service!Perform(c)
        BY <1>1, <1>9, <2>1, <2>3, <2>4 DEF TakeRequest, This, Service!Perform
      <3> QED BY <3>1 DEF Service!Next
    <2>5. CASE call[c].op # "send"
      BY <1>9, <2>1, <2>5 DEF TakeRequest
    <2> QED BY <2>4, <2>5
  <1> QED
    BY <1>2, <1>3, <1>4, <1>5, <1>6, <1>7, <1>8, <1>9 DEF Next, RuntimeStep

\* The runtime keeps the promise of ChainService: a call reaches the chain at
\* most once, an answer means that it did, an error that it did not (unless the
\* runtime died in it), and none does after a shutdown was answered.
THEOREM ServiceHolds == Spec => ServiceSpec
<1>1. Init => Service!Init
  BY DEF Init, Service!Init
<1> QED
  BY <1>1, InitLInv, StepLInv, StepService, IInvHolds, PTL
  DEF Spec, ServiceSpec, Service!Spec

(***************************************************************************)
(* In which order the chain is called, and what a waiting client has       *)
(* before it.                                                              *)
(***************************************************************************)

\* The calls of one client reach the chain in the order it made them, none twice.
LogInOrder ==
    \A i, j \in 1..Len(log) :
        i < j /\ log[i].client = log[j].client => log[i].n < log[j].n

LEMMA TakeInOrder ==
    ASSUME IInv, LInv, LogInOrder, TakeRequest
    PROVE  LogInOrder'
<1>1. PICK c \in Client : c = Head(requests) /\ Queued(c) /\ call[c].n \in 1..MaxCalls
  <2>1. /\ Head(requests) = requests[1] /\ requests[1] \in Client
        /\ 1 \in 1..Len(requests)
    BY TailElements DEF TakeRequest, IInv, TypeOK
  <2>2. Queued(requests[1]) /\ requests[1] \in waiting
    BY <2>1 DEF Queued, IInv, QInv
  <2>3. call[requests[1]].n \in 1..MaxCalls
    BY <2>1, <2>2 DEF IInv, QInv, TypeOK
  <2> QED BY <2>1, <2>2, <2>3
<1>2. CASE log' = log
  BY <1>2 DEF LogInOrder
<1>3. CASE log' # log
  <2> DEFINE S == [client : Client, n : 1..MaxCalls]
  <2>1. log' = Append(log, This(c)) /\ log \in Seq(S) /\ This(c) \in S
    BY <1>1, <1>3 DEF TakeRequest, This, IInv, TypeOK
  <2>2. /\ Len(log) \in Nat /\ Len(log') = Len(log) + 1
        /\ \A i \in 1..Len(log) : log'[i] = log[i] /\ log[i] \in S
        /\ log'[Len(log) + 1] = This(c)
    <3> HIDE DEF S
    <3>1. \A i \in 1..Len(log) : log[i] \in S
      BY <2>1, ElementOfSeq
    <3> QED BY <2>1, <3>1, AppendElements
  <2>3. ASSUME NEW i \in 1..Len(log), log[i].client = c PROVE log[i].n < This(c).n
    <3>1. log[i].n <= call[c].n /\ log[i].n \in Nat /\ call[c].n \in Nat
      BY <1>1, <2>2, <2>3 DEF LInv
    <3>2. log[i] # This(c)
      BY <1>1 DEF LInv, Reached
    <3>3. log[i] = [client |-> c, n |-> log[i].n]
      BY <2>2, <2>3
    <3> QED BY <3>1, <3>2, <3>3 DEF This
  <2>4. ASSUME NEW i \in 1..Len(log'), NEW j \in 1..Len(log'),
               i < j, log'[i].client = log'[j].client
        PROVE  log'[i].n < log'[j].n
    <3>1. i \in 1..Len(log) /\ (j \in 1..Len(log) \/ j = Len(log) + 1)
      BY <2>2, <2>4
    <3>2. CASE j \in 1..Len(log)
      BY <2>2, <2>4, <3>1, <3>2 DEF LogInOrder
    <3>3. CASE j = Len(log) + 1
      BY <2>2, <2>3, <2>4, <3>1, <3>3 DEF This
    <3> QED BY <3>1, <3>2, <3>3
  <2> QED BY <2>4 DEF LogInOrder
<1> QED BY <1>2, <1>3

\* What several threads ask of the chain is done in the order in which each of
\* them asked, and no call is done twice, whatever becomes of runtime and monitor.
THEOREM PerformedInOrder == Spec => []LogInOrder
<1>1. Init => LogInOrder
  BY EmptySeq DEF Init, LogInOrder
<1>2. IInv /\ LInv /\ LogInOrder /\ [Next]_vars => LogInOrder'
  <2> SUFFICES ASSUME IInv, LInv, LogInOrder, [Next]_vars PROVE LogInOrder'
    OBVIOUS
  <2>1. log' = log \/ TakeRequest
    BY DEF Next, Call, Return, RuntimeStep, MonitorStep, DiscardBatch, EventsClosed,
           ReplyToSend, ChainPanics, TellMonitor, ReplyToShutdown, DropRuntime, SendBatch,
           MonitorEnds
  <2> QED BY <2>1, TakeInOrder DEF LogInOrder
<1> QED BY <1>1, <1>2, InitLInv, StepLInv, IInvHolds, PTL DEF Spec

\* Who still waits for a reply has a runtime that can take a step: one that has
\* its request, is on its way out, or has a request to take.
SomebodyActs ==
    \A c \in waiting : reply[c] = "open" =>
        /\ runtime # "gone"
        /\ runtime = "select" => requests # <<>>

\* No client waits for a runtime that has nothing to do or is gone.
THEOREM NobodyWaitsInVain == Spec => []SomebodyActs
<1>1. ASSUME IInv PROVE SomebodyActs
  <2>1. requests = <<>> => \A c : ~Queued(c)
    BY EmptySeq DEF Queued
  <2> QED BY <1>1, <2>1 DEF IInv, QInv, TypeOK, Serving, SomebodyActs
<1> QED BY <1>1, IInvHolds, PTL
================================================================================
