--------------------------- MODULE EventMonitorProofs ---------------------------
(***************************************************************************)
(* Theorems about EventMonitor, for every bound and every set of faults.   *)
(***************************************************************************)
EXTENDS EventMonitor, SequenceFacts

USE DEF Current, SubErrors, ItemKind, MonitorPC, DriverStatus, Query, EventQueries

--------------------------------------------------------------------------------
(***************************************************************************)
(* The helpers.                                                            *)
(***************************************************************************)

\* What try_group_while yields on an element is made of non-empty groups.
LEMMA YieldedOnItemType ==
    ASSUME NEW b \in Block, NEW p \in Seq(Block)
    PROVE  /\ PendingAfterItem(p, b) \in Seq(Block)
           /\ YieldedOnItem(p, b) \in Seq(Result)
<1>1. ASSUME p # <<>> PROVE Group(p) \in Result
  BY <1>1 DEF Group, Result
<1>2. PendingAfterItem(p, b) \in Seq(Block)
  BY DEF PendingAfterItem
<1>3. YieldedOnItem(p, b) \in Seq(Result)
  BY <1>1 DEF YieldedOnItem
<1> QED BY <1>2, <1>3

\* So is what it yields at the end of its input.
LEMMA YieldedAtEndType ==
    ASSUME NEW p \in Seq(Block)
    PROVE  YieldedAtEnd(p) \in Seq(Result)
<1>1. ASSUME p # <<>> PROVE Group(p) \in Result
  BY <1>1 DEF Group, Result
<1> QED BY <1>1 DEF YieldedAtEnd

\* On an error it yields up to two groups, then the error.
LEMMA YieldedOnErrorType ==
    ASSUME NEW p \in Seq(Block), NEW e \in SubErrors
    PROVE  YieldedOnError(p, e) \in Seq(Result)
<1>1. ASSUME NEW g \in Seq(Block), g # <<>> PROVE Group(g) \in Result
  BY <1>1 DEF Group, Result
<1>2. Failure(e) \in Result
  <2>1. <<>> \in Seq(Block)
    OBVIOUS
  <2>2. e # "group"
    OBVIOUS
  <2> QED BY <2>1, <2>2 DEF Failure, Result
<1>3. CASE Len(p) = 0
  BY <1>2, <1>3 DEF YieldedOnError
<1>4. CASE Len(p) = 1
  <2>1. p # <<>>
    BY <1>4
  <2> QED BY <1>1, <1>2, <1>4, <2>1 DEF YieldedOnError
<1>5. CASE Len(p) > 1
  <2> DEFINE front == SubSeq(p, 1, Len(p) - 1)
             back  == <<p[Len(p)]>>
  <2>1. front \in Seq(Block) /\ front # <<>>
    <3>1. \A i \in 1..Len(p) - 1 : p[i] \in Block
      OBVIOUS
    <3>2. front \in Seq(Block) /\ Len(front) > 0
      BY <1>5, <3>1, SubSeqProperties, LenProperties
    <3> HIDE DEF front
    <3> QED BY <3>2, EmptySeq
  <2>2. back \in Seq(Block) /\ back # <<>>
    BY <1>5
  <2>3. Group(front) \in Result /\ Group(back) \in Result
    BY <1>1, <2>1, <2>2
  <2>4. YieldedOnError(p, e) = <<Group(front), Group(back), Failure(e)>>
    BY <1>5 DEF YieldedOnError
  <2> QED BY <1>2, <2>3, <2>4
<1> QED BY <1>3, <1>4, <1>5, LenCases

\* The elements of a group are at one height.
OneHeight(p) == \A i, j \in 1..Len(p) : p[i].height = p[j].height

\* try_group_while, for elements of any kind.  Turn by turn, what was pending and
\* the new element are again what it yields and what is pending, in this order; a
\* group is of one height and ends where the height changes; before an error
\* comes all that was pending, though its last element is in a group of its own.
THEOREM GroupingKeepsAll ==
    ASSUME NEW E, NEW p \in Seq(E), NEW x \in E, NEW e, OneHeight(p)
    PROVE  /\ OneHeight(PendingAfterItem(p, x)) /\ PendingAfterItem(p, x) # <<>>
           /\ \/ /\ YieldedOnItem(p, x) = <<>>
                 /\ PendingAfterItem(p, x) = p \o <<x>>
              \/ /\ YieldedOnItem(p, x) = <<Group(p)>> /\ p # <<>>
                 /\ PendingAfterItem(p, x) = <<x>> /\ p[Len(p)].height # x.height
           /\ \/ p = <<>> /\ YieldedOnError(p, e) = <<Failure(e)>>
              \/ Len(p) = 1 /\ YieldedOnError(p, e) = <<Group(p), Failure(e)>>
              \/ \E a, b \in Seq(E) :
                    /\ a \o b = p /\ a # <<>> /\ Len(b) = 1
                    /\ YieldedOnError(p, e) = <<Group(a), Group(b), Failure(e)>>
<1> DEFINE
      OnItem  == /\ OneHeight(PendingAfterItem(p, x)) /\ PendingAfterItem(p, x) # <<>>
                 /\ \/ /\ YieldedOnItem(p, x) = <<>>
                       /\ PendingAfterItem(p, x) = p \o <<x>>
                    \/ /\ YieldedOnItem(p, x) = <<Group(p)>> /\ p # <<>>
                       /\ PendingAfterItem(p, x) = <<x>> /\ p[Len(p)].height # x.height
      OnError == \/ p = <<>> /\ YieldedOnError(p, e) = <<Failure(e)>>
                 \/ Len(p) = 1 /\ YieldedOnError(p, e) = <<Group(p), Failure(e)>>
                 \/ \E a, b \in Seq(E) :
                       /\ a \o b = p /\ a # <<>> /\ Len(b) = 1
                       /\ YieldedOnError(p, e) = <<Group(a), Group(b), Failure(e)>>
<1>1. Len(p) \in Nat /\ (p = <<>> <=> Len(p) = 0) /\ (Len(p) > 0 => p[Len(p)] \in E)
  BY LenProperties, LenCases, ElementOfSeq
<1>2. /\ p \o <<x>> = Append(p, x)
      /\ Append(p, x) \in Seq(E) /\ Len(Append(p, x)) = Len(p) + 1
      /\ \A i \in 1..Len(p) : Append(p, x)[i] = p[i]
      /\ Append(p, x)[Len(p) + 1] = x
  BY AppendElements, AppendIsConcat
<1>3. ASSUME p # <<>>, SameGroup(p, x) PROVE OnItem
  <2>1. PendingAfterItem(p, x) = Append(p, x) /\ YieldedOnItem(p, x) = <<>>
    BY <1>3 DEF PendingAfterItem, YieldedOnItem
  <2>2. \A i \in 1..Len(p) : p[i].height = x.height
    BY <1>1, <1>3 DEF SameGroup, OneHeight
  <2>3. OneHeight(Append(p, x))
    BY <1>1, <1>2, <2>2 DEF OneHeight
  <2>4. Append(p, x) # <<>>
    BY <1>1, <1>2, EmptySeq
  <2> QED BY <1>2, <2>1, <2>3, <2>4
<1>4. ASSUME p = <<>> \/ ~SameGroup(p, x) PROVE OnItem
  <2>1. PendingAfterItem(p, x) = <<x>>
    BY <1>4 DEF PendingAfterItem
  <2>2. OneHeight(<<x>>) /\ <<x>> # <<>>
    BY SingletonSeq DEF OneHeight
  <2>3. CASE p = <<>>
    <3>1. YieldedOnItem(p, x) = <<>> /\ p \o <<x>> = <<x>>
      BY <2>3, SingletonSeq, ConcatEmptySeq DEF YieldedOnItem
    <3> QED BY <2>1, <2>2, <3>1
  <2>4. CASE p # <<>>
    <3>1. YieldedOnItem(p, x) = <<Group(p)>> /\ p[Len(p)].height # x.height
      BY <1>4, <2>4 DEF YieldedOnItem, SameGroup
    <3> QED BY <2>1, <2>2, <2>4, <3>1
  <2> QED BY <2>3, <2>4
<1>5. ASSUME Len(p) = 0 PROVE OnError
  BY <1>1, <1>5 DEF YieldedOnError
<1>6. ASSUME Len(p) = 1 PROVE OnError
  BY <1>6 DEF YieldedOnError
<1>7. ASSUME Len(p) > 1 PROVE OnError
  <2> DEFINE front == SubSeq(p, 1, Len(p) - 1)
             back  == <<p[Len(p)]>>
  <2>1. \A i \in 1..Len(p) : p[i] \in E
    BY ElementOfSeq
  <2>2. /\ front \in Seq(E) /\ Len(front) = Len(p) - 1
        /\ \A i \in 1..Len(p) - 1 : front[i] = p[i]
    BY <1>1, <1>7, <2>1, SubSeqProperties
  <2>3. back \in Seq(E) /\ Len(back) = 1 /\ back[1] = p[Len(p)]
    BY <1>1, <1>7, SingletonSeq
  <2>4. YieldedOnError(p, e) = <<Group(front), Group(back), Failure(e)>>
    BY <1>7 DEF YieldedOnError
  <2> HIDE DEF front, back
  <2>5. /\ front \o back \in Seq(E) /\ Len(front \o back) = Len(p)
        /\ \A i \in 1..Len(p) : (front \o back)[i] = p[i]
    <3>1. /\ front \o back \in Seq(E) /\ Len(front \o back) = Len(front) + Len(back)
          /\ \A i \in 1..Len(front) + Len(back) :
               (front \o back)[i] = IF i <= Len(front) THEN front[i] ELSE back[i - Len(front)]
      BY <2>2, <2>3, ConcatProperties
    <3> QED BY <1>1, <2>2, <2>3, <3>1
  <2>6. front \o back = p
    BY <2>5, SeqEqual
  <2>7. front # <<>>
    BY <1>7, <2>2, EmptySeq
  <2> QED BY <2>2, <2>3, <2>4, <2>6, <2>7
<1>8. OnItem
  BY <1>3, <1>4
<1>9. OnError
  BY <1>1, <1>5, <1>6, <1>7, LenCases
<1> QED BY <1>8, <1>9

--------------------------------------------------------------------------------
(***************************************************************************)
(* The types.                                                              *)
(***************************************************************************)
USE ConstantsAssumption DEF AllFaults

\* A started monitor's client is a connection, with a driver.
LEMMA CurrentDriver ==
    ASSUME TypeOK, NEW c \in 1..Current
    PROVE  drivers[c] \in DriverStatus /\ Current \in Nat
  BY DEF TypeOK

\* Emptied subscriptions have the type of subscriptions.
LEMMA EmptySubsType == EmptySubs \in [Query -> Seq(Items)]
  <1>1. <<>> \in Seq(Items)
    BY EmptySeq
  <1> QED BY <1>1 DEF EmptySubs

\* A failed attempt only touches the retry counter, its verdict and pc.
LEMMA RetryType ==
    ASSUME TypeOK, RetryOrGiveUp
    PROVE  /\ pc' \in {"dial", "top"} /\ pc' \in MonitorPC
           /\ tries' \in 0..MaxDelays /\ gaveUp' \in BOOLEAN
  <1>1. CASE tries > 0
    BY <1>1 DEF TypeOK, RetryOrGiveUp
  <1>2. CASE ~(tries > 0)
    BY <1>2 DEF TypeOK, RetryOrGiveUp
  <1> QED BY <1>1, <1>2

\* Closing a client moves its driver's status within the statuses.
LEMMA ClosingType ==
    ASSUME TypeOK, Current >= 1
    PROVE  /\ Closing(Current) \in DriverStatus
           /\ [drivers EXCEPT ![Current] = Closing(Current)] \in Seq(DriverStatus)
           /\ Len([drivers EXCEPT ![Current] = Closing(Current)]) = Len(drivers)
  <1>1. drivers \in Seq(DriverStatus) /\ Len(drivers) \in 1..Len(drivers)
    BY LenProperties DEF TypeOK
  <1>2. Closing(Current) \in DriverStatus
    BY <1>1, ElementOfSeq DEF Closing
  <1> QED BY <1>1, <1>2, UpdateElement

\* Every step of the monitor's thread keeps the types.
LEMMA MonitorTypeOK ==
    ASSUME TypeOK, Phases, MonitorStep
    PROVE  TypeOK'
<1> USE DEF TypeOK, control, stream, output, node
<1>1. CASE New
  <2>1. <<"running">> \in Seq(DriverStatus)
    BY SingletonSeq
  <2> QED BY <1>1, <2>1 DEF New
<1>2. CASE Subscribe
  <2>1. nsub + 1 \in 0..2
    BY <1>2 DEF Subscribe, Phases
  <2> QED BY <1>2, <2>1 DEF Subscribe
<1>3. CASE SubscribeFails
  <2>1. pc' \in MonitorPC /\ tries' \in 0..MaxDelays /\ gaveUp' \in BOOLEAN
    BY <1>3, RetryType DEF SubscribeFails
  <2>2. faults' \in 0..MaxFaults
    BY <1>3 DEF SubscribeFails, Fault
  <2> QED BY <1>3, <2>1, <2>2, EmptySubsType DEF SubscribeFails
<1>4. CASE CheckCommand
  <2>1. CASE cmd = "sent"
    BY <1>4, <2>1, EmptySubsType, EmptySeq DEF CheckCommand
  <2>2. CASE cmd # "sent"
    BY <1>4, <2>2 DEF CheckCommand
  <2> QED BY <2>1, <2>2
<1>5. CASE \E q \in Query : Pull(q)
  <2> PICK q \in Query : Pull(q)
    BY <1>5
  <2>1. subs[q] \in Seq(Items) /\ subs[q] # <<>>
    BY DEF Pull
  <2>2. Head(subs[q]) \in Items /\ Tail(subs[q]) \in Seq(Items)
    BY <2>1, HeadTailProperties
  <2>3. subs' \in [Query -> Seq(Items)]
    BY <2>2 DEF Pull
  <2> DEFINE item == Head(subs[q])
             e    == [height |-> item.height, conn |-> item.conn]
  <2>4. pc' \in MonitorPC /\ pend' \in Seq(Block) /\ outbuf' \in Seq(Result)
    <3>1. CASE item.kind = "block"
      <4>1. e \in Block
        BY <2>2, <3>1 DEF Items, Block
      <4>2. /\ pend' = PendingAfterItem(pend, e) /\ pc' = pc
            /\ outbuf' = YieldedOnItem(pend, e)
        BY <3>1 DEF Pull
      <4> QED BY <4>1, <4>2, YieldedOnItemType
    <3>2. CASE item.kind \in SubErrors
      <4>1. /\ pend' = <<>> /\ outbuf' = YieldedOnError(pend, item.kind) /\ pc' = pc
        BY <3>2 DEF Pull
      <4> QED BY <3>2, <4>1, YieldedOnErrorType, EmptySeq
    <3>3. CASE item.kind \in {"silent", "poison"}
      BY <3>3 DEF Pull
    <3> QED BY <2>2, <3>1, <3>2, <3>3 DEF Items
  <2>5. UNCHANGED <<cmd, tries, gaveUp, drivers, errs, nsub, output, node, faults>>
    BY DEF Pull
  <2> QED BY <2>3, <2>4, <2>5
<1>6. CASE EndOfStream
  BY <1>6, YieldedAtEndType, EmptySeq DEF EndOfStream
<1>7. CASE SendBatch
  <2>1. Head(outbuf) \in Result /\ Tail(outbuf) \in Seq(Result)
    BY <1>7, HeadTailProperties DEF SendBatch
  <2>2. Head(outbuf).events \in Seq(Block) /\ Head(outbuf).events # <<>>
    BY <1>7, <2>1 DEF SendBatch, Result
  <2>3. Head(outbuf).events[1] \in Block
    BY <2>2, TailElements
  <2>4. last' \in [height : 0..MaxHeight, conn : Nat] /\ noticed' \in BOOLEAN
    <3>1. noticed' \in BOOLEAN
      BY <1>7, Zenon DEF SendBatch
    <3>2. last' = Head(outbuf).events[1] \/ last' = last
      BY <1>7 DEF SendBatch
    <3> QED BY <2>3, <3>1, <3>2 DEF Block
  <2>5. outbuf' \in Seq(Result)
    BY <1>7, <2>1 DEF SendBatch
  <2>6. /\ pc' = "top"
        /\ UNCHANGED <<cmd, tries, gaveUp, drivers, errs, nsub, subs, pend,
                       listening, node, faults>>
    BY <1>7 DEF SendBatch
  <2> QED BY <2>4, <2>5, <2>6
<1>8. CASE StreamError
  <2>1. noticed' \in BOOLEAN
    BY <1>8, Zenon DEF StreamError
  <2>2. StartReconnect /\ UNCHANGED <<cmd, gaveUp, drivers, errs, listening, last, node, faults>>
    BY <1>8 DEF StreamError
  <2> QED BY <2>1, <2>2, EmptySubsType, EmptySeq DEF StartReconnect
<1>9. CASE DriverError
  BY <1>9, EmptySubsType, EmptySeq DEF DriverError, StartReconnect
<1>10. CASE Dial
  <2>1. Current >= 1
    BY <1>10 DEF Dial, Phases
  <2>2. drivers' \in Seq(DriverStatus)
    BY <1>10, <2>1, ClosingType, AppendProperties DEF Dial
  <2> QED BY <1>10, <2>2 DEF Dial
<1>11. CASE DialFails
  BY <1>11, RetryType DEF DialFails
<1>12. CASE Join
  <2>1. pc' \in MonitorPC /\ tries' \in 0..MaxDelays /\ gaveUp' \in BOOLEAN
    BY <1>12, RetryType DEF Join
  <2> QED BY <1>12, <2>1 DEF Join
<1>13. CASE Close
  <2>1. Current >= 1
    BY <1>13 DEF Close, Phases
  <2> QED BY <1>13, <2>1, ClosingType DEF Close
<1>14. CASE JoinLast
  BY <1>14 DEF JoinLast
<1> QED BY <1>1, <1>2, <1>3, <1>4, <1>5, <1>6, <1>7, <1>8, <1>9, <1>10,
           <1>11, <1>12, <1>13, <1>14 DEF MonitorStep

\* A driver's step moves one status, and may relay one error.
LEMMA DriverToType ==
    ASSUME TypeOK, NEW c \in 1..Current, NEW from, NEW to \in DriverStatus,
           DriverTo(c, from, to)
    PROVE  /\ drivers' \in Seq(DriverStatus) /\ Len(drivers') = Len(drivers)
           /\ \A d \in 1..Current : drivers'[d] = IF d = c THEN to ELSE drivers[d]
  BY UpdateElement DEF TypeOK, DriverTo

LEMMA DriverTypeOK ==
    ASSUME TypeOK, DriverStep
    PROVE  TypeOK'
<1> USE DEF TypeOK, control, stream, output, node
<1> PICK c \in 1..Current :
      DriverFails(c) \/ DriverRelays(c) \/ DriverCloses(c) \/ DriverPanics(c)
  BY DEF DriverStep
<1>0. Current \in Nat
  BY LenProperties
<1>1. CASE DriverFails(c)
  BY <1>1, DriverToType DEF DriverFails, Fault
<1>2. CASE DriverRelays(c)
  <2>1. drivers' \in Seq(DriverStatus)
    BY <1>2, DriverToType DEF DriverRelays
  <2>2. errs' \in Seq(Nat)
    BY <1>0, <1>2, AppendProperties DEF DriverRelays
  <2> QED BY <1>2, <2>1, <2>2 DEF DriverRelays
<1>3. CASE DriverCloses(c)
  BY <1>3, DriverToType DEF DriverCloses
<1>4. CASE DriverPanics(c)
  BY <1>4, DriverToType DEF DriverPanics, Fault
<1> QED BY <1>1, <1>2, <1>3, <1>4

\* Publishing appends to at most one subscription.
LEMMA PublishType ==
    ASSUME TypeOK, NEW q \in Query, NEW item \in Items, Publish(q, item)
    PROVE  subs' \in [Query -> Seq(Items)]
<1>1. Append(subs[q], item) \in Seq(Items)
  BY AppendProperties DEF TypeOK
<1> QED BY <1>1 DEF TypeOK, Publish

LEMMA EnvironmentTypeOK ==
    ASSUME TypeOK, Environment
    PROVE  TypeOK'
<1> USE DEF TypeOK, control, stream, output, node
<1>0. Current \in Nat
  BY LenProperties
<1>1. CASE CommitBlock
  <2>1. height + 1 \in 1..MaxHeight /\ height' = height + 1
    BY <1>1 DEF CommitBlock
  <2>2. subs' \in [Query -> Seq(Items)] /\ malformed' \subseteq 1..MaxHeight /\ faults' \in 0..MaxFaults
    <3>1. CASE /\ Publish("NewBlock", Item("block", height', Current))
               /\ UNCHANGED <<malformed, faults>>
      <4>1. CASE Current = 0
        BY <3>1, <4>1 DEF Publish, Running
      <4>2. CASE Current # 0
        <5>1. Item("block", height', Current) \in Items
          BY <1>0, <2>1, <4>2 DEF Items, Item
        <5> QED BY <3>1, <5>1, PublishType
      <4> QED BY <4>1, <4>2
    <3>2. CASE /\ Fault("malformed")
               /\ Publish("NewBlock", Item("silent", height', Current))
               /\ malformed' = malformed \cup {height'}
      <4>1. Item("silent", height', Current) \in Items
        BY <1>0, <2>1 DEF Items, Item
      <4>2. subs' \in [Query -> Seq(Items)]
        BY <3>2, <4>1, PublishType
      <4>3. faults' \in 0..MaxFaults
        BY <3>2 DEF Fault
      <4> QED BY <2>1, <3>2, <4>2, <4>3
    <3> QED BY <1>1, <3>1, <3>2 DEF CommitBlock
  <2> QED BY <1>1, <2>1, <2>2 DEF CommitBlock
<1>2. CASE CommitTx
  <2>1. Item("silent", 0, Current) \in Items /\ Item("poison", 0, Current) \in Items
    BY <1>0 DEF Items, Item
  <2>2. subs' \in [Query -> Seq(Items)]
    BY <1>2, <2>1, PublishType DEF CommitTx
  <2>3. faults' \in 0..MaxFaults
    BY <1>2 DEF CommitTx, Fault
  <2> QED BY <1>2, <2>2, <2>3 DEF CommitTx
<1>3. CASE SubscriptionFails
  <2> PICK q \in Query, kind \in SubErrors :
        /\ Fault(kind) /\ Publish(q, Item(kind, 0, Current))
        /\ UNCHANGED <<control, drivers, errs, nsub, pend, outbuf, output, node>>
    BY <1>3 DEF SubscriptionFails
  <2>1. Item(kind, 0, Current) \in Items
    BY <1>0 DEF Items, Item
  <2>2. subs' \in [Query -> Seq(Items)]
    BY <2>1, PublishType
  <2>3. faults' \in 0..MaxFaults
    BY DEF Fault
  <2> QED BY <2>2, <2>3
<1>4. CASE EndpointDown
  <2>1. up' \in BOOLEAN
    BY <1>4, Zenon DEF EndpointDown
  <2>2. Fault("endpoint")
    BY <1>4 DEF EndpointDown
  <2>3. UNCHANGED <<control, drivers, errs, stream, output, height, malformed>>
    BY <1>4 DEF EndpointDown
  <2> QED BY <2>1, <2>2, <2>3 DEF Fault
<1>5. CASE EndpointUp
  BY <1>5 DEF EndpointUp
<1>6. CASE SendShutdown
  BY <1>6 DEF SendShutdown
<1>7. CASE ConsumerDrops
  <2>1. listening' \in BOOLEAN
    BY <1>7, Zenon DEF ConsumerDrops
  <2>2. Fault("consumer")
    BY <1>7 DEF ConsumerDrops
  <2>3. UNCHANGED <<control, drivers, errs, stream, last, noticed, node>>
    BY <1>7 DEF ConsumerDrops
  <2> QED BY <2>1, <2>2, <2>3 DEF Fault
<1> QED BY <1>1, <1>2, <1>3, <1>4, <1>5, <1>6, <1>7 DEF Environment

\* TypeOK is inductive relative to Phases.
LEMMA StepTypeOK ==
    ASSUME TypeOK, Phases, [Next]_vars
    PROVE  TypeOK'
<1>1. CASE UNCHANGED vars
  BY <1>1 DEF TypeOK, vars, control, stream, output, node
<1> QED BY <1>1, MonitorTypeOK, DriverTypeOK, EnvironmentTypeOK DEF Next

--------------------------------------------------------------------------------
(***************************************************************************)
(* The phases.                                                             *)
(***************************************************************************)

\* NewBlock is the last query: its subscription needs both.
LEMMA SubscribedBoth ==
    ASSUME TypeOK
    PROVE  Subscribed("NewBlock") <=> nsub = 2
  BY DEF TypeOK, Subscribed

LEMMA SubscribedSome ==
    ASSUME TypeOK, NEW q \in Query, Subscribed(q)
    PROVE  nsub # 0
  BY DEF TypeOK, Subscribed

\* The queue of a subscription that is not there stays as it is.
LEMMA PublishPhases ==
    ASSUME TypeOK, Phases, NEW q \in Query, NEW item, Publish(q, item), nsub' = nsub
    PROVE  /\ nsub' # 2 => Queue' = Queue
           /\ nsub' = 0 => subs'["Tx"] = subs["Tx"]
<1>1. nsub # 2 => subs'["NewBlock"] = subs["NewBlock"]
  BY SubscribedBoth DEF Publish, TypeOK
<1>2. nsub = 0 => subs' = subs
  BY SubscribedSome DEF Publish
<1> QED BY <1>1, <1>2 DEF Queue

LEMMA MonitorPhases ==
    ASSUME TypeOK, Phases, MonitorStep
    PROVE  Phases'
<1> USE DEF TypeOK, Phases, InLoop, Queue, control, stream, output, node
<1>0. EmptySubs["Tx"] = <<>> /\ EmptySubs["NewBlock"] = <<>>
  BY DEF EmptySubs
<1>1. CASE New
  <2>1. /\ nsub' = 0 /\ Queue' = <<>> /\ pend' = <<>> /\ outbuf' = <<>>
        /\ subs'["Tx"] = <<>> /\ pc' \in {"subscribe", "failed"}
    BY <1>1 DEF New
  <2>2. CASE up
    <3>1. Len(<<"running">>) >= 1
      BY SingletonSeq
    <3>2. Len(drivers') >= 1
      BY <1>1, <2>2, <3>1 DEF New
    <3> QED BY <2>1, <3>2
  <2>3. CASE ~up
    BY <1>1, <2>1, <2>3 DEF New
  <2> QED BY <2>2, <2>3
<1>2. CASE Subscribe
  BY <1>2 DEF Subscribe
<1>3. CASE SubscribeFails
  <2>1. pc' \in {"failed", "dial", "top"}
    BY <1>3 DEF SubscribeFails, RetryOrGiveUp
  <2>2. nsub' = 0 /\ subs' = EmptySubs /\ UNCHANGED <<drivers, pend, outbuf>>
    BY <1>3 DEF SubscribeFails
  <2> QED BY <1>0, <1>3, <2>1, <2>2 DEF SubscribeFails
<1>4. CASE CheckCommand
  BY <1>0, <1>4 DEF CheckCommand
<1>5. CASE \E q \in Query : Pull(q)
  BY <1>5 DEF Pull
<1>6. CASE EndOfStream
  BY <1>6 DEF EndOfStream
<1>7. CASE SendBatch
  BY <1>7 DEF SendBatch
<1>8. CASE StreamError
  BY <1>0, <1>8 DEF StreamError, StartReconnect
<1>9. CASE DriverError
  BY <1>0, <1>9 DEF DriverError, StartReconnect
<1>10. CASE Dial
  <2>1. Len(drivers') = Len(drivers) + 1
    BY <1>10, ClosingType, AppendProperties DEF Dial
  <2> QED BY <1>10, <2>1 DEF Dial
<1>11. CASE DialFails
  BY <1>11 DEF DialFails, RetryOrGiveUp
<1>12. CASE Join
  BY <1>12 DEF Join, RetryOrGiveUp
<1>13. CASE Close
  <2>1. Len(drivers') = Len(drivers)
    BY <1>13, ClosingType DEF Close
  <2> QED BY <1>13, <2>1 DEF Close
<1>14. CASE JoinLast
  BY <1>14 DEF JoinLast
<1> QED BY <1>1, <1>2, <1>3, <1>4, <1>5, <1>6, <1>7, <1>8, <1>9, <1>10,
           <1>11, <1>12, <1>13, <1>14 DEF MonitorStep

LEMMA StepPhases ==
    ASSUME TypeOK, Phases, [Next]_vars
    PROVE  Phases'
<1> USE DEF Phases, InLoop, Queue
<1>1. CASE UNCHANGED vars
  BY <1>1 DEF vars, control, stream, output, node
<1>2. CASE MonitorStep
  BY <1>2, MonitorPhases
<1>3. CASE DriverStep
  <2>1. Len(drivers') = Len(drivers) /\ (drivers = <<>> => drivers' = <<>>)
    BY <1>3, DriverToType, EmptySeq, LenCases
       DEF DriverStep, DriverFails, DriverRelays, DriverCloses, DriverPanics, TypeOK
  <2>2. UNCHANGED <<pc, stream>>
    BY <1>3 DEF DriverStep, DriverFails, DriverRelays, DriverCloses, DriverPanics, control
  <2> QED BY <2>1, <2>2 DEF stream
<1>4. CASE Environment
  <2>1. UNCHANGED <<pc, drivers, nsub, pend, outbuf>>
    BY <1>4 DEF Environment, CommitBlock, CommitTx, SubscriptionFails, EndpointDown,
                EndpointUp, SendShutdown, ConsumerDrops, control, stream
  <2>2. /\ nsub' # 2 => Queue' = Queue
        /\ nsub' = 0 => subs'["Tx"] = subs["Tx"]
    <3>1. CASE CommitBlock
      BY <2>1, <3>1, PublishPhases DEF CommitBlock
    <3>2. CASE CommitTx
      BY <2>1, <3>2, PublishPhases DEF CommitTx
    <3>3. CASE SubscriptionFails
      BY <2>1, <3>3, PublishPhases DEF SubscriptionFails
    <3>4. CASE EndpointDown \/ EndpointUp \/ SendShutdown \/ ConsumerDrops
      BY <3>4 DEF EndpointDown, EndpointUp, SendShutdown, ConsumerDrops, stream
    <3> QED BY <1>4, <3>1, <3>2, <3>3, <3>4 DEF Environment
  <2> QED BY <2>1, <2>2
<1> QED BY <1>1, <1>2, <1>3, <1>4 DEF Next

--------------------------------------------------------------------------------
(***************************************************************************)
(* What the steps that touch the stream do to it.                          *)
(***************************************************************************)

\* Nothing of the stream moves, and it is not more alive than before.
Still ==
    /\ UNCHANGED <<Queue, pend, outbuf, height, malformed, last>>
    /\ Len(drivers') = Len(drivers)
    /\ listening' => listening
    /\ Running' /\ nsub' = 2 => Running /\ nsub = 2
    /\ pc' \in {"join", "subscribe"} => pc \in {"join", "subscribe"}

\* Nothing is in flight afterwards; a subscription that is there is young.
Void ==
    /\ Queue' = <<>> /\ pend' = <<>> /\ outbuf' = <<>>
    /\ UNCHANGED <<height, malformed, last, listening>>
    /\ Len(drivers') \in Nat /\ Len(drivers') >= Len(drivers)
    /\ pc' \in {"join", "subscribe"} \/ nsub' = 2 => last.conn < Len(drivers')

\* Emptying the subscriptions empties both.
LEMMA EmptiedQueues == EmptySubs["NewBlock"] = <<>> /\ EmptySubs["Tx"] = <<>>
  BY DEF EmptySubs

\* A pull takes the head of one subscription.  A block opens a group and
\* closes the open one, which never has its height; an error closes it too.
LEMMA PullShape ==
    ASSUME TypeOK, TxHasNoBlock, Singletons, Ordered, NEW q \in Query, Pull(q)
    PROVE  /\ outbuf = <<>> /\ Head(subs[q]) \in Items
           /\ q = "Tx" => /\ Queue' = Queue /\ subs'["Tx"] = Tail(subs["Tx"])
                          /\ subs["Tx"] # <<>> /\ Head(subs[q]).kind # "block"
           /\ q = "NewBlock" => /\ subs'["Tx"] = subs["Tx"] /\ Queue' = Tail(Queue)
                                /\ Queue # <<>> /\ Head(subs[q]) = Queue[1]
           /\ \/ /\ Head(subs[q]).kind = "block"
                 /\ pend' = <<[height |-> Head(subs[q]).height, conn |-> Head(subs[q]).conn]>>
                 /\ outbuf' = IF pend = <<>> THEN <<>> ELSE <<Group(pend)>>
              \/ /\ Head(subs[q]).kind \in {"silent", "poison"}
                 /\ pend' = pend /\ outbuf' = outbuf
              \/ /\ Head(subs[q]).kind \in SubErrors
                 /\ pend' = <<>>
                 /\ outbuf' = IF pend = <<>> THEN <<Failure(Head(subs[q]).kind)>>
                              ELSE <<Group(pend), Failure(Head(subs[q]).kind)>>
<1> DEFINE item == Head(subs[q])
           e    == [height |-> item.height, conn |-> item.conn]
<1>1. subs[q] \in Seq(Items) /\ subs[q] # <<>> /\ outbuf = <<>>
  BY DEF Pull, TypeOK
<1>2. item \in Items /\ item = subs[q][1] /\ Len(subs[q]) >= 1 /\ Len(subs[q]) \in Nat
  BY <1>1, TailElements
<1>3. q = "Tx" => /\ Queue' = Queue /\ subs'["Tx"] = Tail(subs["Tx"])
                  /\ subs["Tx"] # <<>> /\ item.kind # "block"
  BY <1>1, <1>2 DEF Pull, Queue, TypeOK, TxHasNoBlock
<1>4. q = "NewBlock" => /\ subs'["Tx"] = subs["Tx"] /\ Queue' = Tail(Queue)
                        /\ Queue # <<>> /\ item = Queue[1]
  BY <1>1, <1>2 DEF Pull, Queue, TypeOK
<1>5. pend \in Seq(Block) /\ (pend = <<>> \/ Len(pend) = 1)
  BY LenCases DEF TypeOK, Singletons
<1>6. CASE item.kind = "block"
  <2>1. pend' = PendingAfterItem(pend, e) /\ outbuf' = YieldedOnItem(pend, e)
    BY <1>6 DEF Pull
  <2>2. CASE pend = <<>>
    BY <1>1, <1>2, <1>3, <1>4, <1>6, <2>1, <2>2 DEF PendingAfterItem, YieldedOnItem
  <2>3. CASE pend # <<>>
    <3>1. Len(pend) = 1 /\ pend[1].height \in Height /\ e.height \in Height
      <4>1. Len(pend) = 1 /\ pend[1] \in Block
        BY <1>5, <2>3, TailElements
      <4> QED BY <1>2, <4>1 DEF Block, Height, Items
    <3>2. InPend(pend[1].height) /\ InQueue(e.height)
      BY <1>2, <1>3, <1>4, <1>6, <2>3 DEF InPend, InQueue, Queue
    <3>3. pend[1].height < e.height
      BY <3>1, <3>2 DEF Ordered
    <3>4. ~SameGroup(pend, e)
      BY <3>1, <3>3 DEF SameGroup, Height
    <3> QED BY <1>1, <1>2, <1>3, <1>4, <1>6, <2>1, <2>3, <3>4
            DEF PendingAfterItem, YieldedOnItem
  <2> QED BY <2>2, <2>3
<1>7. CASE item.kind \in SubErrors
  <2>1. pend' = <<>> /\ outbuf' = YieldedOnError(pend, item.kind)
    BY <1>7 DEF Pull
  <2>2. outbuf' = IF pend = <<>> THEN <<Failure(item.kind)>>
                  ELSE <<Group(pend), Failure(item.kind)>>
    <3>1. CASE pend = <<>>
      <4>1. Len(pend) = 0
        BY <3>1
      <4> QED BY <2>1, <3>1, <4>1 DEF YieldedOnError
    <3>2. CASE pend # <<>>
      <4>1. Len(pend) = 1
        BY <1>5, <3>2
      <4> QED BY <2>1, <3>2, <4>1 DEF YieldedOnError
    <3> QED BY <3>1, <3>2
  <2> QED BY <1>1, <1>2, <1>3, <1>4, <1>7, <2>1, <2>2
<1>8. CASE item.kind \in {"silent", "poison"}
  BY <1>1, <1>2, <1>3, <1>4, <1>8 DEF Pull
<1> QED BY <1>2, <1>6, <1>7, <1>8 DEF Items

\* The steps outside the loop, and those that leave it, are void.
LEMMA VoidSteps ==
    ASSUME TypeOK, Phases, Singletons,
           \/ New \/ Subscribe \/ SubscribeFails \/ Dial \/ DialFails \/ Join
           \/ Close \/ JoinLast \/ StreamError \/ DriverError
    PROVE  Void
<1> USE DEF Void, Phases, Singletons, Queue, node, output, stream
<1>0. Len(drivers) \in Nat
  BY LenProperties DEF TypeOK
<1>1. CASE New
  <2>1. Len(<<"running">>) = 1
    BY SingletonSeq
  <2>2. Len(drivers) = 0
    BY <1>1, EmptySeq DEF New
  <2>3. Len(drivers') = IF up THEN 1 ELSE 0
    BY <1>1, <2>1, <2>2 DEF New
  <2> QED BY <1>1, <2>2, <2>3 DEF New, TypeOK
<1>2. CASE Subscribe
  BY <1>0, <1>2 DEF Subscribe
<1>3. CASE SubscribeFails
  <2>1. pc' \in {"failed", "dial", "top"} /\ nsub' = 0
    BY <1>3 DEF SubscribeFails, RetryOrGiveUp
  <2> QED BY <1>0, <1>3, <2>1, EmptiedQueues DEF SubscribeFails
<1>4. CASE Dial
  <2>1. Len(drivers') = Len(drivers) + 1
    BY <1>4, ClosingType, AppendProperties DEF Dial
  <2> QED BY <1>0, <1>4, <2>1 DEF Dial, TypeOK
<1>5. CASE DialFails
  BY <1>0, <1>5 DEF DialFails, RetryOrGiveUp
<1>6. CASE Join
  BY <1>0, <1>6 DEF Join, RetryOrGiveUp
<1>7. CASE Close
  BY <1>0, <1>7, ClosingType DEF Close
<1>8. CASE JoinLast
  BY <1>0, <1>8 DEF JoinLast
<1>9. CASE StreamError
  BY <1>0, <1>9, EmptiedQueues DEF StreamError, StartReconnect
<1>10. CASE DriverError
  BY <1>0, <1>10, EmptiedQueues DEF DriverError, StartReconnect
<1> QED BY <1>1, <1>2, <1>3, <1>4, <1>5, <1>6, <1>7, <1>8, <1>9, <1>10

\* Steps that leave the stream alone.
LEMMA StillSteps ==
    ASSUME TypeOK, Phases,
           \/ UNCHANGED vars \/ CheckCommand \/ DriverStep \/ CommitTx
           \/ EndpointDown \/ EndpointUp \/ SendShutdown \/ ConsumerDrops
    PROVE  Still \/ Void
<1> USE DEF Queue, node, output, stream, control, Running
<1>0. Len(drivers) \in Nat
  BY LenProperties DEF TypeOK
<1>1. CASE UNCHANGED vars
  BY <1>1 DEF vars, Still
<1>2. CASE CheckCommand
  <2>1. CASE cmd = "sent"
    BY <1>0, <1>2, <2>1, EmptiedQueues DEF CheckCommand, Void
  <2>2. CASE cmd # "sent"
    BY <1>2, <2>2 DEF CheckCommand, Still
  <2> QED BY <2>1, <2>2
<1>3. CASE DriverStep
  <2> PICK c \in 1..Current :
        DriverFails(c) \/ DriverRelays(c) \/ DriverCloses(c) \/ DriverPanics(c)
    BY <1>3 DEF DriverStep
  <2>1. UNCHANGED <<stream, output, node, pc>>
    BY DEF DriverFails, DriverRelays, DriverCloses, DriverPanics
  <2>2. PICK to \in DriverStatus \ {"running"} : \E from : DriverTo(c, from, to)
    BY DEF DriverFails, DriverRelays, DriverCloses, DriverPanics
  <2>3. /\ Len(drivers') = Len(drivers)
        /\ \A d \in 1..Current : drivers'[d] = IF d = c THEN to ELSE drivers[d]
    BY <2>2, DriverToType
  <2>4. Running' => Running
    BY <1>0, <2>3
  <2> QED BY <2>1, <2>3, <2>4 DEF Still
<1>4. CASE CommitTx
  <2>1. Queue' = Queue
    BY <1>4 DEF CommitTx, Publish, TypeOK
  <2> QED BY <1>4, <2>1 DEF CommitTx, Still
<1>5. CASE EndpointDown \/ EndpointUp
  BY <1>5 DEF EndpointDown, EndpointUp, Still
<1>6. CASE SendShutdown
  BY <1>6 DEF SendShutdown, Still
<1>7. CASE ConsumerDrops
  BY <1>7 DEF ConsumerDrops, Still
<1> QED BY <1>1, <1>2, <1>3, <1>4, <1>5, <1>6, <1>7

\* Every step is one of seven kinds.
LEMMA StepKinds ==
    ASSUME TypeOK, Phases, Singletons, [Next]_vars
    PROVE  \/ Still \/ Void \/ CommitBlock \/ SubscriptionFails
           \/ (\E q \in Query : Pull(q)) \/ EndOfStream \/ SendBatch
  BY VoidSteps, StillSteps DEF Next, MonitorStep, Environment

--------------------------------------------------------------------------------
(***************************************************************************)
(* One subscription carries the blocks, and a group is one block.          *)
(***************************************************************************)
LEMMA StepTxHasNoBlock ==
    ASSUME TypeOK, TxHasNoBlock, [Next]_vars
    PROVE  TxHasNoBlock'
<1>0. subs["Tx"] \in Seq(Items) /\ Current \in Nat
  BY LenProperties DEF TypeOK
<1>1. ASSUME subs'["Tx"] = subs["Tx"] PROVE TxHasNoBlock'
  BY <1>1 DEF TxHasNoBlock
<1>2. ASSUME subs'["Tx"] = <<>> PROVE TxHasNoBlock'
  BY <1>2 DEF TxHasNoBlock
<1>3. ASSUME subs["Tx"] # <<>>, subs'["Tx"] = Tail(subs["Tx"]) PROVE TxHasNoBlock'
  BY <1>0, <1>3, TailElements DEF TxHasNoBlock
<1>4. ASSUME NEW item \in Items, item.kind # "block", subs'["Tx"] = Append(subs["Tx"], item)
      PROVE  TxHasNoBlock'
  BY <1>0, <1>4, AppendElements DEF TxHasNoBlock
<1>5. \/ subs'["Tx"] = subs["Tx"] \/ subs'["Tx"] = <<>>
      \/ subs["Tx"] # <<>> /\ subs'["Tx"] = Tail(subs["Tx"])
      \/ \E item \in Items : item.kind # "block" /\ subs'["Tx"] = Append(subs["Tx"], item)
  <2>1. CASE SubscribeFails \/ CheckCommand \/ StreamError \/ DriverError
    BY <2>1, EmptiedQueues DEF SubscribeFails, CheckCommand, StreamError, DriverError,
                               StartReconnect, stream
  <2>2. CASE \E q \in Query : Pull(q)
    BY <2>2 DEF Pull, TypeOK
  <2>3. CASE CommitBlock
    BY <2>3 DEF CommitBlock, Publish, TypeOK
  <2>4. CASE CommitTx
    <3>1. Item("silent", 0, Current) \in Items /\ Item("poison", 0, Current) \in Items
      BY <1>0 DEF Items, Item
    <3>2. Item("silent", 0, Current).kind # "block" /\ Item("poison", 0, Current).kind # "block"
      BY DEF Item
    <3> QED BY <2>4, <3>1, <3>2 DEF CommitTx, Publish, TypeOK
  <2>5. CASE SubscriptionFails
    <3> PICK q \in Query, kind \in SubErrors : Publish(q, Item(kind, 0, Current))
      BY <2>5 DEF SubscriptionFails
    <3>1. Item(kind, 0, Current) \in Items /\ Item(kind, 0, Current).kind # "block"
      BY <1>0 DEF Items, Item
    <3> QED BY <3>1 DEF Publish, TypeOK
  <2>6. CASE \/ New \/ Subscribe \/ EndOfStream \/ SendBatch \/ Dial \/ DialFails \/ Join
             \/ Close \/ JoinLast \/ DriverStep \/ UNCHANGED vars
             \/ EndpointDown \/ EndpointUp \/ SendShutdown \/ ConsumerDrops
    BY <2>6 DEF New, Subscribe, EndOfStream, SendBatch, Dial, DialFails, Join, Close, JoinLast,
                DriverStep, DriverFails, DriverRelays, DriverCloses, DriverPanics, vars,
                EndpointDown, EndpointUp, SendShutdown, ConsumerDrops, stream
  <2> QED BY <2>1, <2>2, <2>3, <2>4, <2>5, <2>6 DEF Next, MonitorStep, Environment
<1> QED BY <1>1, <1>2, <1>3, <1>4, <1>5

\* A published item goes to the end of its queue.
LEMMA QueueAfterPublish ==
    ASSUME TypeOK, NEW q \in Query, NEW item, Publish(q, item)
    PROVE  \/ Queue' = Queue /\ (q = "NewBlock" => ~(Running /\ nsub = 2))
           \/ Queue' = Append(Queue, item) /\ q = "NewBlock" /\ Running /\ nsub = 2
  BY SubscribedBoth DEF Publish, Queue, TypeOK

LEMMA StepSingletons ==
    ASSUME TypeOK, Phases, TxHasNoBlock, Singletons, Ordered, [Next]_vars
    PROVE  Singletons'
<1> USE DEF Singletons
<1>0. /\ Queue \in Seq(Items) /\ pend \in Seq(Block) /\ outbuf \in Seq(Result)
      /\ Current \in Nat /\ last.conn \in Nat
  BY LenProperties DEF TypeOK, Queue
<1>1. CASE Still
  BY <1>1 DEF Still
<1>2. CASE Void
  BY <1>0, <1>2 DEF Void
<1>3. ASSUME NEW q \in Query, NEW kind \in ItemKind, NEW h \in 0..MaxHeight,
             Publish(q, Item(kind, h, Current)), kind = "block" => h > 0 /\ Running,
             UNCHANGED <<pc, drivers, pend, outbuf, last>>
      PROVE  Singletons'
  <2> DEFINE item == Item(kind, h, Current)
  <2>1. CASE Queue' = Queue
    BY <1>3, <2>1
  <2>2. CASE Queue' = Append(Queue, item)
    <3>1. item \in Items /\ item.conn = Current
      BY <1>0, <1>3 DEF Item, Items, Running
    <3>2. Len(Queue') = Len(Queue) + 1 /\ Queue'[Len(Queue) + 1] = item
          /\ \A i \in 1..Len(Queue) : Queue'[i] = Queue[i]
      BY <1>0, <2>2, <3>1, AppendElements
    <3>3. \A i \in 1..Len(Queue') : Queue'[i].kind = "block" => Queue'[i].conn = Current'
      BY <1>0, <1>3, <3>1, <3>2, LenProperties
    <3> QED BY <1>3, <3>3
  <2> QED BY <1>3, <2>1, <2>2, QueueAfterPublish
<1>4. CASE CommitBlock
  <2>1. height + 1 \in 1..MaxHeight /\ height' = height + 1
    BY <1>4 DEF CommitBlock, TypeOK
  <2>2. UNCHANGED <<pc, drivers, pend, outbuf, last>>
    BY <1>4 DEF CommitBlock, control, output
  <2>3. CASE Publish("NewBlock", Item("silent", height', Current))
    BY <1>3, <2>1, <2>2, <2>3
  <2>4. CASE Publish("NewBlock", Item("block", height', Current))
    <3>1. CASE Running
      BY <1>3, <2>1, <2>2, <2>4, <3>1
    <3>2. CASE ~Running
      BY <2>2, <2>4, <3>2 DEF Publish, Queue
    <3> QED BY <3>1, <3>2
  <2> QED BY <1>4, <2>3, <2>4 DEF CommitBlock
<1>5. CASE SubscriptionFails
  <2> PICK q \in Query, kind \in SubErrors :
        /\ Publish(q, Item(kind, 0, Current))
        /\ UNCHANGED <<control, drivers, errs, nsub, pend, outbuf, output, node>>
    BY <1>5 DEF SubscriptionFails
  <2> QED BY <1>3 DEF control, output
<1>6. CASE \E q \in Query : Pull(q)
  <2> PICK q \in Query : Pull(q)
    BY <1>6
  <2> DEFINE item == Head(subs[q])
  <2>1. pc' \in {pc, "panicked"} /\ drivers' = drivers /\ last' = last
    BY DEF Pull, output
  <2>2. \A i \in 1..Len(Queue') : Queue'[i].kind = "block" => Queue'[i].conn = Current'
    <3>1. CASE q = "Tx"
      BY <2>1, <3>1, PullShape
    <3>2. CASE q = "NewBlock"
      <4>1. Queue # <<>> /\ Queue' = Tail(Queue)
        BY <3>2, PullShape
      <4> QED BY <1>0, <2>1, <4>1, TailElements
    <3> QED BY <3>1, <3>2
  <2>3. item.kind = "block" => item.conn = Current
    <3>1. CASE q = "Tx"
      BY <3>1, PullShape
    <3>2. CASE q = "NewBlock"
      <4>1. Queue # <<>> /\ item = Queue[1]
        BY <3>2, PullShape
      <4> QED BY <1>0, <4>1, TailElements
    <3> QED BY <3>1, <3>2
  <2>4. Len(pend') <= 1 /\ (pend' # <<>> => pend'[1].conn = Current)
    <3>1. \/ item.kind = "block" /\ pend' = <<[height |-> item.height, conn |-> item.conn]>>
          \/ pend' = pend \/ pend' = <<>>
      BY PullShape
    <3>2. ASSUME item.kind = "block", pend' = <<[height |-> item.height, conn |-> item.conn]>>
          PROVE  Len(pend') = 1 /\ pend'[1].conn = Current
      BY <2>3, <3>2
    <3>3. ASSUME pend' = <<>> PROVE Len(pend') = 0
      BY <3>3
    <3>4. Len(pend') <= 1
      BY <3>1, <3>2, <3>3
    <3>5. pend' # <<>> => pend'[1].conn = Current
      BY <3>1, <3>2
    <3> QED BY <3>4, <3>5
  <2>5. \A i \in 1..Len(outbuf') : outbuf'[i].kind = "group" =>
           i = 1 /\ Len(outbuf'[i].events) = 1 /\ outbuf'[i].events[1].conn = Current
    <3>1. pend # <<>> => Len(pend) = 1 /\ Group(pend).events = pend
      BY <1>0, LenCases DEF Group
    <3>2. \A k \in SubErrors : Failure(k).kind # "group"
      BY DEF Failure
    <3>3. \/ outbuf' = <<>>
          \/ pend # <<>> /\ outbuf' = <<Group(pend)>>
          \/ \E k \in SubErrors : outbuf' = <<Failure(k)>>
          \/ pend # <<>> /\ \E k \in SubErrors : outbuf' = <<Group(pend), Failure(k)>>
      BY PullShape
    <3> QED BY <3>1, <3>2, <3>3
  <2> QED BY <2>1, <2>2, <2>4, <2>5
<1>7. CASE EndOfStream
  <2>1. /\ pend' = <<>> /\ outbuf' = <<Group(pend)>> /\ pend # <<>>
        /\ UNCHANGED <<Queue, drivers, pc, last>>
    BY <1>7 DEF EndOfStream, YieldedAtEnd, control, output, Queue
  <2>2. Len(pend) = 1 /\ Group(pend).events = pend
    BY <1>0, <2>1, LenCases DEF Group
  <2> QED BY <2>1, <2>2
<1>8. CASE SendBatch
  <2>1. outbuf # <<>> /\ outbuf' = Tail(outbuf) /\ Head(outbuf).kind = "group"
        /\ UNCHANGED <<Queue, drivers, pend>> /\ pc' = "top"
    BY <1>8 DEF SendBatch, Queue
  <2>2. Head(outbuf).events[1].conn = Current
    BY <1>0, <2>1, TailElements
  <2>3. last' = last \/ last' = Head(outbuf).events[1]
    BY <1>8 DEF SendBatch
  <2>4. \A i \in 1..Len(outbuf') : outbuf'[i].kind # "group"
    BY <1>0, <2>1, TailElements
  <2> QED BY <1>0, <2>1, <2>2, <2>3, <2>4
<1> QED BY <1>1, <1>2, <1>4, <1>5, <1>6, <1>7, <1>8, StepKinds

--------------------------------------------------------------------------------
(***************************************************************************)
(* What is in flight, step by step.                                        *)
(***************************************************************************)
LEMMA StillFlight ==
    ASSUME Still, NEW h
    PROVE  /\ InQueue(h)' <=> InQueue(h)
           /\ InPend(h)' <=> InPend(h)
           /\ InOut(h)' <=> InOut(h)
  BY DEF Still, InQueue, InPend, InOut

LEMMA VoidFlight ==
    ASSUME Void, NEW h
    PROVE  ~InFlight(h)'
  BY DEF Void, InFlight, InQueue, InPend, InOut

\* An element at the end of the queue is in flight if it is a block.
LEMMA AppendFlight ==
    ASSUME TypeOK, NEW item \in Items, Queue' = Append(Queue, item), NEW h
    PROVE  InQueue(h)' <=> InQueue(h) \/ (item.kind = "block" /\ item.height = h)
<1>1. Queue \in Seq(Items) /\ Len(Queue) \in Nat
  BY LenProperties DEF TypeOK, Queue
<1>2. /\ Len(Queue') = Len(Queue) + 1 /\ Queue'[Len(Queue) + 1] = item
      /\ \A i \in 1..Len(Queue) : Queue'[i] = Queue[i]
  BY <1>1, AppendElements
<1> HIDE DEF Queue
<1> QED BY <1>1, <1>2 DEF InQueue

\* The head leaves the queue.
LEMMA TailFlight ==
    ASSUME TypeOK, Queue # <<>>, Queue' = Tail(Queue), NEW h
    PROVE  InQueue(h) <=> InQueue(h)' \/ (Queue[1].kind = "block" /\ Queue[1].height = h)
<1>1. Queue \in Seq(Items)
  BY DEF TypeOK, Queue
<1>2. /\ Len(Queue) \in Nat /\ Len(Queue) >= 1 /\ Len(Queue') = Len(Queue) - 1
      /\ \A i \in 1..Len(Queue') : Queue'[i] = Queue[i + 1]
  BY <1>1, TailElements
<1>3. ASSUME InQueue(h), ~(Queue[1].kind = "block" /\ Queue[1].height = h) PROVE InQueue(h)'
  <2> PICK i \in 1..Len(Queue) : Queue[i].kind = "block" /\ Queue[i].height = h
    BY <1>3 DEF InQueue
  <2>1. i # 1 /\ i - 1 \in 1..Len(Queue') /\ Queue'[i - 1] = Queue[i]
    BY <1>2, <1>3
  <2> QED BY <2>1 DEF InQueue
<1>4. ASSUME InQueue(h)' PROVE InQueue(h)
  <2> PICK i \in 1..Len(Queue') : Queue'[i].kind = "block" /\ Queue'[i].height = h
    BY <1>4 DEF InQueue
  <2>1. i + 1 \in 1..Len(Queue) /\ Queue[i + 1] = Queue'[i]
    BY <1>2
  <2> QED BY <2>1 DEF InQueue
<1>5. ASSUME Queue[1].kind = "block", Queue[1].height = h PROVE InQueue(h)
  BY <1>2, <1>5 DEF InQueue
<1> QED BY <1>3, <1>4, <1>5

\* A pull moves blocks along, and loses none.
LEMMA PullFlight ==
    ASSUME TypeOK, TxHasNoBlock, Singletons, Ordered, NEW q \in Query, Pull(q), NEW h
    PROVE  /\ ~InOut(h)
           /\ InOut(h)' => InPend(h)
           /\ InPend(h)' => InPend(h) \/ InQueue(h)
           /\ InQueue(h)' => InQueue(h)
           /\ InFlight(h)' <=> InFlight(h)
<1> DEFINE item == Head(subs[q])
<1>1. outbuf = <<>> /\ ~InOut(h)
  BY PullShape DEF InOut
<1>2. InQueue(h) <=> InQueue(h)' \/ (item.kind = "block" /\ item.height = h)
  <2>1. CASE q = "Tx"
    <3>1. Queue' = Queue /\ item.kind # "block"
      BY <2>1, PullShape
    <3> QED BY <3>1 DEF InQueue
  <2>2. CASE q = "NewBlock"
    <3>1. Queue # <<>> /\ Queue' = Tail(Queue) /\ item = Queue[1]
      BY <2>2, PullShape
    <3> QED BY <3>1, TailFlight
  <2> QED BY <2>1, <2>2
<1>3. pend # <<>> => Group(pend).kind = "group" /\ Group(pend).events[1] = pend[1]
  BY DEF Group
<1>4. \A k \in SubErrors : Failure(k).kind # "group"
  BY DEF Failure
<1>5. CASE item.kind = "block"
  <2>1. /\ pend' = <<[height |-> item.height, conn |-> item.conn]>>
        /\ outbuf' = IF pend = <<>> THEN <<>> ELSE <<Group(pend)>>
    BY <1>5, PullShape
  <2>2. InPend(h)' <=> item.height = h
    BY <2>1 DEF InPend
  <2>3. InOut(h)' <=> InPend(h)
    BY <1>3, <2>1 DEF InPend, InOut
  <2> QED BY <1>1, <1>2, <1>5, <2>2, <2>3 DEF InFlight
<1>6. CASE item.kind \in SubErrors
  <2>1. /\ pend' = <<>>
        /\ outbuf' = IF pend = <<>> THEN <<Failure(item.kind)>>
                     ELSE <<Group(pend), Failure(item.kind)>>
    BY <1>6, PullShape
  <2>2. ~InPend(h)' /\ (InOut(h)' <=> InPend(h))
    BY <1>3, <1>4, <1>6, <2>1 DEF InPend, InOut
  <2> QED BY <1>1, <1>2, <1>6, <2>2 DEF InFlight
<1>7. CASE item.kind \in {"silent", "poison"}
  <2>1. pend' = pend /\ outbuf' = outbuf
    BY <1>7, PullShape
  <2> QED BY <1>1, <1>2, <1>7, <2>1 DEF InFlight, InPend, InOut
<1>8. item \in Items
  BY PullShape
<1> QED BY <1>5, <1>6, <1>7, <1>8 DEF Items

\* The end of the stream turns the open group into a batch.
LEMMA EndFlight ==
    ASSUME EndOfStream, NEW h
    PROVE  /\ ~InOut(h) /\ ~InPend(h)'
           /\ InOut(h)' <=> InPend(h)
           /\ InQueue(h)' <=> InQueue(h)
<1>1. /\ outbuf = <<>> /\ pend # <<>> /\ pend' = <<>> /\ outbuf' = <<Group(pend)>>
      /\ Queue' = Queue
  BY DEF EndOfStream, YieldedAtEnd, Queue
<1> QED BY <1>1 DEF InOut, InPend, InQueue, Group

\* Sending a batch takes its block out of flight.
LEMMA SendFlight ==
    ASSUME TypeOK, Singletons, SendBatch, NEW h
    PROVE  /\ InOut(h) <=> Head(outbuf).events[1].height = h
           /\ ~InOut(h)'
           /\ InPend(h)' <=> InPend(h)
           /\ InQueue(h)' <=> InQueue(h)
<1>1. outbuf \in Seq(Result) /\ outbuf # <<>> /\ outbuf' = Tail(outbuf)
      /\ Head(outbuf).kind = "group" /\ UNCHANGED <<Queue, pend>>
  BY DEF SendBatch, TypeOK, Queue
<1>2. Head(outbuf) = outbuf[1]
  BY <1>1, TailElements
<1>3. outbuf' # <<>> => outbuf'[1].kind # "group"
  <2> SUFFICES ASSUME outbuf' # <<>> PROVE outbuf'[1].kind # "group"
    OBVIOUS
  <2>1. outbuf' \in Seq(Result) /\ Len(outbuf') >= 1
    BY <1>1, TailElements, LenCases
  <2>2. outbuf'[1] = outbuf[2] /\ 2 \in 1..Len(outbuf)
    BY <1>1, <2>1, TailElements
  <2> QED BY <2>2 DEF Singletons
<1> QED BY <1>1, <1>2, <1>3 DEF InOut, InPend, InQueue

--------------------------------------------------------------------------------
(***************************************************************************)
(* The order.                                                              *)
(***************************************************************************)
Sorted(s) == \A i, j \in 1..Len(s) :
    i < j /\ s[i].kind = "block" /\ s[j].kind = "block" => s[i].height < s[j].height

\* Without its head a sorted queue is sorted, above the head.
LEMMA SortedTail ==
    ASSUME NEW s \in Seq(Items), s # <<>>, Sorted(s)
    PROVE  /\ Sorted(Tail(s))
           /\ s[1].kind = "block" => \A i \in 1..Len(Tail(s)) :
                Tail(s)[i].kind = "block" => s[1].height < Tail(s)[i].height
<1>1. /\ Len(s) \in Nat /\ Len(s) >= 1 /\ Len(Tail(s)) = Len(s) - 1
      /\ \A i \in 1..Len(Tail(s)) : Tail(s)[i] = s[i + 1]
  BY TailElements
<1>2. \A i \in 1..Len(Tail(s)) : i + 1 \in 1..Len(s) /\ i + 1 > 1 /\ 1 \in 1..Len(s)
  BY <1>1
<1>3. ASSUME NEW i \in 1..Len(Tail(s)), NEW j \in 1..Len(Tail(s)), i < j,
             Tail(s)[i].kind = "block", Tail(s)[j].kind = "block"
      PROVE  Tail(s)[i].height < Tail(s)[j].height
  <2>1. i + 1 < j + 1
    BY <1>3
  <2> QED BY <1>1, <1>2, <1>3, <2>1 DEF Sorted
<1>4. ASSUME NEW i \in 1..Len(Tail(s)), s[1].kind = "block", Tail(s)[i].kind = "block"
      PROVE  s[1].height < Tail(s)[i].height
  BY <1>1, <1>2, <1>4 DEF Sorted
<1> QED BY <1>3, <1>4 DEF Sorted

\* A queue stays sorted when what is appended is no block, or above them all.
LEMMA SortedAppend ==
    ASSUME NEW s \in Seq(Items), NEW item \in Items, Sorted(s),
           item.kind = "block" =>
             \A i \in 1..Len(s) : s[i].kind = "block" => s[i].height < item.height
    PROVE  Sorted(Append(s, item))
<1>1. /\ Len(s) \in Nat /\ Len(Append(s, item)) = Len(s) + 1
      /\ \A i \in 1..Len(s) : Append(s, item)[i] = s[i]
      /\ Append(s, item)[Len(s) + 1] = item
  BY AppendElements
<1>2. ASSUME NEW i \in 1..Len(Append(s, item)), NEW j \in 1..Len(Append(s, item)), i < j,
             Append(s, item)[i].kind = "block", Append(s, item)[j].kind = "block"
      PROVE  Append(s, item)[i].height < Append(s, item)[j].height
  <2>1. i \in 1..Len(s)
    BY <1>1, <1>2
  <2>2. CASE j \in 1..Len(s)
    BY <1>1, <1>2, <2>1, <2>2 DEF Sorted
  <2>3. CASE j = Len(s) + 1
    BY <1>1, <1>2, <2>1, <2>3
  <2> QED BY <1>1, <2>2, <2>3
<1> QED BY <1>2 DEF Sorted

\* Order survives a step after which less is in flight, the queue still sorted.
LEMMA OrderedShrinks ==
    ASSUME TypeOK, Ordered, Sorted(Queue)', last' = last,
           height' \in Nat, height <= height',
           \A h \in Height : /\ InQueue(h)' => InQueue(h)
                             /\ InPend(h)' => InPend(h)
                             /\ InOut(h)' => InOut(h)
    PROVE  Ordered'
<1>1. /\ height \in Nat /\ last.height \in Nat /\ last'.height = last.height
      /\ \A h \in Height : h \in Nat
  BY DEF TypeOK, Height
<1>2. ASSUME NEW h \in Height, InFlight(h)' PROVE last'.height < h /\ h <= height'
  <2>1. InFlight(h)
    BY <1>2 DEF InFlight
  <2>2. last.height < h /\ h <= height
    BY <2>1 DEF Ordered
  <2> QED BY <1>1, <2>2
<1>3. ASSUME NEW h \in Height, NEW k \in Height, InPend(h)', InQueue(k)' PROVE h < k
  BY <1>3 DEF Ordered
<1>4. ASSUME NEW h \in Height, NEW k \in Height, InOut(h)', InPend(k)' \/ InQueue(k)'
      PROVE  h < k
  <2>1. InOut(h) /\ (InPend(k) \/ InQueue(k))
    BY <1>4
  <2> QED BY <2>1 DEF Ordered
<1>5. last'.height <= height'
  <2>1. last.height <= height
    BY DEF Ordered
  <2> QED BY <1>1, <2>1
<1>6. Sorted(Queue)' <=> \A i, j \in 1..Len(Queue') :
         i < j /\ Queue'[i].kind = "block" /\ Queue'[j].kind = "block"
           => Queue'[i].height < Queue'[j].height
  BY DEF Sorted
<1> QED BY <1>2, <1>3, <1>4, <1>5, <1>6 DEF Ordered

LEMMA StepOrdered ==
    ASSUME TypeOK, TypeOK', Phases, TxHasNoBlock, Singletons, Ordered, [Next]_vars
    PROVE  Ordered'
<1>0. /\ Queue \in Seq(Items) /\ Sorted(Queue) /\ height \in Nat /\ last.height \in Nat
      /\ Height' = Height /\ \A h \in Height : h \in Nat
  BY DEF TypeOK, Queue, Ordered, Sorted, Height
<1>1. CASE Still
  <2>1. Sorted(Queue)' /\ UNCHANGED <<last, height>>
    BY <1>0, <1>1 DEF Still, Sorted
  <2> QED BY <1>0, <1>1, <2>1, StillFlight, OrderedShrinks
<1>2. CASE Void
  <2>1. Sorted(Queue)' /\ UNCHANGED <<last, height>>
    BY <1>2 DEF Void, Sorted
  <2>2. \A h \in Height : ~InFlight(h)'
    BY <1>2, VoidFlight
  <2> QED BY <1>0, <2>1, <2>2 DEF Ordered, InFlight, Sorted
<1>3. CASE CommitBlock
  <2>1. /\ height' = height + 1 /\ height' \in Height
        /\ UNCHANGED <<pend, outbuf, last>>
    BY <1>3 DEF CommitBlock, output, TypeOK, Height
  <2> PICK kind \in {"block", "silent"} : Publish("NewBlock", Item(kind, height', Current))
    BY <1>3 DEF CommitBlock
  <2> DEFINE item == Item(kind, height', Current)
  <2>2. CASE Queue' = Queue
    <3>1. Sorted(Queue)'
      BY <1>0, <2>2 DEF Sorted
    <3>2. \A h \in Height : (InQueue(h)' <=> InQueue(h)) /\ (InPend(h)' <=> InPend(h))
                                                         /\ (InOut(h)' <=> InOut(h))
      BY <2>1, <2>2 DEF InQueue, InPend, InOut
    <3> QED BY <1>0, <2>1, <3>1, <3>2, OrderedShrinks
  <2>3. CASE Queue' = Append(Queue, item) /\ Running
    <3>1. item \in Items /\ item.kind = kind /\ item.height = height'
      <4>1. Current \in Nat /\ Current > 0
        BY <2>3, LenProperties DEF Running, TypeOK
      <4>2. height' \in 0..MaxHeight /\ height' > 0
        BY <1>0, <2>1 DEF Height
      <4> QED BY <4>1, <4>2 DEF Item, Items
    <3>2. \A i \in 1..Len(Queue) : Queue[i].kind = "block" => Queue[i].height < height'
      <4> SUFFICES ASSUME NEW i \in 1..Len(Queue), Queue[i].kind = "block"
                   PROVE  Queue[i].height < height'
        OBVIOUS
      <4>1. Queue[i].height \in Height
        BY <1>0, ElementOfSeq DEF Items, Height
      <4>2. InFlight(Queue[i].height)
        BY DEF InFlight, InQueue
      <4>3. Queue[i].height <= height
        BY <4>1, <4>2 DEF Ordered
      <4>4. Queue[i].height \in Nat /\ height \in Nat /\ height' = height + 1
        BY <1>0, <2>1, <4>1
      <4> QED BY <4>3, <4>4
    <3>3. Sorted(Queue')
      BY <1>0, <2>3, <3>1, <3>2, SortedAppend
    <3>4. \A h \in Height : InQueue(h)' => InQueue(h) \/ h = height'
      BY <2>3, <3>1, AppendFlight
    <3>5. \A h \in Height : (InPend(h)' <=> InPend(h)) /\ (InOut(h)' <=> InOut(h))
      BY <2>1 DEF InPend, InOut
    <3>6. \A h \in Height : InFlight(h) => h <= height
      BY DEF Ordered
    <3>7. \A h \in Height : InFlight(h)' => last'.height < h /\ h <= height'
      <4>1. last.height < height'
        BY <1>0, <2>1 DEF Ordered
      <4>2. \A h \in Height : InFlight(h) => last'.height < h /\ h <= height'
        BY <1>0, <2>1 DEF Ordered
      <4> QED BY <1>0, <2>1, <3>4, <3>5, <4>1, <4>2 DEF InFlight
    <3>8. \A h, k \in Height : InPend(h)' /\ InQueue(k)' => h < k
      <4>1. \A h \in Height : InPend(h) => h < height'
        BY <1>0, <2>1, <3>6 DEF InFlight
      <4> QED BY <3>4, <3>5, <4>1 DEF Ordered
    <3>9. \A h, k \in Height : InOut(h)' /\ (InPend(k)' \/ InQueue(k)') => h < k
      <4>1. \A h \in Height : InOut(h) => h < height'
        BY <1>0, <2>1, <3>6 DEF InFlight
      <4> QED BY <3>4, <3>5, <4>1 DEF Ordered
    <3> QED BY <1>0, <2>1, <3>3, <3>7, <3>8, <3>9 DEF Ordered, Sorted
  <2> QED BY <2>2, <2>3, QueueAfterPublish
<1>4. CASE SubscriptionFails
  <2> PICK q \in Query, kind \in SubErrors :
        /\ Publish(q, Item(kind, 0, Current))
        /\ UNCHANGED <<control, drivers, errs, nsub, pend, outbuf, output, node>>
    BY <1>4 DEF SubscriptionFails
  <2> DEFINE item == Item(kind, 0, Current)
  <2>1. item \in Items /\ item.kind # "block"
    BY LenProperties DEF Item, Items, TypeOK
  <2>2. CASE Queue' = Queue
    <3>1. Sorted(Queue)' /\ UNCHANGED <<last, height>>
      BY <1>0, <2>2 DEF Sorted, output, node
    <3>2. \A h \in Height : (InQueue(h)' <=> InQueue(h)) /\ (InPend(h)' <=> InPend(h))
                                                         /\ (InOut(h)' <=> InOut(h))
      BY <2>2 DEF InQueue, InPend, InOut
    <3> QED BY <1>0, <3>1, <3>2, OrderedShrinks
  <2>3. CASE Queue' = Append(Queue, item)
    <3>1. Sorted(Queue')
      BY <1>0, <2>1, <2>3, SortedAppend
    <3>2. \A h \in Height : InQueue(h)' => InQueue(h)
      BY <2>1, <2>3, AppendFlight
    <3>3. \A h \in Height : (InPend(h)' <=> InPend(h)) /\ (InOut(h)' <=> InOut(h))
      BY DEF InPend, InOut
    <3>4. UNCHANGED <<last, height>>
      BY DEF output, node
    <3> QED BY <1>0, <3>1, <3>2, <3>3, <3>4, OrderedShrinks
  <2> QED BY <2>2, <2>3, QueueAfterPublish
<1>5. CASE \E q \in Query : Pull(q)
  <2> PICK q \in Query : Pull(q)
    BY <1>5
  <2> DEFINE item == Head(subs[q])
  <2>1. UNCHANGED <<last, height>>
    BY DEF Pull, output, node
  <2>2. /\ Sorted(Queue')
        /\ item.kind = "block" => \A i \in 1..Len(Queue') :
             Queue'[i].kind = "block" => item.height < Queue'[i].height
    <3>1. CASE q = "Tx"
      BY <1>0, <3>1, PullShape
    <3>2. CASE q = "NewBlock"
      <4>1. Queue # <<>> /\ Queue' = Tail(Queue) /\ item = Queue[1]
        BY <3>2, PullShape
      <4> QED BY <1>0, <4>1, SortedTail
    <3> QED BY <3>1, <3>2
  <2>3. ASSUME NEW h \in Height, NEW k \in Height, InPend(h)', InQueue(k)' PROVE h < k
    <3>1. CASE item.kind = "block"
      <4>1. pend' = <<[height |-> item.height, conn |-> item.conn]>>
        BY <3>1, PullShape
      <4>2. h = item.height
        BY <2>3, <4>1 DEF InPend
      <4> QED BY <2>2, <2>3, <3>1, <4>2 DEF InQueue
    <3>2. CASE item.kind # "block"
      <4>1. pend' = pend \/ pend' = <<>>
        BY <3>2, PullShape
      <4>2. InPend(h) /\ InQueue(k)
        BY <2>3, <4>1, PullFlight DEF InPend
      <4> QED BY <4>2 DEF Ordered
    <3> QED BY <3>1, <3>2
  <2>4. ASSUME NEW h \in Height, NEW k \in Height, InOut(h)', InPend(k)' \/ InQueue(k)'
        PROVE  h < k
    <3>1. InPend(h)
      BY <2>4, PullFlight
    <3>2. CASE InQueue(k)
      BY <3>1, <3>2 DEF Ordered
    <3>3. CASE ~InQueue(k)
      <4>1. InPend(k)' /\ ~InQueue(k)'
        BY <2>4, <3>3, PullFlight
      <4>2. item.kind = "block" => InQueue(item.height)
        <5>1. CASE q = "Tx"
          BY <5>1, PullShape
        <5>2. CASE q = "NewBlock"
          <6>1. Queue # <<>> /\ item = Queue[1]
            BY <5>2, PullShape
          <6> QED BY <1>0, <6>1, TailElements DEF InQueue
        <5> QED BY <5>1, <5>2
      <4>3. item.kind # "block"
        <5>1. item.kind = "block" => pend' = <<[height |-> item.height, conn |-> item.conn]>>
          BY PullShape
        <5> QED BY <3>3, <4>1, <4>2, <5>1 DEF InPend
      <4>4. pend' = <<>> \/ outbuf' = <<>>
        BY <4>3, PullShape
      <4> QED BY <2>4, <4>1, <4>4 DEF InPend, InOut
    <3> QED BY <3>2, <3>3
  <2>5. \A h \in Height : InFlight(h)' => InFlight(h)
    BY PullFlight
  <2> QED BY <1>0, <2>1, <2>2, <2>3, <2>4, <2>5 DEF Ordered, Sorted
<1>6. CASE EndOfStream
  <2>1. Sorted(Queue)' /\ UNCHANGED <<last, height>>
    BY <1>0, <1>6 DEF EndOfStream, Queue, Sorted, output, node
  <2>2. \A h \in Height : InFlight(h)' => InFlight(h)
    BY <1>6, EndFlight DEF InFlight
  <2>3. \A h, k \in Height : InOut(h)' /\ (InPend(k)' \/ InQueue(k)') => h < k
    BY <1>6, EndFlight DEF Ordered
  <2>4. \A h \in Height : ~InPend(h)'
    BY <1>6, EndFlight
  <2> QED BY <1>0, <2>1, <2>2, <2>3, <2>4 DEF Ordered, Sorted
<1>7. CASE SendBatch
  <2> DEFINE b == Head(outbuf).events[1]
  <2>1. /\ outbuf # <<>> /\ UNCHANGED <<Queue, pend, height>>
        /\ last' = b \/ last' = last
    BY <1>7 DEF SendBatch, Queue, node
  <2>2. b.height \in Height
    <3>1. Head(outbuf) \in Result /\ Head(outbuf).kind = "group"
      BY <1>7, TailElements DEF SendBatch, TypeOK
    <3>2. Head(outbuf).events \in Seq(Block) /\ Head(outbuf).events # <<>>
      BY <3>1 DEF Result
    <3>3. b \in Block
      BY <3>2, TailElements
    <3> QED BY <3>3 DEF Block, Height
  <2>3. InOut(b.height) /\ \A h \in Height : ~InOut(h)'
    BY <1>7, SendFlight
  <2>4. \A h \in Height : (InPend(h)' <=> InPend(h)) /\ (InQueue(h)' <=> InQueue(h))
    BY <1>7, SendFlight
  <2>5. b.height <= height /\ last.height < b.height
    BY <2>2, <2>3 DEF Ordered, InFlight
  <2>6. \A h \in Height : InPend(h) \/ InQueue(h) => b.height < h
    BY <2>2, <2>3 DEF Ordered
  <2>7. Sorted(Queue')
    BY <1>0, <2>1
  <2> QED BY <1>0, <2>1, <2>2, <2>3, <2>4, <2>5, <2>6, <2>7 DEF Ordered, InFlight, Sorted
<1> QED BY <1>1, <1>2, <1>3, <1>4, <1>5, <1>6, <1>7, StepKinds

--------------------------------------------------------------------------------
(***************************************************************************)
(* No gap.                                                                 *)
(***************************************************************************)

\* With the same blocks in flight, nothing new is due.
LEMMA GaplessKept ==
    ASSUME Gapless, Height' = Height,
           \A h \in Height : InFlight(h)' <=> InFlight(h),
           UNCHANGED <<height, malformed, last>>, Len(drivers') = Len(drivers),
           listening' => listening,
           Running' /\ nsub' = 2 => Running /\ nsub = 2
    PROVE  Gapless'
<1>1. \A g \in Height : Due(g)' => Due(g)
  BY DEF Due
<1> QED BY <1>1 DEF Gapless

\* With nothing in flight and a young subscription, nothing is due.
LEMMA GaplessVoid ==
    ASSUME Void, TypeOK'
    PROVE  Gapless'
<1>1. \A h \in Height' : ~InFlight(h)'
  BY VoidFlight
<1>2. nsub' = 2 => last'.conn # Len(drivers')
  <2>1. last'.conn \in Nat
    BY DEF TypeOK
  <2> QED BY <2>1 DEF Void
<1>3. nsub' = 2 => \A g \in Height' : ~Due(g)'
  BY <1>1, <1>2 DEF Due
<1> QED BY <1>1, <1>3 DEF Gapless

LEMMA StepGapless ==
    ASSUME TypeOK, TypeOK', Phases, TxHasNoBlock, Singletons, Ordered, Gapless, [Next]_vars
    PROVE  Gapless'
<1>0. Height' = Height /\ height \in Nat /\ \A h \in Height : h \in Nat
  BY DEF Height, TypeOK
<1>1. CASE Still
  <2>1. \A h \in Height : InFlight(h)' <=> InFlight(h)
    BY <1>1, StillFlight DEF InFlight
  <2> QED BY <1>0, <1>1, <2>1, GaplessKept DEF Still
<1>2. CASE Void
  BY <1>2, GaplessVoid
<1>3. CASE CommitBlock
  <2>1. /\ height' = height + 1 /\ height' \in Height /\ malformed \subseteq malformed'
        /\ UNCHANGED <<pend, outbuf, last, listening, drivers, nsub>>
    BY <1>3 DEF CommitBlock, output, TypeOK, Height
  <2> PICK kind \in {"block", "silent"} :
        /\ Publish("NewBlock", Item(kind, height', Current))
        /\ kind = "silent" => height' \in malformed'
    BY <1>3 DEF CommitBlock
  <2> DEFINE item == Item(kind, height', Current)
  <2>2. \A h \in Height : (InPend(h)' <=> InPend(h)) /\ (InOut(h)' <=> InOut(h))
    BY <2>1 DEF InPend, InOut
  <2>3. ASSUME \A h \in Height : InFlight(h)' <=> InFlight(h)
        PROVE  /\ \A g \in Height : Due(g)' => Due(g)
               /\ \A g, k \in Height :
                    InFlight(k)' /\ g < k /\ Due(g)' => g \in malformed' \/ InFlight(g)'
    <3>1. \A g \in Height : Due(g)' => Due(g)
      BY <1>0, <2>1, <2>3 DEF Due
    <3> QED BY <2>1, <2>3, <3>1 DEF Gapless
  <2>4. CASE Queue' = Queue /\ ~(Running /\ nsub = 2)
    <3>1. \A h \in Height : InFlight(h)' <=> InFlight(h)
      BY <2>2, <2>4 DEF InFlight, InQueue
    <3> QED BY <1>0, <2>1, <2>3, <2>4, <3>1 DEF Gapless, Running
  <2>5. CASE Queue' = Append(Queue, item) /\ Running /\ nsub = 2
    <3>1. item \in Items /\ item.kind = kind /\ item.height = height'
      <4>1. Current \in Nat /\ Current > 0
        BY <2>5, LenProperties DEF Running, TypeOK
      <4>2. height' \in 0..MaxHeight /\ height' > 0
        BY <1>0, <2>1 DEF Height
      <4> QED BY <4>1, <4>2 DEF Item, Items
    <3>2. \A h \in Height : InQueue(h)' <=> InQueue(h) \/ (kind = "block" /\ h = height')
      BY <2>5, <3>1, AppendFlight
    <3>3. \A g \in Height : g <= height /\ Due(g) => g \in malformed \/ InFlight(g)
      BY <2>5 DEF Gapless
    <3>4. CASE kind = "silent"
      <4>1. \A h \in Height : InFlight(h)' <=> InFlight(h)
        BY <2>2, <3>2, <3>4 DEF InFlight
      <4>2. ASSUME NEW g \in Height, g <= height', Due(g)'
            PROVE  g \in malformed' \/ InFlight(g)'
        <5>1. CASE g = height'
          BY <3>4, <5>1
        <5>2. CASE g # height'
          <6>1. g <= height
            BY <1>0, <2>1, <4>2, <5>2
          <6> QED BY <2>1, <2>3, <3>3, <4>1, <4>2, <6>1
        <5> QED BY <5>1, <5>2
      <4> QED BY <1>0, <2>3, <4>1, <4>2 DEF Gapless
    <3>5. CASE kind = "block"
      <4>1. \A h \in Height : InFlight(h)' <=> InFlight(h) \/ h = height'
        BY <2>2, <3>2, <3>5 DEF InFlight
      <4>2. \A h \in Height : InFlight(h)' => h <= height'
        BY <1>0, <2>1, <4>1 DEF Ordered
      <4>3. ASSUME NEW g \in Height, g <= height, Due(g)'
            PROVE  g \in malformed' \/ InFlight(g)'
        <5>1. Due(g)
          BY <1>0, <2>1, <4>1, <4>3 DEF Due
        <5> QED BY <2>1, <3>3, <4>1, <4>3, <5>1
      <4>4. \A g \in Height : g < height' => g <= height
        BY <1>0, <2>1
      <4>5. ASSUME NEW g \in Height, NEW k \in Height, InFlight(k)', g < k, Due(g)'
            PROVE  g \in malformed' \/ InFlight(g)'
        <5>1. g < height'
          BY <1>0, <2>1, <4>2, <4>5
        <5> QED BY <4>3, <4>4, <4>5, <5>1
      <4>6. ASSUME NEW g \in Height, g <= height', Due(g)'
            PROVE  g \in malformed' \/ InFlight(g)'
        <5>1. CASE g = height'
          BY <4>1, <5>1
        <5>2. CASE g < height'
          BY <4>3, <4>4, <4>6, <5>2
        <5> QED BY <1>0, <2>1, <4>6, <5>1, <5>2
      <4> QED BY <1>0, <4>5, <4>6 DEF Gapless
    <3> QED BY <3>4, <3>5
  <2> QED BY <2>4, <2>5, QueueAfterPublish
<1>4. CASE SubscriptionFails
  <2> PICK q \in Query, kind \in SubErrors :
        /\ Publish(q, Item(kind, 0, Current))
        /\ UNCHANGED <<control, drivers, errs, nsub, pend, outbuf, output, node>>
    BY <1>4 DEF SubscriptionFails
  <2> DEFINE item == Item(kind, 0, Current)
  <2>1. item \in Items /\ item.kind # "block"
    BY LenProperties DEF Item, Items, TypeOK
  <2>2. \A h \in Height : InFlight(h)' <=> InFlight(h)
    <3>1. CASE Queue' = Queue
      BY <3>1 DEF InFlight, InQueue, InPend, InOut
    <3>2. CASE Queue' = Append(Queue, item)
      BY <2>1, <3>2, AppendFlight DEF InFlight, InPend, InOut
    <3> QED BY <3>1, <3>2, QueueAfterPublish
  <2> QED BY <1>0, <2>2, GaplessKept DEF output, node, Running
<1>5. CASE \E q \in Query : Pull(q)
  <2> PICK q \in Query : Pull(q)
    BY <1>5
  <2>1. \A h \in Height : InFlight(h)' <=> InFlight(h)
    BY PullFlight
  <2>2. UNCHANGED <<height, malformed, last, listening, drivers, nsub>>
    BY DEF Pull, output, node
  <2> QED BY <1>0, <2>1, <2>2, GaplessKept DEF Running
<1>6. CASE EndOfStream
  <2>1. \A h \in Height : InFlight(h)' <=> InFlight(h)
    BY <1>6, EndFlight DEF InFlight
  <2>2. UNCHANGED <<height, malformed, last, listening, drivers, nsub>>
    BY <1>6 DEF EndOfStream, output, node
  <2> QED BY <1>0, <2>1, <2>2, GaplessKept DEF Running
<1>7. CASE SendBatch
  <2> DEFINE b == Head(outbuf).events[1]
  <2>1. /\ UNCHANGED <<Queue, pend, height, malformed, drivers, nsub, listening>>
        /\ outbuf # <<>>
    BY <1>7 DEF SendBatch, Queue, node
  <2>6. listening' => last' = b
    BY <1>7, Zenon DEF SendBatch
  <2>2. b.height \in Height
    <3>1. Head(outbuf) \in Result /\ Head(outbuf).kind = "group"
      BY <1>7, TailElements DEF SendBatch, TypeOK
    <3>2. Head(outbuf).events \in Seq(Block) /\ Head(outbuf).events # <<>>
      BY <3>1 DEF Result
    <3>3. b \in Block
      BY <3>2, TailElements
    <3> QED BY <3>3 DEF Block, Height
  <2>3. /\ InFlight(b.height)
        /\ \A h \in Height : InFlight(h)' <=> InFlight(h) /\ h # b.height
    <3>1. \A h \in Height : /\ InOut(h) <=> h = b.height
                            /\ ~InOut(h)'
                            /\ InPend(h)' <=> InPend(h)
                            /\ InQueue(h)' <=> InQueue(h)
      BY <1>7, SendFlight
    <3>2. \A h \in Height : InPend(h) \/ InQueue(h) => b.height < h
      BY <2>2, <3>1 DEF Ordered
    <3> QED BY <1>0, <2>2, <3>1, <3>2 DEF InFlight
  <2>4. \A h \in Height : InFlight(h)' => b.height < h
    <3>1. \A h \in Height : InOut(h) => h = b.height
      BY <1>7, SendFlight
    <3>2. \A h \in Height : InPend(h) \/ InQueue(h) => b.height < h
      BY <1>7, <2>2, SendFlight DEF Ordered
    <3> QED BY <2>3, <3>1, <3>2 DEF InFlight
  <2>5. ASSUME NEW g \in Height, Due(g)'
        PROVE  Due(g) /\ g # b.height
    <3>1. CASE listening' /\ last'.conn = Len(drivers') /\ last'.height < g
      <4>1. b.height < g
        <5>1. last' = b
          BY <2>6, <3>1, Zenon
        <5> QED BY <3>1, <5>1
      <4> QED BY <1>0, <2>2, <2>3, <4>1 DEF Due
    <3>2. CASE \E h \in Height : h < g /\ InFlight(h)'
      <4> PICK h \in Height : h < g /\ InFlight(h)'
        BY <3>2
      <4>1. b.height < h /\ InFlight(h)
        BY <2>3, <2>4
      <4> QED BY <1>0, <2>2, <4>1 DEF Due
    <3> QED BY <1>0, <2>5, <3>1, <3>2 DEF Due
  <2> QED BY <1>0, <2>1, <2>3, <2>5 DEF Gapless, Running
<1> QED BY <1>1, <1>2, <1>3, <1>4, <1>5, <1>6, <1>7, StepKinds

--------------------------------------------------------------------------------
(***************************************************************************)
(* Joined drivers.                                                         *)
(***************************************************************************)

\* A driver that ended stays ended, and a step of a driver adds none.
LEMMA StepJoined ==
    ASSUME TypeOK, Phases, Joined, [Next]_vars
    PROVE  Joined'
<1> USE DEF Joined, Ended
<1>0. Len(drivers) \in Nat /\ drivers \in Seq(DriverStatus)
  BY LenProperties DEF TypeOK
<1>1. CASE New
  <2>1. Len(drivers') \in 0..1 /\ pc' \in {"subscribe", "failed"}
    <3>1. Len(<<"running">>) = 1 /\ Len(<<>>) = 0
      BY SingletonSeq
    <3> QED BY <1>1, <3>1 DEF New, Phases
  <2>2. \A n \in 0..1 : \A c \in 1..n : ~(c < n)
    OBVIOUS
  <2> QED BY <2>1, <2>2
<1>2. CASE Dial
  <2> DEFINE closed == [drivers EXCEPT ![Current] = Closing(Current)]
  <2>1. Current >= 1 /\ pc = "dial" /\ pc' = "join" /\ drivers' = Append(closed, "running")
    BY <1>2 DEF Dial, Phases
  <2>2. closed \in Seq(DriverStatus) /\ Len(closed) = Len(drivers)
    BY <2>1, ClosingType
  <2>3. /\ Len(drivers') = Len(drivers) + 1
        /\ \A c \in 1..Len(drivers) : drivers'[c] = closed[c]
    BY <2>2, AppendElements, <2>1
  <2>4. \A c \in 1..Len(drivers) : c < Len(drivers) => closed[c] = drivers[c]
    BY <1>0, <2>1
  <2>5. ASSUME NEW c \in 1..Len(drivers'), c < Len(drivers') - 1 PROVE Ended(c)'
    <3>1. c \in 1..Len(drivers) /\ c < Len(drivers)
      BY <1>0, <2>3, <2>5
    <3>2. Ended(c)
      BY <2>1, <3>1
    <3> QED BY <2>3, <2>4, <3>1, <3>2
  <2> QED BY <2>1, <2>5
<1>3. CASE Join
  <2>1. pc = "join" /\ Ended(Len(drivers) - 1) /\ drivers' = drivers
        /\ pc' \in {"subscribe", "dial", "top"}
    BY <1>3 DEF Join, RetryOrGiveUp
  <2>2. \A c \in 1..Len(drivers) : c < Len(drivers) => c < Len(drivers) - 1 \/ c = Len(drivers) - 1
    BY <1>0
  <2> QED BY <2>1, <2>2
<1>4. CASE Close
  <2> DEFINE closed == [drivers EXCEPT ![Current] = Closing(Current)]
  <2>1. Current >= 1 /\ pc = "close" /\ pc' = "joinlast" /\ drivers' = closed
    BY <1>4 DEF Close, Phases
  <2>2. Len(closed) = Len(drivers)
    BY <2>1, ClosingType
  <2>3. \A c \in 1..Len(drivers) : c < Len(drivers) => closed[c] = drivers[c]
    BY <1>0, <2>1
  <2> QED BY <2>1, <2>2, <2>3
<1>5. CASE JoinLast
  BY <1>5 DEF JoinLast
<1>6. CASE DriverStep
  <2> PICK c \in 1..Current :
        DriverFails(c) \/ DriverRelays(c) \/ DriverCloses(c) \/ DriverPanics(c)
    BY <1>6 DEF DriverStep
  <2>1. pc' = pc /\ ~Ended(c)
    BY DEF DriverFails, DriverRelays, DriverCloses, DriverPanics, DriverTo, control
  <2>2. PICK to \in DriverStatus : \E from : DriverTo(c, from, to)
    BY DEF DriverFails, DriverRelays, DriverCloses, DriverPanics
  <2>3. /\ Len(drivers') = Len(drivers)
        /\ \A d \in 1..Current : drivers'[d] = IF d = c THEN to ELSE drivers[d]
    BY <2>2, DriverToType
  <2> QED BY <1>0, <2>1, <2>3 DEF Phases
<1>7. ASSUME drivers' = drivers, pc' # "stopped", pc' # "join", pc # "join"
      PROVE  Joined'
  BY <1>7
<1>8. CASE \/ Subscribe \/ SubscribeFails \/ CheckCommand \/ (\E q \in Query : Pull(q))
           \/ EndOfStream \/ SendBatch \/ StreamError \/ DriverError \/ DialFails
  BY <1>7, <1>8 DEF Subscribe, SubscribeFails, CheckCommand, Pull, EndOfStream, SendBatch,
        StreamError, DriverError, DialFails, RetryOrGiveUp, StartReconnect, control
<1>9. CASE Environment \/ UNCHANGED vars
  BY <1>9 DEF Environment, CommitBlock, CommitTx, SubscriptionFails, EndpointDown,
              EndpointUp, SendShutdown, ConsumerDrops, control, vars
<1> QED BY <1>1, <1>2, <1>3, <1>4, <1>5, <1>6, <1>8, <1>9 DEF Next, MonitorStep

--------------------------------------------------------------------------------
(***************************************************************************)
(* The theorems.                                                           *)
(***************************************************************************)
LEMMA InitIInv == Init => IInv
<1> SUFFICES ASSUME Init PROVE IInv
  OBVIOUS
<1> USE DEF Init, NoBlock, EmptySubs, Queue
<1>1. TypeOK
  <2>1. <<>> \in Seq(Items) /\ <<>> \in Seq(Block) /\ <<>> \in Seq(Result)
        /\ <<>> \in Seq(Nat) /\ <<>> \in Seq(DriverStatus)
    BY EmptySeq
  <2>2. subs \in [Query -> Seq(Items)]
    BY EmptySubsType
  <2>3. listening \in BOOLEAN /\ noticed \in BOOLEAN /\ gaveUp \in BOOLEAN /\ up \in BOOLEAN
    BY Zenon
  <2>4. last \in [height : 0..MaxHeight, conn : Nat]
    OBVIOUS
  <2> QED BY <2>1, <2>2, <2>3, <2>4 DEF TypeOK
<1>2. Len(drivers) = 0 /\ Len(subs["Tx"]) = 0 /\ Len(Queue) = 0 /\ Len(pend) = 0 /\ Len(outbuf) = 0
  OBVIOUS
<1>3. Phases
  BY <1>2 DEF Phases, InLoop
<1>4. TxHasNoBlock /\ Singletons
  BY <1>2 DEF TxHasNoBlock, Singletons
<1>5. \A h : ~InFlight(h)
  BY <1>2 DEF InFlight, InQueue, InPend, InOut
<1>6. Ordered
  BY <1>2, <1>5 DEF Ordered, InFlight
<1>7. Gapless
  BY <1>5 DEF Gapless
<1>8. Joined
  BY <1>2 DEF Joined
<1> QED BY <1>1, <1>3, <1>4, <1>6, <1>7, <1>8 DEF IInv

LEMMA StepIInv == IInv /\ [Next]_vars => IInv'
  BY StepTypeOK, StepPhases, StepTxHasNoBlock, StepSingletons, StepOrdered,
     StepGapless, StepJoined DEF IInv

\* The inductive invariant is one.
THEOREM IInvHolds == Spec => []IInv
<1> QED BY InitIInv, StepIInv, PTL DEF Spec

\* Every variable keeps its type and the bounds of the model hold.
THEOREM TypesHold == Spec => []TypeOK
<1>1. IInv => TypeOK
  BY DEF IInv
<1> QED BY <1>1, IInvHolds, PTL

\* However many times the monitor reconnects, it leaves no driver task behind:
\* the only unfinished ones are the current one and the one being joined, and
\* none is unfinished once the monitor stopped.
THEOREM NoDriverLeaks == Spec => []NoLeakedDriver
<1>1. IInv => NoLeakedDriver
  <2>1. ASSUME TypeOK, Phases, Joined, NEW c \in 1..Current, ~Ended(c)
        PROVE  \/ c = Current /\ pc # "stopped"
               \/ c = Current - 1 /\ pc = "join"
    <3>1. Current \in Nat
      BY LenProperties, <2>1 DEF TypeOK
    <3>2. CASE c = Current
      BY <2>1, <3>2 DEF Joined
    <3>3. CASE c < Current
      BY <2>1, <3>1, <3>3 DEF Joined
    <3> QED BY <3>1, <3>2, <3>3
  <2> QED BY <2>1 DEF IInv, NoLeakedDriver
<1> QED BY <1>1, IInvHolds, PTL

\* A step of the monitor's world is a step of the feed, or none.
LEMMA StepFeed == IInv /\ IInv' /\ [Next]_vars => [Feed!Next]_(Feed!feed)
<1> SUFFICES ASSUME IInv, IInv', [Next]_vars PROVE [Feed!Next]_(Feed!feed)
  OBVIOUS
<1> USE DEF IInv, Feed!feed
<1>0. Len(drivers) \in Nat /\ height \in Nat /\ last.height \in Nat
  BY LenProperties DEF TypeOK
<1>1. CASE New
  <2>1. Len(<<"running">>) = 1 /\ Len(<<>>) = 0
    BY SingletonSeq
  <2>2. Len(drivers') = Len(drivers) \/ Len(drivers') = Len(drivers) + 1
    BY <1>1, <2>1 DEF New, Phases
  <2> QED BY <1>1, <2>2 DEF New, Feed!Next, Feed!NewSession, node, output
<1>2. CASE Dial
  <2>1. Len(drivers') = Len(drivers) + 1
    BY <1>2, ClosingType, AppendElements DEF Dial, Phases
  <2> QED BY <1>2, <2>1 DEF Dial, Feed!Next, Feed!NewSession, node, output
<1>3. CASE CommitBlock
  BY <1>3 DEF CommitBlock, Feed!Next, Feed!Commit, output
<1>4. CASE SendBatch
  <2> DEFINE b == Head(outbuf).events[1]
  <2>1. UNCHANGED <<height, malformed, drivers>>
    BY <1>4 DEF SendBatch, node
  <2>2. CASE last' = last
    BY <2>1, <2>2
  <2>3. CASE last' = b /\ listening
    <3>1. b \in Block /\ b.conn = Len(drivers)
      <4>1. /\ outbuf # <<>> /\ outbuf \in Seq(Result) /\ Head(outbuf).kind = "group"
            /\ Head(outbuf) \in Result /\ Head(outbuf) = outbuf[1] /\ Len(outbuf) >= 1
        BY <1>4, TailElements DEF SendBatch, TypeOK
      <4>2. Head(outbuf).events \in Seq(Block) /\ Head(outbuf).events # <<>>
        BY <4>1 DEF Result
      <4> QED BY <4>1, <4>2, TailElements, LenProperties DEF Singletons
    <3>2. /\ b.height \in Height /\ InOut(b.height)
          /\ \A h \in Height : InOut(h) => h = b.height
      BY <1>4, <3>1, SendFlight DEF Block, Height
    <3>3. b.height \in Nat /\ last.height < b.height /\ b.height <= height
      BY <3>2 DEF Ordered, InFlight, Height
    <3>4. \A h \in Height : InFlight(h) => b.height <= h
      BY <3>2, <3>3 DEF Ordered, InFlight, Height
    <3>5. ASSUME last.conn = Len(drivers), NEW g \in last.height + 1 .. b.height - 1
          PROVE  g \in malformed
      <4>1. g \in Height /\ last.height < g /\ g < b.height
        BY <1>0, <3>2, <3>3, <3>5 DEF Height
      <4>2. Due(g)
        BY <2>3, <3>5, <4>1 DEF Due
      <4>3. g \in malformed \/ InFlight(g)
        BY <3>2, <4>1, <4>2 DEF Gapless, InFlight
      <4> QED BY <3>3, <3>4, <4>1, <4>3 DEF Height
    <3>6. last' = [height |-> b.height, conn |-> Len(drivers)]
      BY <2>3, <3>1 DEF Block
    <3>7. b.height \in last.height + 1 .. height
      BY <1>0, <3>3
    <3>8. Feed!HandOver
      BY <2>1, <3>5, <3>6, <3>7 DEF Feed!HandOver
    <3> QED BY <3>8 DEF Feed!Next
  <2>4. last' = last \/ (last' = b /\ listening)
    BY <1>4 DEF SendBatch
  <2> QED BY <2>2, <2>3, <2>4
<1>5. CASE DriverStep
  <2>1. Len(drivers') = Len(drivers)
    BY <1>5, DriverToType
       DEF DriverStep, DriverFails, DriverRelays, DriverCloses, DriverPanics
  <2>2. UNCHANGED <<height, malformed, last>>
    BY <1>5 DEF DriverStep, DriverFails, DriverRelays, DriverCloses, DriverPanics, node, output
  <2> QED BY <2>1, <2>2
<1>6. CASE Close
  <2>1. Len(drivers') = Len(drivers)
    BY <1>6, ClosingType DEF Close, Phases
  <2> QED BY <1>6, <2>1 DEF Close, node, output
<1>7. CASE \/ Subscribe \/ SubscribeFails \/ CheckCommand \/ (\E q \in Query : Pull(q))
           \/ EndOfStream \/ StreamError \/ DriverError \/ DialFails \/ Join \/ JoinLast
  BY <1>7 DEF Subscribe, SubscribeFails, CheckCommand, Pull, EndOfStream, StreamError,
              DriverError, DialFails, Join, JoinLast, node, output
<1>8. CASE \/ CommitTx \/ SubscriptionFails \/ EndpointDown
           \/ EndpointUp \/ SendShutdown \/ ConsumerDrops \/ UNCHANGED vars
  BY <1>8 DEF CommitTx, SubscriptionFails, EndpointDown,
              EndpointUp, SendShutdown, ConsumerDrops, node, output, vars
<1> QED BY <1>1, <1>2, <1>3, <1>4, <1>5, <1>6, <1>7, <1>8 DEF Next, MonitorStep, Environment

\* The monitor, with all its queues, drivers and retries, implements the feed:
\* the consumer gets the chain's blocks in order, none twice, and none is
\* missing between two of the same connection unless its event was malformed.
THEOREM FeedHolds == Spec => FeedSpec
<1>1. Init => Feed!Init
  BY EmptySeq DEF Init, Feed!Init, NoBlock
<1> QED BY <1>1, IInvHolds, StepFeed, PTL DEF Spec, FeedSpec, Feed!Spec

--------------------------------------------------------------------------------
(***************************************************************************)
(* How often the monitor reconnects, and when it waits in vain, from an    *)
(* account of the reconnections that are still to come, beside IInv.       *)
(***************************************************************************)
\* The account stays balanced when no more is owed, or a fault pays for it.
LEMMA Balance ==
    ASSUME NEW a \in Nat, NEW b \in Nat, NEW f \in Nat, NEW g \in Nat,
           a <= 1 + 2 * f, (b <= a /\ f <= g) \/ (b <= a + 2 /\ g = f + 1)
    PROVE  b <= 1 + 2 * g
  OBVIOUS

\* One connection owes nothing.
LEMMA FirstBalance ==
    ASSUME NEW a, NEW b, NEW c, NEW f \in Nat, a = 1, b = 0, c = 0
    PROVE  a + b + c <= 1 + 2 * f
  OBVIOUS

USE ConstantsAssumption
    DEF Current, SubErrors, ItemKind, MonitorPC, DriverStatus, Query, EventQueries, AllFaults

(***************************************************************************)
(* Whatever makes the monitor dial again is there before: an attempt that  *)
(* has begun, an error in rx_err, a driver that will put one there or      *)
(* whose panic will make the join fail, a subscription that will be        *)
(* refused because its driver is gone, and an error on its way through the *)
(* batch stream.                                                           *)
(***************************************************************************)
One(P)  == IF P THEN 1 ELSE 0
Died(c) == drivers[c] \in {"failing", "panicked"}

ErrorsIn(s) == \E i \in 1..Len(s) : s[i].kind \in SubErrors
Broken      == ErrorsIn(subs["Tx"]) \/ ErrorsIn(subs["NewBlock"]) \/ ErrorsIn(outbuf)

Dials    == One(pc = "dial")
Refusals == One(pc \in {"join", "subscribe"} /\ drivers[Current] # "running")
Deaths   == One(Died(Current))
Joins    == One(pc = "join" /\ Died(Current - 1))
Breaks   == One(Broken)

Owed == Dials + Refusals + Deaths + Joins + Breaks

\* A fault pays for two reconnections: those there were, and those to come.
Paid ==
    /\ Current = 0 => errs = <<>>
    /\ Current > 0 => Current + Len(errs) + Owed <= 1 + 2 * faults

\* In the loop, a driver that ended has left its error behind, unless the loop
\* began without a subscription, or the driver panicked.
Awake ==
    /\ Current > 0 /\ drivers[Current] = "closing" => pc \in {"joinlast", "stopped"}
    /\ InLoop /\ drivers[Current] = "done" => gaveUp \/ errs # <<>>

--------------------------------------------------------------------------------
(***************************************************************************)
(* What the steps do to the errors of the batch stream.                    *)
(***************************************************************************)
LEMMA NoErrors == ~ErrorsIn(<<>>)
  BY DEF ErrorsIn

LEMMA ErrorsInTail ==
    ASSUME NEW S, NEW s \in Seq(S), s # <<>>
    PROVE  /\ ErrorsIn(Tail(s)) => ErrorsIn(s)
           /\ Head(s).kind \in SubErrors => ErrorsIn(s)
<1>1. /\ Head(s) = s[1] /\ Len(s) \in Nat /\ Len(s) >= 1 /\ Len(Tail(s)) = Len(s) - 1
      /\ \A i \in 1..Len(Tail(s)) : Tail(s)[i] = s[i + 1]
  BY TailElements
<1>2. \A i \in 1..Len(Tail(s)) : i + 1 \in 1..Len(s)
  BY <1>1
<1>3. 1 \in 1..Len(s)
  BY <1>1
<1>4. ErrorsIn(Tail(s)) => ErrorsIn(s)
  BY <1>1, <1>2 DEF ErrorsIn
<1>5. Head(s).kind \in SubErrors => ErrorsIn(s)
  BY <1>1, <1>3 DEF ErrorsIn
<1> QED BY <1>4, <1>5

LEMMA ErrorsInAppend ==
    ASSUME NEW S, NEW s \in Seq(S), NEW e \in S
    PROVE  ErrorsIn(Append(s, e)) <=> ErrorsIn(s) \/ e.kind \in SubErrors
<1>1. /\ Len(s) \in Nat /\ Len(Append(s, e)) = Len(s) + 1
      /\ \A i \in 1..Len(s) : Append(s, e)[i] = s[i]
      /\ Append(s, e)[Len(s) + 1] = e
  BY AppendElements
<1>2. \A i \in 1..Len(s) + 1 : i \in 1..Len(s) \/ i = Len(s) + 1
  BY <1>1
<1>3. Len(s) + 1 \in 1..Len(s) + 1 /\ \A i \in 1..Len(s) : i \in 1..Len(s) + 1
  BY <1>1
<1> QED BY <1>1, <1>2, <1>3 DEF ErrorsIn

\* What is published is an error only if a subscription fails.
LEMMA PublishErrors ==
    ASSUME TypeOK, NEW q \in Query, NEW item \in Items, Publish(q, item),
           item.kind \notin SubErrors, outbuf' = outbuf
    PROVE  Broken' => Broken
<1>1. subs["Tx"] \in Seq(Items) /\ subs["NewBlock"] \in Seq(Items)
  BY DEF TypeOK
<1>2. \/ subs'["Tx"] = subs["Tx"] /\ subs'["NewBlock"] = subs["NewBlock"]
      \/ subs'["Tx"] = Append(subs["Tx"], item) /\ subs'["NewBlock"] = subs["NewBlock"]
      \/ subs'["Tx"] = subs["Tx"] /\ subs'["NewBlock"] = Append(subs["NewBlock"], item)
  BY DEF Publish, TypeOK
<1>3. ErrorsIn(outbuf)' <=> ErrorsIn(outbuf)
  BY DEF ErrorsIn
<1>4. ErrorsIn(subs["Tx"])' => ErrorsIn(subs["Tx"])
  BY <1>1, <1>2, ErrorsInAppend DEF ErrorsIn
<1>5. ErrorsIn(subs["NewBlock"])' => ErrorsIn(subs["NewBlock"])
  BY <1>1, <1>2, ErrorsInAppend DEF ErrorsIn
<1> QED BY <1>3, <1>4, <1>5 DEF Broken

\* An error goes from the subscription to what the batch stream yields.
LEMMA PullErrors ==
    ASSUME TypeOK, NEW q \in Query, Pull(q)
    PROVE  Broken' => Broken
<1>1. /\ subs[q] \in Seq(Items) /\ subs[q] # <<>> /\ outbuf = <<>>
      /\ subs' = [subs EXCEPT ![q] = Tail(subs[q])]
  BY DEF TypeOK, Pull
<1>2. ErrorsIn(subs'[q]) => ErrorsIn(subs[q])
  BY <1>1, ErrorsInTail DEF TypeOK
<1>3. \A p \in Query : p # q => subs'[p] = subs[p]
  BY <1>1 DEF TypeOK
<1>4. \A p \in Query : ErrorsIn(subs[p]) => Broken
  BY DEF Broken
<1>5. \A p \in Query : ErrorsIn(subs'[p]) => Broken
  BY <1>2, <1>3, <1>4
<1>6. ErrorsIn(outbuf') => Broken
  <2>1. CASE Head(subs[q]).kind \in SubErrors
    BY <1>1, <1>4, <2>1, ErrorsInTail
  <2>2. CASE Head(subs[q]).kind \notin SubErrors
    <3>1. outbuf' = <<>> \/ \E b : outbuf' = YieldedOnItem(pend, b)
      BY <1>1, <2>2 DEF Pull
    <3>2. \A b : ~ErrorsIn(YieldedOnItem(pend, b))
      <4>1. \A g : ~ErrorsIn(<<Group(g)>>)
        BY DEF ErrorsIn, Group
      <4> QED BY <4>1, NoErrors DEF YieldedOnItem
    <3> QED BY <3>1, <3>2, NoErrors
  <2> QED BY <2>1, <2>2
<1> QED BY <1>5, <1>6 DEF Broken

\* Errors come from a subscription that fails, and from nowhere else.
LEMMA StepErrors ==
    ASSUME TypeOK, Phases, Singletons, [Next]_vars, ~SubscriptionFails
    PROVE  Broken' => Broken
<1>1. CASE \E q \in Query : Pull(q)
  BY <1>1, PullErrors
<1>2. CASE SubscribeFails \/ StreamError \/ DriverError \/ (CheckCommand /\ cmd = "sent")
  <2>1. subs' = EmptySubs
    BY <1>2 DEF SubscribeFails, StreamError, DriverError, CheckCommand, StartReconnect
  <2>2. outbuf' = <<>>
    <3>1. CASE SubscribeFails
      BY <3>1 DEF SubscribeFails, Phases, TypeOK
    <3>2. CASE StreamError \/ DriverError
      BY <3>2 DEF StreamError, DriverError, StartReconnect
    <3>3. CASE CheckCommand /\ cmd = "sent"
      BY <3>3 DEF CheckCommand
    <3> QED BY <1>2, <3>1, <3>2, <3>3
  <2>3. subs'["Tx"] = <<>> /\ subs'["NewBlock"] = <<>>
    BY <2>1, EmptiedQueues
  <2> QED BY <2>2, <2>3, NoErrors DEF Broken
<1>3. CASE EndOfStream
  <2>1. outbuf' = <<Group(pend)>> /\ subs' = subs
    BY <1>3 DEF EndOfStream, YieldedAtEnd
  <2>2. ~ErrorsIn(outbuf')
    BY <2>1 DEF ErrorsIn, Group
  <2> QED BY <2>1, <2>2 DEF Broken
<1>4. CASE SendBatch
  <2>1. outbuf \in Seq(Result) /\ outbuf # <<>> /\ outbuf' = Tail(outbuf) /\ subs' = subs
    BY <1>4 DEF SendBatch, TypeOK
  <2>2. ErrorsIn(outbuf') => ErrorsIn(outbuf)
    BY <2>1, ErrorsInTail
  <2> QED BY <2>1, <2>2 DEF Broken
<1>5. CASE CommitBlock
  <2>1. Current \in Nat /\ height' \in Nat \ {0} /\ height' \in 1..MaxHeight
    BY <1>5, LenProperties DEF CommitBlock, TypeOK
  <2>2. PICK item \in Items : Publish("NewBlock", item) /\ item.kind \notin SubErrors
    <3>1. Item("silent", height', Current) \in Items
      BY <2>1 DEF Items, Item
    <3>2. Item("silent", height', Current).kind \notin SubErrors
          /\ Item("block", height', Current).kind \notin SubErrors
      BY DEF Item
    <3>3. CASE Publish("NewBlock", Item("silent", height', Current))
      BY <3>1, <3>2, <3>3
    <3>4. CASE Publish("NewBlock", Item("block", height', Current))
      <4>1. CASE Running
        <5>1. Item("block", height', Current) \in Items
          BY <2>1, <4>1 DEF Items, Item, Running
        <5> QED BY <3>2, <3>4, <5>1
      <4>2. CASE ~Running
        <5>1. Publish("NewBlock", Item("silent", height', Current))
          BY <3>4, <4>2 DEF Publish
        <5> QED BY <3>1, <3>2, <5>1
      <4> QED BY <4>1, <4>2
    <3> QED BY <1>5, <3>3, <3>4 DEF CommitBlock
  <2> QED BY <1>5, <2>2, PublishErrors DEF CommitBlock
<1>6. CASE CommitTx
  <2>1. Current \in Nat
    BY LenProperties DEF TypeOK
  <2>2. PICK item \in Items : Publish("Tx", item) /\ item.kind \notin SubErrors
    <3>1. Item("silent", 0, Current) \in Items /\ Item("poison", 0, Current) \in Items
      BY <2>1 DEF Items, Item
    <3>2. Item("silent", 0, Current).kind \notin SubErrors
          /\ Item("poison", 0, Current).kind \notin SubErrors
      BY DEF Item
    <3> QED BY <1>6, <3>1, <3>2 DEF CommitTx
  <2> QED BY <1>6, <2>2, PublishErrors DEF CommitTx
<1>7. CASE UNCHANGED <<subs, outbuf>>
  BY <1>7 DEF Broken
<1>8. CASE CheckCommand
  <2>1. cmd = "sent" \/ UNCHANGED <<subs, outbuf>>
    BY <1>8 DEF CheckCommand, stream
  <2> QED BY <1>2, <1>7, <1>8, <2>1
<1>9. CASE \/ New \/ Subscribe \/ Dial \/ DialFails \/ Join \/ Close \/ JoinLast
           \/ DriverStep \/ EndpointDown \/ EndpointUp \/ SendShutdown \/ ConsumerDrops
           \/ UNCHANGED vars
  <2>1. UNCHANGED <<subs, outbuf>>
    BY <1>9 DEF New, Subscribe, Dial, DialFails, Join, Close, JoinLast,
                DriverStep, DriverFails, DriverRelays, DriverCloses, DriverPanics,
                EndpointDown, EndpointUp, SendShutdown, ConsumerDrops, vars, stream
  <2> QED BY <1>7, <2>1
<1> QED BY <1>1, <1>2, <1>3, <1>4, <1>5, <1>6, <1>8, <1>9
        DEF Next, MonitorStep, Environment

--------------------------------------------------------------------------------
(***************************************************************************)
(* Paid.                                                                   *)
(***************************************************************************)
LEMMA OwedTypes ==
    /\ {Dials, Refusals, Deaths, Joins, Breaks} \subseteq {0, 1}
    /\ {Dials', Refusals', Deaths', Joins', Breaks'} \subseteq {0, 1}
<1>1. \A P : One(P) \in {0, 1}
  BY DEF One
<1>2. {Dials, Refusals, Deaths, Joins, Breaks} \subseteq {0, 1}
  BY <1>1 DEF Dials, Refusals, Deaths, Joins, Breaks
<1>3. {Dials', Refusals', Deaths', Joins', Breaks'} \subseteq {0, 1}
  BY DEF One, Dials, Refusals, Deaths, Joins, Breaks
<1> QED BY <1>2, <1>3

Debt == Current + Len(errs) + Owed

LEMMA DebtType ==
    /\ TypeOK => Debt \in Nat /\ Current \in Nat /\ Len(errs) \in Nat /\ faults \in Nat
    /\ TypeOK' => Debt' \in Nat /\ Current' \in Nat /\ Len(errs)' \in Nat /\ faults' \in Nat
<1>1. Owed \in Nat /\ Owed' \in Nat
  BY OwedTypes DEF Owed
<1>2. TypeOK => Current \in Nat /\ Len(errs) \in Nat /\ faults \in Nat
  BY LenProperties DEF TypeOK
<1>3. TypeOK' => Current' \in Nat /\ Len(errs)' \in Nat /\ faults' \in Nat
  BY LenProperties DEF TypeOK
<1> HIDE DEF Current
<1> QED BY <1>1, <1>2, <1>3 DEF Debt

\* What a step must do to keep Paid: it does not owe more, or a fault pays.
LEMMA DebtKept ==
    ASSUME TypeOK, TypeOK', Paid, Current > 0, Current' >= Current,
           \/ Debt' <= Debt /\ faults <= faults'
           \/ Debt' <= Debt + 2 /\ faults' = faults + 1
    PROVE  Paid'
<1>1. Debt <= 1 + 2 * faults
  BY DEF Paid, Debt
<1>2. Debt \in Nat /\ Debt' \in Nat /\ faults \in Nat /\ faults' \in Nat
  BY DebtType
<1>3. Debt' <= 1 + 2 * faults'
  BY <1>1, <1>2, Balance
<1>4. Current' # 0
  BY LenProperties DEF TypeOK
<1>5. (Current + Len(errs) + Owed <= 1 + 2 * faults)'
  BY <1>3 DEF Debt
<1> QED BY <1>4, <1>5 DEF Paid

\* A step that leaves the drivers and their errors alone, and begins no
\* attempt, owes nothing more.
LEMMA QuietPaid ==
    ASSUME TypeOK, TypeOK', Paid, Current > 0,
           UNCHANGED <<drivers, errs>>, faults <= faults', Broken' => Broken,
           pc' \in {"dial", "join", "subscribe"} => pc' = pc
    PROVE  Paid'
<1>1. Current' = Current /\ Len(errs)' = Len(errs)
  OBVIOUS
<1>2. Dials' <= Dials /\ Refusals' <= Refusals
  BY DEF One, Dials, Refusals
<1>3. Deaths' = Deaths /\ Joins' <= Joins
  BY DEF One, Deaths, Joins, Died
<1>4. Breaks' <= Breaks
  BY DEF One, Breaks
<1>5. Debt' <= Debt
  <2> HIDE DEF Current
  <2>1. Current \in Nat /\ Len(errs) \in Nat
    BY DebtType
  <2> QED BY <1>1, <1>2, <1>3, <1>4, <2>1, OwedTypes DEF Debt, Owed
<1>6. Current' >= Current
  BY DebtType
<1> QED BY <1>5, <1>6, DebtKept

\* The end of a driver: what it will cost is paid by its fault, and is then
\* in rx_err.
LEMMA DriverPaid ==
    ASSUME TypeOK, TypeOK', Phases, Joined, Paid, DriverStep
    PROVE  Paid'
<1> PICK c \in 1..Current :
      DriverFails(c) \/ DriverRelays(c) \/ DriverCloses(c) \/ DriverPanics(c)
  BY DEF DriverStep
<1>0. /\ Current \in Nat /\ Current > 0 /\ Len(errs) \in Nat
      /\ faults \in Nat /\ Debt \in Nat
      /\ pc = "join" => Current - 1 \in 1..Current /\ Current - 1 # Current
  BY DebtType DEF Phases
<1>1. /\ pc' = pc /\ Current' = Current /\ Breaks' = Breaks
      /\ \A d \in 1..Current : d # c => drivers'[d] = drivers[d]
  <2>1. Current' = Current /\ \A d \in 1..Current : d # c => drivers'[d] = drivers[d]
    BY DriverToType DEF DriverFails, DriverRelays, DriverCloses, DriverPanics
  <2>2. UNCHANGED <<pc, subs, outbuf>>
    BY DEF DriverFails, DriverRelays, DriverCloses, DriverPanics, control, stream
  <2> QED BY <2>1, <2>2 DEF Breaks, Broken
<1>2. Dials' = Dials
  BY <1>1 DEF Dials
<1>3. c # Current => Refusals' = Refusals /\ Deaths' = Deaths
  BY <1>0, <1>1 DEF Refusals, Deaths, Died
<1>4. ~(pc = "join" /\ c = Current - 1) => Joins' = Joins
  BY <1>0, <1>1 DEF Joins, Died
<1>5. CASE DriverFails(c) \/ DriverPanics(c)
  <2>1. errs' = errs /\ faults' = faults + 1
    BY <1>5 DEF DriverFails, DriverPanics, Fault
  <2>2. Debt' <= Debt + 2
    <3>1. Joins' = Joins \/ (Refusals' = Refusals /\ Deaths' = Deaths)
      BY <1>0, <1>3, <1>4
    <3> HIDE DEF Current
    <3>2. CASE Joins' = Joins
      BY <1>0, <1>1, <1>2, <2>1, <3>2, OwedTypes DEF Debt, Owed
    <3>3. CASE Refusals' = Refusals /\ Deaths' = Deaths
      BY <1>0, <1>1, <1>2, <2>1, <3>3, OwedTypes DEF Debt, Owed
    <3> QED BY <3>1, <3>2, <3>3
  <2> QED BY <1>0, <1>1, <2>1, <2>2, DebtKept
<1>6. CASE DriverRelays(c)
  <2>1. /\ drivers[c] = "failing" /\ drivers'[c] = "done"
        /\ Len(errs') <= Len(errs) + 1 /\ Len(errs') \in Nat /\ faults' = faults
    <3>1. drivers'[c] = "done"
      BY <1>6, DriverToType DEF DriverRelays
    <3>2. errs' = Append(errs, c) \/ errs' = errs
      BY <1>6 DEF DriverRelays
    <3>3. Len(errs') <= Len(errs) + 1 /\ Len(errs') \in Nat
      <4>1. errs \in Seq(Nat) /\ c \in Nat
        BY <1>0 DEF TypeOK
      <4>2. CASE errs' = Append(errs, c)
        BY <1>0, <4>1, <4>2, AppendElements
      <4> QED BY <1>0, <3>2, <4>2
    <3> QED BY <1>6, <3>1, <3>3 DEF DriverRelays, DriverTo
  <2>2. CASE c = Current
    <3>1. Deaths = 1 /\ Deaths' = 0
      BY <1>1, <2>1, <2>2 DEF Deaths, Died, One
    <3>2. Refusals' = Refusals
      BY <1>1, <2>1, <2>2 DEF Refusals, One
    <3>3. Joins' = Joins
      BY <1>0, <1>4, <2>2
    <3>4. Debt' <= Debt
      <4> HIDE DEF Current
      <4> QED BY <1>0, <1>1, <1>2, <2>1, <3>1, <3>2, <3>3, OwedTypes DEF Debt, Owed
    <3> QED BY <1>0, <1>1, <2>1, <3>4, DebtKept
  <2>3. CASE c # Current
    <3>1. pc = "join" /\ c = Current - 1
      BY <1>0, <2>1, <2>3 DEF Joined, Ended
    <3>2. Joins = 1 /\ Joins' = 0
      BY <1>1, <2>1, <3>1 DEF Joins, Died, One
    <3>3. Debt' <= Debt
      <4> HIDE DEF Current
      <4> QED BY <1>0, <1>1, <1>2, <1>3, <2>1, <2>3, <3>2, OwedTypes DEF Debt, Owed
    <3> QED BY <1>0, <1>1, <2>1, <3>3, DebtKept
  <2> QED BY <2>2, <2>3
<1>7. CASE DriverCloses(c)
  <2>1. drivers[c] = "closing" /\ drivers'[c] = "done" /\ errs' = errs /\ faults' = faults
    BY <1>7, DriverToType DEF DriverCloses, DriverTo
  <2>2. Refusals' = Refusals /\ Deaths' = Deaths
    <3>1. CASE c = Current
      BY <1>1, <2>1, <3>1 DEF Refusals, Deaths, Died, One
    <3> QED BY <1>3, <3>1
  <2>3. Joins' = Joins
    <3>1. CASE pc = "join" /\ c = Current - 1
      BY <1>1, <2>1, <3>1 DEF Joins, Died, One
    <3> QED BY <1>4, <3>1
  <2>4. Debt' <= Debt
    <3> HIDE DEF Current
    <3> QED BY <1>0, <1>1, <1>2, <2>1, <2>2, <2>3, OwedTypes DEF Debt, Owed
  <2> QED BY <1>0, <1>1, <2>1, <2>4, DebtKept
<1> QED BY <1>5, <1>6, <1>7

\* Whatever the monitor and its surroundings do, a fault pays for it.
LEMMA StepPaid ==
    ASSUME TypeOK, TypeOK', Phases, Singletons, Joined, Paid, [Next]_vars
    PROVE  Paid'
<1>0. /\ Current \in Nat /\ Len(errs) \in Nat /\ faults \in Nat /\ Debt \in Nat
  BY DebtType
<1>1. CASE New
  <2>1. Current = 0 /\ errs = <<>> /\ errs' = <<>> /\ Current' \in {0, 1}
    BY <1>1 DEF New, Phases, Paid
  <2>2. CASE Current' = 0
    BY <2>1, <2>2 DEF Paid
  <2>3. CASE Current' = 1
    <3>1. drivers' = <<"running">> /\ pc' = "subscribe" /\ UNCHANGED <<subs, outbuf>>
      BY <1>1, <2>1, <2>3 DEF New, stream
    <3>2. Dials' = 0 /\ Refusals' = 0 /\ Deaths' = 0 /\ Joins' = 0
      BY <3>1 DEF Dials, Refusals, Deaths, Joins, Died, One
    <3>3. Breaks' = 0
      BY <1>1, <3>1, NoErrors DEF New, Phases, Queue, Breaks, Broken, One
    <3>4. Len(errs') = 0 /\ faults' \in Nat
      BY <2>1, DebtType
    <3>5. Owed' = 0
      BY <3>2, <3>3 DEF Owed
    <3>6. Current' + Len(errs') + Owed' <= 1 + 2 * faults'
      <4> HIDE DEF Current
      <4>1. Current' = 1
        BY <2>3
      <4> QED BY <3>4, <3>5, <4>1, FirstBalance
    <3> QED BY <2>3, <3>6 DEF Paid
  <2> QED BY <2>1, <2>2, <2>3
<1>2. CASE SubscribeFails
  <2>1. /\ Current > 0 /\ UNCHANGED <<drivers, errs>>
        /\ pc = "subscribe" /\ pc' \in {"failed", "dial", "top"}
    BY <1>2 DEF SubscribeFails, RetryOrGiveUp, Phases
  <2>2. Deaths' = Deaths /\ Joins' = Joins /\ Refusals' = 0 /\ Dials = 0
    BY <2>1 DEF Deaths, Joins, Refusals, Dials, Died, One
  <2>3. Breaks' <= Breaks
    <3>1. ~SubscriptionFails
      BY <2>1 DEF SubscriptionFails, control
    <3> QED BY <1>2, <3>1, StepErrors DEF Breaks, One
  <2>4. Refusals = 1 \/ faults' = faults + 1
    BY <1>2, <2>1 DEF SubscribeFails, Running, Fault, Refusals, One
  <2>5. faults' = faults \/ faults' = faults + 1
    BY <1>2 DEF SubscribeFails, Fault
  <2>6. (Debt' <= Debt /\ faults <= faults') \/ (Debt' <= Debt + 2 /\ faults' = faults + 1)
    <3>1. Current' = Current /\ errs' = errs
      BY <2>1
    <3> HIDE DEF Current
    <3>2. CASE faults' = faults + 1
      BY <1>0, <2>2, <2>3, <3>1, <3>2, OwedTypes DEF Debt, Owed
    <3>3. CASE faults' = faults /\ Refusals = 1
      BY <1>0, <2>2, <2>3, <3>1, <3>3, OwedTypes DEF Debt, Owed
    <3> QED BY <2>4, <2>5, <3>2, <3>3
  <2>7. Current' >= Current
    BY <1>0, <2>1
  <2> QED BY <2>1, <2>6, <2>7, DebtKept
<1>3. CASE StreamError
  <2>1. /\ Current > 0 /\ UNCHANGED <<drivers, errs, faults>>
        /\ pc = "select" /\ pc' = "dial" /\ subs' = EmptySubs /\ outbuf' = <<>>
    BY <1>3 DEF StreamError, StartReconnect, Phases
  <2>2. Deaths' = Deaths /\ Joins' = Joins /\ Refusals' = 0 /\ Dials = 0
    BY <2>1 DEF Deaths, Joins, Refusals, Dials, Died, One
  <2>3. Breaks = 1
    <3>1. outbuf \in Seq(Result) /\ outbuf # <<>> /\ Head(outbuf).kind \in SubErrors
      BY <1>3 DEF StreamError, TypeOK
    <3>2. ErrorsIn(outbuf)
      BY <3>1, ErrorsInTail
    <3> QED BY <3>2 DEF Breaks, Broken, One
  <2>4. Breaks' = 0
    BY <2>1, NoErrors, EmptiedQueues DEF Breaks, Broken, One
  <2>5. Debt' <= Debt
    <3>1. Current' = Current /\ errs' = errs
      BY <2>1
    <3> HIDE DEF Current
    <3> QED BY <1>0, <2>2, <2>3, <2>4, <3>1, OwedTypes DEF Debt, Owed
  <2> QED BY <1>0, <2>1, <2>5, DebtKept
<1>4. CASE DriverError
  <2>1. /\ Current > 0 /\ UNCHANGED <<drivers, faults>>
        /\ errs # <<>> /\ errs' = Tail(errs)
        /\ pc = "select" /\ pc' = "dial"
    BY <1>4 DEF DriverError, StartReconnect, Phases
  <2>2. Deaths' = Deaths /\ Joins' = Joins /\ Refusals' = 0 /\ Dials = 0
    BY <2>1 DEF Deaths, Joins, Refusals, Dials, Died, One
  <2>3. Breaks' <= Breaks
    <3>1. ~SubscriptionFails
      BY <2>1 DEF SubscriptionFails, control
    <3> QED BY <1>4, <3>1, StepErrors DEF Breaks, One
  <2>4. Len(errs') = Len(errs) - 1
    BY <2>1, TailElements DEF TypeOK
  <2>5. Debt' <= Debt
    <3>1. Current' = Current
      BY <2>1
    <3> HIDE DEF Current
    <3> QED BY <1>0, <2>2, <2>3, <2>4, <3>1, OwedTypes DEF Debt, Owed
  <2> QED BY <1>0, <2>1, <2>5, DebtKept
<1>5. CASE Dial
  <2>1. /\ Current > 0 /\ UNCHANGED <<errs, faults, subs, outbuf>> /\ pc = "dial" /\ pc' = "join"
    BY <1>5 DEF Dial, Phases, stream
  <2>2. /\ Current' = Current + 1 /\ drivers'[Current'] = "running"
        /\ drivers'[Current' - 1] = Closing(Current)
    <3> DEFINE closed == [drivers EXCEPT ![Current] = Closing(Current)]
    <3>1. closed \in Seq(DriverStatus) /\ Len(closed) = Len(drivers)
      BY <1>0, <2>1, ClosingType
    <3>2. closed[Current] = Closing(Current)
      BY <1>0, <2>1 DEF TypeOK
    <3>3. drivers' = Append(closed, "running")
      BY <1>5 DEF Dial
    <3> HIDE DEF closed
    <3> QED BY <1>0, <2>1, <3>1, <3>2, <3>3, AppendElements
  <2>3. Dials = 1 /\ Dials' = 0 /\ Deaths' = 0 /\ Refusals' = 0 /\ Breaks' = Breaks
    BY <2>1, <2>2 DEF Dials, Deaths, Died, Refusals, Breaks, Broken, One
  <2>4. Joins' <= Deaths
    BY <2>1, <2>2 DEF Joins, Deaths, Died, Closing, One
  <2>5. Debt' <= Debt
    <3>1. Current' = Current + 1 /\ errs' = errs
      BY <2>1, <2>2
    <3> HIDE DEF Current
    <3> QED BY <1>0, <2>3, <2>4, <3>1, OwedTypes DEF Debt, Owed
  <2> QED BY <1>0, <2>1, <2>2, <2>5, DebtKept
<1>6. CASE Join
  <2>1. /\ Current > 0 /\ UNCHANGED <<drivers, errs, faults, subs, outbuf>> /\ pc = "join"
        /\ pc' \in {"subscribe", "dial", "top"}
        /\ pc' = "dial" => Died(Current - 1)
    BY <1>6 DEF Join, RetryOrGiveUp, Phases, stream, Ended, Died
  <2>2. Dials = 0 /\ Deaths' = Deaths /\ Joins' = 0 /\ Breaks' = Breaks
    BY <2>1 DEF Dials, Deaths, Died, Joins, Breaks, Broken, One
  <2>3. Refusals' <= Refusals
    BY <2>1 DEF Refusals, One
  <2>4. Dials' <= Joins
    BY <2>1 DEF Dials, Joins, One
  <2>5. Debt' <= Debt
    <3>1. Current' = Current /\ errs' = errs
      BY <2>1
    <3> HIDE DEF Current
    <3> QED BY <1>0, <2>2, <2>3, <2>4, <3>1, OwedTypes DEF Debt, Owed
  <2> QED BY <1>0, <2>1, <2>5, DebtKept
<1>7. CASE Close
  <2>1. /\ Current > 0 /\ UNCHANGED <<errs, faults, subs, outbuf>>
        /\ pc = "close" /\ pc' = "joinlast"
    BY <1>7 DEF Close, Phases, stream
  <2>2. Current' = Current /\ drivers'[Current] = Closing(Current)
    <3>1. Len(drivers') = Len(drivers)
      BY <1>0, <1>7, <2>1, ClosingType DEF Close
    <3>2. drivers'[Current] = Closing(Current)
      BY <1>0, <1>7, <2>1 DEF Close, TypeOK
    <3> QED BY <3>1, <3>2
  <2>3. Dials' = 0 /\ Joins' = 0 /\ Refusals' = 0 /\ Breaks' = Breaks
    BY <2>1 DEF Dials, Joins, Refusals, Breaks, Broken, One
  <2>4. Deaths' <= Deaths
    BY <2>1, <2>2 DEF Deaths, Died, Closing, One
  <2>5. Debt' <= Debt
    <3>1. Current' = Current /\ errs' = errs
      BY <2>1, <2>2
    <3> HIDE DEF Current
    <3> QED BY <1>0, <2>3, <2>4, <3>1, OwedTypes DEF Debt, Owed
  <2> QED BY <1>0, <2>1, <2>2, <2>5, DebtKept
<1>8. CASE SubscriptionFails
  <2>1. /\ Current > 0 /\ UNCHANGED <<pc, drivers, errs>> /\ faults' = faults + 1
    BY <1>8 DEF SubscriptionFails, Fault, Running, control
  <2>2. Dials' = Dials /\ Deaths' = Deaths /\ Joins' = Joins /\ Refusals' = Refusals
    BY <2>1 DEF Deaths, Joins, Refusals, Dials, Died, One
  <2>3. Debt' <= Debt + 2
    <3>1. Current' = Current /\ errs' = errs
      BY <2>1
    <3> HIDE DEF Current
    <3> QED BY <1>0, <2>2, <3>1, OwedTypes DEF Debt, Owed
  <2> QED BY <1>0, <2>1, <2>3, DebtKept
<1>9. CASE DriverStep
  BY <1>9, DriverPaid
<1>10. CASE \/ Subscribe \/ CheckCommand \/ (\E q \in Query : Pull(q)) \/ EndOfStream
            \/ SendBatch \/ DialFails \/ JoinLast \/ CommitBlock \/ CommitTx
            \/ EndpointDown \/ EndpointUp \/ SendShutdown \/ ConsumerDrops
            \/ UNCHANGED vars
  <2>1. /\ UNCHANGED <<drivers, errs>>
        /\ pc' \in {"dial", "join", "subscribe"} => pc' = pc
    BY <1>10 DEF Subscribe, CheckCommand, Pull, EndOfStream, SendBatch, DialFails,
                RetryOrGiveUp, JoinLast, CommitBlock, CommitTx, EndpointDown, EndpointUp,
                SendShutdown, ConsumerDrops, vars, control, stream
  <2>2. faults <= faults'
    <3>1. faults' = faults \/ faults' = faults + 1
      BY <1>10 DEF Subscribe, CheckCommand, Pull, EndOfStream, SendBatch, DialFails,
                  JoinLast, CommitBlock, CommitTx, EndpointDown, EndpointUp,
                  SendShutdown, ConsumerDrops, vars, Fault
    <3> QED BY <1>0, <3>1
  <2>3. CASE SubscriptionFails
    BY <1>8, <2>3
  <2>4. CASE ~SubscriptionFails /\ Current > 0
    BY <2>1, <2>2, <2>4, StepErrors, QuietPaid
  <2>5. CASE Current = 0
    BY <2>1, <2>5 DEF Paid
  <2> QED BY <1>0, <2>3, <2>4, <2>5
<1> QED BY <1>1, <1>2, <1>3, <1>4, <1>5, <1>6, <1>7, <1>8, <1>9, <1>10
        DEF Next, MonitorStep, Environment

--------------------------------------------------------------------------------
(***************************************************************************)
(* Awake.                                                                  *)
(***************************************************************************)
LEMMA StepAwake ==
    ASSUME TypeOK, TypeOK', Phases, Joined, Awake, [Next]_vars
    PROVE  Awake'
<1> USE DEF Awake, InLoop
<1>0. Current \in Nat /\ drivers \in Seq(DriverStatus)
  BY DebtType DEF TypeOK
<1>1. CASE New
  <2>1. drivers' = <<"running">> \/ (pc' = "failed" /\ drivers' = drivers)
    BY <1>1 DEF New
  <2>2. CASE drivers' = <<"running">>
    <3>1. Current' = 1 /\ drivers'[1] = "running"
      BY <2>2
    <3> QED BY <1>1, <2>2, <3>1 DEF New
  <2>3. CASE pc' = "failed" /\ drivers' = drivers
    BY <1>1, <2>3 DEF New, Phases
  <2> QED BY <2>1, <2>2, <2>3
<1>2. CASE Subscribe
  <2>1. drivers' = drivers /\ Current > 0 /\ drivers[Current] = "running"
    BY <1>2 DEF Subscribe, Running
  <2> QED BY <2>1
<1>3. CASE SubscribeFails \/ DialFails \/ Join
  <2>1. /\ drivers' = drivers /\ pc \in {"subscribe", "dial", "join"}
        /\ pc' \in {"top", "select"} => gaveUp'
    BY <1>3 DEF SubscribeFails, DialFails, Join, RetryOrGiveUp
  <2> QED BY <2>1
<1>4. CASE CheckCommand
  <2>1. /\ drivers' = drivers /\ errs' = errs /\ gaveUp' = gaveUp
        /\ pc = "top" /\ pc' \in {"select", "close"}
    BY <1>4 DEF CheckCommand
  <2> QED BY <2>1
<1>5. CASE (\E q \in Query : Pull(q)) \/ EndOfStream \/ SendBatch
  <2>1. /\ drivers' = drivers /\ errs' = errs /\ gaveUp' = gaveUp
        /\ pc = "select" /\ pc' \in {"select", "panicked", "top"}
    BY <1>5 DEF Pull, EndOfStream, SendBatch, control
  <2> QED BY <2>1
<1>6. CASE StreamError \/ DriverError
  <2>1. drivers' = drivers /\ pc = "select" /\ pc' = "dial"
    BY <1>6 DEF StreamError, DriverError, StartReconnect
  <2> QED BY <2>1
<1>7. CASE Dial
  <2>1. pc' = "join" /\ Current' = Current + 1 /\ drivers'[Current'] = "running"
    <3> DEFINE closed == [drivers EXCEPT ![Current] = Closing(Current)]
    <3>1. closed \in Seq(DriverStatus) /\ Len(closed) = Len(drivers)
      BY <1>0, <1>7, ClosingType DEF Dial, Phases
    <3>2. drivers' = Append(closed, "running") /\ pc' = "join"
      BY <1>7 DEF Dial
    <3> HIDE DEF closed
    <3> QED BY <1>0, <3>1, <3>2, AppendElements
  <2> QED BY <2>1
<1>8. CASE Close
  <2>1. pc' = "joinlast"
    BY <1>8 DEF Close
  <2> QED BY <2>1
<1>9. CASE JoinLast
  <2>1. drivers' = drivers /\ pc = "joinlast" /\ pc' = "stopped"
    BY <1>9 DEF JoinLast
  <2> QED BY <2>1
<1>10. CASE DriverStep
  <2> PICK c \in 1..Current :
        DriverFails(c) \/ DriverRelays(c) \/ DriverCloses(c) \/ DriverPanics(c)
    BY <1>10 DEF DriverStep
  <2>1. pc' = pc /\ gaveUp' = gaveUp
    BY DEF DriverFails, DriverRelays, DriverCloses, DriverPanics, control
  <2>2. CASE DriverRelays(c)
    <3>1. /\ drivers[c] = "failing" /\ Current' = Current
          /\ \A d \in 1..Current : drivers'[d] = IF d = c THEN "done" ELSE drivers[d]
      BY <2>2, DriverToType DEF DriverRelays, DriverTo
    <3>2. errs' = Append(errs, c) \/ (errs' = errs /\ ~Alive)
      BY <2>2 DEF DriverRelays
    <3>3. errs' # <<>> \/ (errs' = errs /\ ~Alive)
      <4>1. errs \in Seq(Nat) /\ c \in Nat
        BY <1>0 DEF TypeOK
      <4> QED BY <3>2, <4>1, AppendProperties
    <3>4. pc \in {"top", "select"} => Alive
      BY DEF Alive
    <3>5. Current \in 1..Current
      BY <1>0
    <3>6. Current > 0
      BY <1>0
    <3> QED BY <2>1, <3>1, <3>3, <3>4, <3>5, <3>6
  <2>3. CASE DriverCloses(c)
    <3>1. /\ drivers[c] = "closing" /\ Current' = Current /\ errs' = errs
          /\ \A d \in 1..Current : drivers'[d] = IF d = c THEN "done" ELSE drivers[d]
      BY <2>3, DriverToType DEF DriverCloses, DriverTo
    <3>2. Current \in 1..Current /\ Current > 0
      BY <1>0
    <3> QED BY <2>1, <3>1, <3>2
  <2>4. CASE DriverFails(c) \/ DriverPanics(c)
    <3>1. /\ Current' = Current /\ errs' = errs
          /\ \A d \in 1..Current : drivers'[d] = drivers[d]
               \/ drivers'[d] \in {"failing", "panicked"}
      BY <2>4, DriverToType DEF DriverFails, DriverPanics
    <3>2. Current \in 1..Current /\ Current > 0
      BY <1>0
    <3> QED BY <2>1, <3>1, <3>2
  <2> QED BY <2>2, <2>3, <2>4
<1>11. CASE \/ CommitBlock \/ CommitTx \/ SubscriptionFails \/ EndpointDown \/ EndpointUp
            \/ SendShutdown \/ ConsumerDrops \/ UNCHANGED vars
  <2>1. UNCHANGED <<pc, drivers, errs, gaveUp>>
    BY <1>11 DEF CommitBlock, CommitTx, SubscriptionFails, EndpointDown, EndpointUp,
                SendShutdown, ConsumerDrops, vars, control
  <2> QED BY <2>1
<1> QED BY <1>1, <1>2, <1>3, <1>4, <1>5, <1>6, <1>7, <1>8, <1>9, <1>10, <1>11
        DEF Next, MonitorStep, Environment

--------------------------------------------------------------------------------
(***************************************************************************)
(* The theorems.                                                           *)
(***************************************************************************)
LEMMA InitAccount == Init => Paid /\ Awake
<1>1. Init => drivers = <<>> /\ errs = <<>> /\ pc = "new"
  BY DEF Init
<1> QED BY <1>1 DEF Paid, Awake, InLoop

LEMMA StepAccount == IInv /\ IInv' /\ Paid /\ Awake /\ [Next]_vars => Paid' /\ Awake'
  BY StepPaid, StepAwake DEF IInv

LEMMA AccountHolds == Spec => [](IInv /\ Paid /\ Awake)
<1>1. IInv /\ Paid /\ Awake /\ [Next]_vars => (IInv /\ Paid /\ Awake)'
  BY StepIInv, StepAccount
<1> QED BY <1>1, InitIInv, InitAccount, PTL DEF Spec

\* The monitor dials at most twice for every fault, however the faults fall on
\* the drivers it replaces, on those it replaces them with, and on the
\* subscriptions in between.
THEOREM ReconnectionsHold == Spec => []ReconnectionsBounded
<1>1. IInv /\ Paid => ReconnectionsBounded
  <2> SUFFICES ASSUME TypeOK, Paid PROVE ReconnectionsBounded
    BY DEF IInv
  <2>1. Current \in Nat /\ Len(errs) \in Nat /\ faults \in Nat /\ Owed \in Nat
    BY DebtType, OwedTypes DEF Owed
  <2>2. CASE Current = 0
    BY <2>1, <2>2 DEF ReconnectionsBounded
  <2>3. CASE Current > 0
    <3>1. Current + Len(errs) + Owed <= 1 + 2 * faults
      BY <2>3 DEF Paid
    <3> HIDE DEF Current
    <3> QED BY <2>1, <3>1 DEF ReconnectionsBounded
  <2> QED BY <2>1, <2>2, <2>3
<1> QED BY <1>1, AccountHolds, PTL

\* The only ways to wait in vain, in a select! that nothing completes, are a
\* reconnection that ran out of delays and a driver whose task panicked.
THEOREM WaitsInVain == Spec => []WedgedOnlyAfterGivingUp
<1>1. Awake => WedgedOnlyAfterGivingUp
  BY DEF Awake, WedgedOnlyAfterGivingUp, Idle, InLoop, Ended
<1> QED BY <1>1, AccountHolds, PTL
================================================================================
