----------------------------- MODULE EventBusProofs -----------------------------
(***************************************************************************)
(* Theorems about EventBus, for any number of subscribers and broadcasts.  *)
(***************************************************************************)
EXTENDS EventBus, SequenceFacts, FiniteSetTheorems

USE BusAssumption DEF Subscriber, progress, vars

\* Removing an element moves those behind it one place down.
LEMMA RemoveElement ==
    ASSUME NEW S, NEW s \in Seq(S), NEW i \in 1..Len(s)
    PROVE  /\ RemoveAt(s, i) \in Seq(S)
           /\ Len(s) \in Nat /\ Len(RemoveAt(s, i)) = Len(s) - 1
           /\ \A j \in 1..Len(RemoveAt(s, i)) :
                RemoveAt(s, i)[j] = IF j < i THEN s[j] ELSE s[j + 1]
<1> DEFINE front == SubSeq(s, 1, i - 1)
           back  == SubSeq(s, i + 1, Len(s))
<1>1. Len(s) \in Nat /\ i \in Int /\ 1 <= i /\ i <= Len(s)
  BY LenProperties
<1>2. \A j \in 1..Len(s) : s[j] \in S
  BY ElementOfSeq
<1>3. /\ front \in Seq(S) /\ Len(front) = i - 1
      /\ \A j \in 1..(i - 1) : front[j] = s[j]
  <2>1. \A j \in 1..(i - 1) : s[j] \in S
    BY <1>1, <1>2
  <2>2. i - 1 \in Int /\ 1 \in Int
    BY <1>1
  <2>3. /\ front \in Seq(S) /\ Len(front) = IF 1 <= i - 1 THEN (i - 1) - 1 + 1 ELSE 0
        /\ \A j \in 1..((i - 1) - 1 + 1) : front[j] = s[1 + j - 1]
    BY <2>1, <2>2, SubSeqProperties
  <2> HIDE DEF front
  <2> QED BY <1>1, <2>3
<1>4. /\ back \in Seq(S) /\ Len(back) = Len(s) - i
      /\ \A j \in 1..(Len(s) - i) : back[j] = s[i + j]
  <2>1. \A j \in (i + 1)..Len(s) : s[j] \in S
    BY <1>1, <1>2
  <2>2. i + 1 \in Int /\ Len(s) \in Int
    BY <1>1
  <2>3. /\ back \in Seq(S)
        /\ Len(back) = IF i + 1 <= Len(s) THEN Len(s) - (i + 1) + 1 ELSE 0
        /\ \A j \in 1..(Len(s) - (i + 1) + 1) : back[j] = s[(i + 1) + j - 1]
    BY <2>1, <2>2, SubSeqProperties
  <2> HIDE DEF back
  <2> QED BY <1>1, <2>3
<1> HIDE DEF front, back
<1>5. /\ front \o back \in Seq(S) /\ Len(front \o back) = Len(front) + Len(back)
      /\ \A j \in 1..(Len(front) + Len(back)) :
           (front \o back)[j] = IF j <= Len(front) THEN front[j] ELSE back[j - Len(front)]
  BY <1>3, <1>4, ConcatProperties
<1>6. RemoveAt(s, i) = front \o back
  BY DEF RemoveAt, front, back
<1>7. ASSUME NEW j \in 1..(Len(s) - 1)
      PROVE  (front \o back)[j] = IF j < i THEN s[j] ELSE s[j + 1]
  <2>1. CASE j < i
    BY <1>1, <1>3, <1>4, <1>5, <2>1
  <2>2. CASE ~(j < i)
    <3>1. (front \o back)[j] = back[j - (i - 1)] /\ j - (i - 1) \in 1..(Len(s) - i)
      BY <1>1, <1>3, <1>4, <1>5, <2>2
    <3>2. back[j - (i - 1)] = s[i + (j - (i - 1))]
      BY <1>4, <3>1
    <3>3. i + (j - (i - 1)) = j + 1
      BY <1>1
    <3> QED BY <2>2, <3>1, <3>2, <3>3
  <2> QED BY <2>1, <2>2
<1>8. Len(front \o back) = Len(s) - 1
  BY <1>1, <1>3, <1>4, <1>5
<1> QED BY <1>1, <1>5, <1>6, <1>7, <1>8

\* What is left after a removal was there before, and once if it was once.
LEMMA RemovalShrinks ==
    ASSUME NEW S, NEW s \in Seq(S), IsInjective(s), NEW i \in 1..Len(s)
    PROVE  /\ IsInjective(RemoveAt(s, i))
           /\ \A x : x \in Range(RemoveAt(s, i)) => x \in Range(s)
<1> DEFINE t == RemoveAt(s, i)
<1>1. /\ t \in Seq(S) /\ Len(s) \in Nat /\ Len(t) = Len(s) - 1
      /\ \A j \in 1..Len(t) : t[j] = IF j < i THEN s[j] ELSE s[j + 1]
  BY RemoveElement
<1>2. DOMAIN t = 1..Len(t) /\ DOMAIN s = 1..Len(s)
  BY <1>1, LenProperties
<1> HIDE DEF t
<1>3. ASSUME NEW j \in 1..Len(t), NEW k \in 1..Len(t), t[j] = t[k]
      PROVE  j = k
  <2> DEFINE from(m) == IF m < i THEN m ELSE m + 1
  <2>1. ASSUME NEW m \in 1..Len(t)
        PROVE  from(m) \in 1..Len(s) /\ t[m] = s[from(m)]
    <3>1. CASE m < i
      BY <1>1, <3>1
    <3>2. CASE ~(m < i)
      BY <1>1, <3>2
    <3> QED BY <3>1, <3>2
  <2>2. from(j) = from(k)
    <3>1. s[from(j)] = s[from(k)] /\ from(j) \in 1..Len(s) /\ from(k) \in 1..Len(s)
      BY <1>3, <2>1
    <3> HIDE DEF from
    <3> QED BY <1>2, <3>1 DEF IsInjective
  <2> QED BY <1>1, <2>2
<1>4. ASSUME NEW x, x \in Range(t) PROVE x \in Range(s)
  <2>1. PICK j \in 1..Len(t) : x = t[j]
    BY <1>2, <1>4 DEF Range
  <2>2. j \in 1..Len(s) /\ j + 1 \in 1..Len(s) /\ (x = s[j] \/ x = s[j + 1])
    BY <1>1, <2>1
  <2> QED BY <1>2, <2>2 DEF Range
<1>5. IsInjective(t)
  BY <1>2, <1>3 DEF IsInjective
<1> QED BY <1>4, <1>5 DEF t

--------------------------------------------------------------------------------
(***************************************************************************)
(* The types, and what bounds the loops of a broadcast.                    *)
(***************************************************************************)

\* There are no more senders than subscribers; the loops run over the list and
\* over the noted indices; a broadcast that runs was begun.
Loops ==
    /\ Len(txs) <= subscribers
    /\ \A i \in 1..Len(txs) : txs[i] <= subscribers
    /\ pc = "sending" => next <= Len(txs) + 1 /\ Len(disconnected) < next
    /\ Len(disconnected) <= MaxSubscribers
    /\ pc # "idle" => broadcasts >= 1

\* Who has not subscribed yet was sent nothing; nobody joins in the future.
Newcomers ==
    /\ \A s \in Subscriber : s > subscribers => channel[s] = <<>>
    /\ \A s \in Subscriber : joined[s] <= broadcasts

IInv == TypeOK /\ Loops /\ Newcomers /\ Consecutive

\* The senders in the list are those of the registered subscribers.
LEMMA RegisteredPlace ==
    ASSUME txs \in Seq(Subscriber), NEW s
    PROVE  Registered(s) <=> \E i \in 1..Len(txs) : txs[i] = s
<1>1. DOMAIN txs = 1..Len(txs)
  BY LenProperties
<1> QED BY <1>1 DEF Registered, Range

LEMMA InitIInv == Init => IInv
  <1> SUFFICES ASSUME Init PROVE IInv
    OBVIOUS
  <1>1. /\ txs = <<>> /\ Len(txs) = 0 /\ txs \in Seq(Subscriber)
        /\ disconnected \in Seq(1..MaxSubscribers) /\ Len(disconnected) = 0
    BY EmptySeq DEF Init
  <1>2. IsInjective(txs)
    BY <1>1, LenProperties DEF IsInjective
  <1>3. channel \in [Subscriber -> Seq(1..MaxBroadcasts)]
    <2>1. <<>> \in Seq(1..MaxBroadcasts)
      BY EmptySeq
    <2> QED BY <2>1 DEF Init
  <1>4. TypeOK
    BY <1>1, <1>2, <1>3 DEF Init, TypeOK
  <1>5. Loops /\ Newcomers
    BY <1>1 DEF Init, Loops, Newcomers
  <1>6. Consecutive
    BY DEF Init, Consecutive
  <1> QED BY <1>4, <1>5, <1>6 DEF IInv

--------------------------------------------------------------------------------
(***************************************************************************)
(* One lemma per action.                                                   *)
(***************************************************************************)
LEMMA SubscribeIInv == IInv /\ Subscribe => IInv'
  <1> SUFFICES ASSUME IInv, Subscribe PROVE IInv'
    OBVIOUS
  <1> DEFINE s == subscribers + 1
  <1>1. /\ s \in Subscriber /\ subscribers \in Nat /\ s <= MaxSubscribers
        /\ txs \in Seq(Subscriber) /\ txs' = Append(txs, s)
        /\ subscribers' = s /\ holding' = holding \cup {s}
        /\ holding \subseteq 1..subscribers
    BY DEF Subscribe, IInv, TypeOK
  <1>2. /\ txs' \in Seq(Subscriber) /\ Len(txs) \in Nat /\ Len(txs') = Len(txs) + 1
        /\ \A i \in 1..Len(txs) : txs'[i] = txs[i]
        /\ txs'[Len(txs) + 1] = s
    BY <1>1, AppendElements
  <1>3. \A i \in 1..Len(txs') : i \in 1..Len(txs) \/ i = Len(txs) + 1
    BY <1>2
  <1>4. \A i \in 1..Len(txs) : txs[i] <= subscribers /\ txs[i] \in Nat
    BY <1>1, ElementOfSeq DEF IInv, Loops
  <1>5. IsInjective(txs')
    <2>1. DOMAIN txs = 1..Len(txs) /\ DOMAIN txs' = 1..Len(txs')
      BY <1>1, <1>2, LenProperties
    <2>2. ASSUME NEW i \in 1..Len(txs'), NEW j \in 1..Len(txs'), txs'[i] = txs'[j]
          PROVE  i = j
      <3>1. \A k \in 1..Len(txs) : txs[k] # s
        BY <1>1, <1>4
      <3>2. \A k, l \in 1..Len(txs) : txs[k] = txs[l] => k = l
        BY <2>1 DEF IInv, TypeOK, IsInjective
      <3> QED BY <1>2, <1>3, <2>2, <3>1, <3>2
    <2> QED BY <2>1, <2>2 DEF IsInjective
  <1>6. joined' \in [Subscriber -> 0..MaxBroadcasts]
        /\ joined'[s] = broadcasts /\ \A r \in Subscriber : r # s => joined'[r] = joined[r]
    BY <1>1 DEF Subscribe, IInv, TypeOK
  <1>7. pc = "idle" /\ UNCHANGED <<channel, broadcasts, pc, next, disconnected>>
    BY DEF Subscribe
  <1>8. TypeOK'
    <2>1. subscribers' \in 0..MaxSubscribers /\ holding' \subseteq 1..subscribers'
      BY <1>1
    <2> QED BY <1>2, <1>5, <1>6, <1>7, <2>1 DEF IInv, TypeOK
  <1>9. Loops'
    <2>1. Len(txs') <= subscribers'
      BY <1>1, <1>2 DEF IInv, Loops
    <2>2. \A i \in 1..Len(txs') : txs'[i] <= subscribers'
      BY <1>1, <1>2, <1>3, <1>4
    <2> QED BY <1>7, <2>1, <2>2 DEF IInv, Loops
  <1>10. Newcomers'
    <2>1. broadcasts \in Nat
      BY DEF IInv, TypeOK
    <2>2. \A r \in Subscriber : r > s => r > subscribers
      BY <1>1
    <2>3. \A r \in Subscriber : r > s => channel'[r] = <<>>
      BY <1>7, <2>2 DEF IInv, Newcomers
    <2>4. \A r \in Subscriber : joined'[r] <= broadcasts
      BY <1>6, <2>1 DEF IInv, Newcomers
    <2> QED BY <1>1, <1>7, <2>3, <2>4 DEF Newcomers
  <1>11. Consecutive'
    <2> SUFFICES ASSUME NEW r \in holding'
                 PROVE  /\ \A i \in 1..Len(channel[r]) : channel[r][i] = joined'[r] + i
                        /\ Registered(r)' => joined'[r] + Len(channel[r]) = Reached(r)'
      BY <1>7 DEF Consecutive
    <2>1. Reached(r)' = broadcasts /\ Reached(r) = broadcasts
      BY <1>7 DEF Reached
    <2>2. CASE r = s
      <3>1. channel[s] = <<>> /\ Len(channel[s]) = 0
        BY <1>1, EmptySeq DEF IInv, Newcomers
      <3>2. broadcasts \in Nat
        BY DEF IInv, TypeOK
      <3> QED BY <1>6, <2>1, <2>2, <3>1, <3>2
    <2>3. CASE r # s
      <3>1. r \in holding /\ r \in Subscriber
        BY <1>1, <2>3 
      <3>2. Registered(r)' => Registered(r)
        <4>1. Registered(r)' <=> \E i \in 1..Len(txs') : txs'[i] = r
          BY <1>2, LenProperties DEF Registered, Range
        <4> QED BY <1>1, <1>2, <1>3, <2>3, <4>1, RegisteredPlace
      <3> QED BY <1>6, <2>1, <2>3, <3>1, <3>2 DEF IInv, Consecutive
    <2> QED BY <2>2, <2>3
  <1> QED BY <1>8, <1>9, <1>10, <1>11 DEF IInv

LEMMA BroadcastIInv == IInv /\ Broadcast => IInv'
  <1> SUFFICES ASSUME IInv, Broadcast PROVE IInv'
    OBVIOUS
  <1>1. /\ pc = "idle" /\ pc' = "sending" /\ next' = 1 /\ disconnected' = <<>>
        /\ broadcasts' = broadcasts + 1 /\ broadcasts < MaxBroadcasts
        /\ broadcasts \in Nat /\ subscribers \in Nat
        /\ UNCHANGED <<txs, subscribers, holding, channel, joined>>
    BY DEF Broadcast, IInv, TypeOK
  <1>2. disconnected' \in Seq(1..MaxSubscribers) /\ Len(disconnected') = 0
    BY <1>1, EmptySeq
  <1>3. TypeOK'
    BY <1>1, <1>2 DEF IInv, TypeOK
  <1>4. txs \in Seq(Subscriber) /\ Len(txs) \in Nat
    BY LenProperties DEF IInv, TypeOK
  <1>5. Loops'
    BY <1>1, <1>2, <1>4 DEF IInv, Loops
  <1>6. Newcomers'
    <2>1. \A s \in Subscriber : joined[s] \in Nat
      BY DEF IInv, TypeOK
    <2> QED BY <1>1, <2>1 DEF IInv, Newcomers
  <1>7. Consecutive'
    <2> SUFFICES ASSUME NEW s \in holding
                 PROVE  /\ \A i \in 1..Len(channel[s]) : channel[s][i] = joined[s] + i
                        /\ Registered(s) => joined[s] + Len(channel[s]) = Reached(s)'
      BY <1>1 DEF Consecutive, Registered
    <2>1. Registered(s) => Reached(s)' = broadcasts
      BY <1>1, <1>4, RegisteredPlace DEF Reached
    <2>2. Reached(s) = broadcasts
      BY <1>1 DEF Reached
    <2> QED BY <2>1, <2>2 DEF IInv, Consecutive
  <1> QED BY <1>3, <1>5, <1>6, <1>7 DEF IInv

LEMMA SendIInv == IInv /\ Send => IInv'
  <1> SUFFICES ASSUME IInv, Send PROVE IInv'
    OBVIOUS
  <1> DEFINE S == 1..MaxBroadcasts
  <1>0. PICK s : s = txs[next]
    OBVIOUS
  <1>1. /\ pc = "sending" /\ next \in 1..Len(txs) /\ next' = next + 1 /\ next \in Nat
        /\ txs \in Seq(Subscriber) /\ Len(txs) \in Nat /\ s \in Subscriber
        /\ subscribers \in 0..MaxSubscribers /\ Len(txs) <= subscribers
        /\ UNCHANGED <<txs, subscribers, holding, joined, broadcasts, pc>>
    <2>1. /\ pc = "sending" /\ next <= Len(txs) /\ next' = next + 1
          /\ UNCHANGED <<txs, subscribers, holding, joined, broadcasts, pc>>
      BY DEF Send
    <2>2. /\ txs \in Seq(Subscriber) /\ next \in 1..(MaxSubscribers + 1)
          /\ subscribers \in 0..MaxSubscribers /\ Len(txs) <= subscribers
      BY DEF IInv, TypeOK, Loops
    <2>3. Len(txs) \in Nat
      BY <2>2, LenProperties
    <2>4. next \in 1..Len(txs) /\ next \in Nat
      BY <2>1, <2>2, <2>3
    <2>5. s \in Subscriber
      BY <1>0, <2>2, <2>4, ElementOfSeq
    <2> QED BY <2>1, <2>2, <2>3, <2>4, <2>5
  <1>2. broadcasts \in S /\ broadcasts \in Nat
    BY <1>1 DEF IInv, TypeOK, Loops
  <1>3. next' \in 1..(MaxSubscribers + 1) /\ next' <= Len(txs) + 1
    BY <1>1
  <1>4. /\ disconnected \in Seq(1..MaxSubscribers) /\ Len(disconnected) \in Nat
        /\ Len(disconnected) < next /\ channel \in [Subscriber -> Seq(S)]
    BY <1>1, LenProperties DEF IInv, TypeOK, Loops
  <1>5. /\ disconnected' \in Seq(1..MaxSubscribers)
        /\ Len(disconnected') < next' /\ Len(disconnected') <= MaxSubscribers
    <2>1. CASE s \in holding
      BY <1>0, <1>1, <1>4, <2>1 DEF Send, IInv, Loops
    <2>2. CASE s \notin holding
      <3>1. disconnected' = Append(disconnected, next) /\ next \in 1..MaxSubscribers
        BY <1>0, <1>1, <2>2 DEF Send
      <3>2. Append(disconnected, next) \in Seq(1..MaxSubscribers)
            /\ Len(Append(disconnected, next)) = Len(disconnected) + 1
        BY <1>4, <3>1, AppendElements
      <3> QED BY <1>1, <1>4, <3>1, <3>2
    <2> QED BY <2>1, <2>2
  <1>6. /\ channel' \in [Subscriber -> Seq(S)]
        /\ \A r \in Subscriber : r # s => channel'[r] = channel[r]
        /\ s \in holding => channel'[s] = Append(channel[s], broadcasts)
        /\ s \notin holding => channel' = channel
    <2>1. CASE s \in holding
      <3>1. channel' = [channel EXCEPT ![s] = Append(@, broadcasts)]
        BY <1>0, <2>1 DEF Send
      <3>2. Append(channel[s], broadcasts) \in Seq(S)
        <4>1. channel[s] \in Seq(S)
          BY <1>1, <1>4
        <4> HIDE DEF S
        <4> QED BY <1>2, <4>1, AppendElements
      <3> HIDE DEF S
      <3> QED BY <1>1, <1>4, <2>1, <3>1, <3>2
    <2>2. CASE s \notin holding
      BY <1>0, <1>4, <2>2 DEF Send
    <2> QED BY <2>1, <2>2
  <1>7. TypeOK'
    BY <1>1, <1>3, <1>5, <1>6 DEF IInv, TypeOK
  <1>8. Loops'
    BY <1>1, <1>3, <1>5 DEF IInv, Loops
  <1>9. Newcomers'
    <2>1. s <= subscribers
      BY <1>0, <1>1 DEF IInv, Loops
    <2>2. \A r \in Subscriber : r > subscribers => r # s
      BY <1>1, <2>1
    <2> QED BY <1>1, <1>6, <2>2 DEF IInv, Newcomers
  <1>10. \A i \in 1..Len(txs) : txs[i] = s => i = next
    <2>1. DOMAIN txs = 1..Len(txs)
      BY <1>1, LenProperties
    <2> QED BY <1>0, <1>1, <2>1 DEF IInv, TypeOK, IsInjective
  <1>11. Consecutive'
    <2> SUFFICES ASSUME NEW r \in holding
                 PROVE  /\ \A i \in 1..Len(channel'[r]) : channel'[r][i] = joined[r] + i
                        /\ Registered(r) => joined[r] + Len(channel'[r]) = Reached(r)'
      BY <1>1 DEF Consecutive, Registered
    <2>1. r \in Subscriber
      BY DEF IInv, TypeOK
    <2>2. CASE r = s
      <3>1. /\ channel[s] \in Seq(S) /\ channel'[s] = Append(channel[s], broadcasts)
        BY <1>4, <1>6, <2>1, <2>2
      <3>2. /\ Len(channel[s]) \in Nat /\ Len(channel'[s]) = Len(channel[s]) + 1
            /\ \A i \in 1..Len(channel[s]) : channel'[s][i] = channel[s][i]
            /\ channel'[s][Len(channel[s]) + 1] = broadcasts
        <4> HIDE DEF S
        <4> QED BY <1>2, <3>1, AppendElements
      <3>3. Registered(s) /\ Reached(s) = broadcasts - 1
        BY <1>0, <1>1, RegisteredPlace DEF Reached
      <3>4. joined[s] + Len(channel[s]) = broadcasts - 1 /\ joined[s] \in Nat
        BY <2>2, <2>1, <3>3 DEF IInv, Consecutive, TypeOK
      <3>5. Reached(s)' = broadcasts
        BY <1>1, <1>10 DEF Reached
      <3>6. \A i \in 1..Len(channel'[s]) : i \in 1..Len(channel[s]) \/ i = Len(channel[s]) + 1
        BY <3>2
      <3>7. \A i \in 1..Len(channel[s]) : channel[s][i] = joined[s] + i
        BY <2>2 DEF IInv, Consecutive
      <3>8. \A i \in 1..Len(channel'[s]) : channel'[s][i] = joined[s] + i
        <4>1. joined[s] + (Len(channel[s]) + 1) = broadcasts
          BY <1>2, <3>2, <3>4
        <4> QED BY <3>2, <3>6, <3>7, <4>1
      <3>9. joined[s] + Len(channel'[s]) = broadcasts
        BY <1>2, <3>2, <3>4
      <3> QED BY <2>2, <3>5, <3>8, <3>9
    <2>3. CASE r # s
      <3>1. Reached(r)' = Reached(r)
        <4>1. (\E i \in next..Len(txs) : txs[i] = r) <=> \E i \in (next + 1)..Len(txs) : txs[i] = r
          BY <1>0, <1>1, <2>3
        <4> QED BY <1>1, <4>1 DEF Reached
      <3> QED BY <1>6, <2>1, <2>3, <3>1 DEF IInv, Consecutive
    <2> QED BY <2>2, <2>3
  <1> QED BY <1>7, <1>8, <1>9, <1>11 DEF IInv

LEMMA RemoveIInv == IInv /\ RemoveNext => IInv'
  <1> SUFFICES ASSUME IInv, RemoveNext PROVE IInv'
    OBVIOUS
  <1>1. /\ pc = "removing" /\ next' = next + 1 /\ next <= Len(disconnected) /\ next \in Nat
        /\ next >= 1
        /\ UNCHANGED <<subscribers, holding, channel, joined, broadcasts, pc, disconnected>>
    BY DEF RemoveNext, IInv, TypeOK
  <1>2. /\ txs \in Seq(Subscriber) /\ IsInjective(txs) /\ Len(txs) \in Nat
        /\ subscribers \in 0..MaxSubscribers
        /\ disconnected \in Seq(1..MaxSubscribers) /\ Len(disconnected) \in Nat
    BY LenProperties DEF IInv, TypeOK
  <1>3. next' \in 1..(MaxSubscribers + 1)
    BY <1>1, <1>2 DEF IInv, Loops
  <1>4. /\ txs' \in Seq(Subscriber) /\ IsInjective(txs') /\ Len(txs') <= Len(txs)
        /\ \A x : x \in Range(txs') => x \in Range(txs)
        /\ Len(txs') \in Nat
    <2> DEFINE i == disconnected[next]
    <2>1. CASE i <= Len(txs)
      <3>1. i \in 1..Len(txs) /\ txs' = RemoveAt(txs, i)
        <4>1. i \in 1..MaxSubscribers
          BY <1>1, <1>2, ElementOfSeq
        <4> QED BY <1>2, <2>1, <4>1 DEF RemoveNext
      <3> HIDE DEF i
      <3>2. txs' \in Seq(Subscriber) /\ Len(txs') = Len(txs) - 1
        BY <1>2, <3>1, RemoveElement
      <3>3. Len(txs') \in Nat
        BY <3>2, LenProperties
      <3> QED BY <1>2, <3>1, <3>2, <3>3, RemovalShrinks
    <2>2. CASE ~(i <= Len(txs))
      <3>1. txs' = txs
        BY <2>2 DEF RemoveNext
      <3> QED BY <1>2, <3>1
    <2> QED BY <2>1, <2>2
  <1>5. TypeOK'
    BY <1>1, <1>3, <1>4 DEF IInv, TypeOK
  <1>6. Loops'
    <2>1. ASSUME NEW j \in 1..Len(txs')
          PROVE  txs'[j] <= subscribers
      <3>1. txs'[j] \in Range(txs')
        BY <1>4, LenProperties DEF Range
      <3>2. \E k \in 1..Len(txs) : txs[k] = txs'[j]
        BY <1>2, <1>4, <3>1, LenProperties DEF Range
      <3> QED BY <3>2 DEF IInv, Loops
    <2>2. Len(txs') <= subscribers
      BY <1>2, <1>4 DEF IInv, Loops
    <2> QED BY <1>1, <2>1, <2>2 DEF IInv, Loops
  <1>7. Newcomers'
    BY <1>1 DEF IInv, Newcomers
  <1>8. Consecutive'
    BY <1>1, <1>4 DEF IInv, Consecutive, Registered, Reached
  <1> QED BY <1>5, <1>6, <1>7, <1>8 DEF IInv

LEMMA TurnsIInv == IInv /\ (AllSent \/ AllRemoved) => IInv'
  <1> SUFFICES ASSUME IInv, AllSent \/ AllRemoved PROVE IInv'
    OBVIOUS
  <1>1. /\ pc' \in {"removing", "idle"} /\ pc # "idle"
        /\ next' = 1 \/ next' = next
        /\ UNCHANGED <<txs, subscribers, holding, channel, joined, broadcasts, disconnected>>
    BY DEF AllSent, AllRemoved
  <1>2. TypeOK' /\ Loops' /\ Newcomers'
    BY <1>1 DEF IInv, TypeOK, Loops, Newcomers
  <1>3. \A s : Reached(s) = broadcasts /\ Reached(s)' = broadcasts
    <2>1. CASE AllSent
      <3>1. next > Len(txs) /\ next \in Nat /\ Len(txs) \in Nat
        BY <2>1, LenProperties DEF AllSent, IInv, TypeOK
      <3>2. next..Len(txs) = {}
        BY <3>1
      <3> QED BY <1>1, <3>2 DEF Reached
    <2>2. CASE AllRemoved
      BY <1>1, <2>2 DEF AllRemoved, Reached
    <2> QED BY <2>1, <2>2
  <1>4. Consecutive'
    BY <1>1, <1>3 DEF IInv, Consecutive, Registered
  <1> QED BY <1>2, <1>4 DEF IInv

LEMMA StepIInv == IInv /\ [Next]_vars => IInv'
<1>1. IInv /\ UNCHANGED vars => IInv'
  BY DEF IInv, TypeOK, Loops, Newcomers, Consecutive, Registered, Reached, vars, progress
<1>2. ASSUME NEW s \in Subscriber PROVE IInv /\ Drop(s) => IInv'
  <2> SUFFICES ASSUME IInv, Drop(s) PROVE IInv'
    OBVIOUS
  <2>1. /\ \A r \in holding' : r \in holding
        /\ UNCHANGED <<txs, subscribers, channel, joined, broadcasts, pc, next, disconnected>>
    BY DEF Drop, progress
  <2>2. TypeOK'
    BY <2>1 DEF IInv, TypeOK
  <2>3. Loops' /\ Newcomers'
    BY <2>1 DEF IInv, Loops, Newcomers
  <2>4. Consecutive'
    BY <2>1 DEF IInv, Consecutive, Registered, Reached
  <2> QED BY <2>2, <2>3, <2>4 DEF IInv
<1> QED
  BY <1>1, <1>2, SubscribeIInv, BroadcastIInv, SendIInv, RemoveIInv, TurnsIInv
  DEF Next

THEOREM IInvHolds == Spec => []IInv
  BY InitIInv, StepIInv, PTL DEF Spec

\* The variables keep their types, and no subscriber has two senders.
THEOREM TypesHold == Spec => []TypeOK
<1>1. IInv => TypeOK
  BY DEF IInv
<1> QED BY <1>1, IInvHolds, PTL

\* What a subscriber is sent is a run of consecutive broadcasts from the first
\* after it joined, complete as long as the bus has its sender, whoever drops
\* a receiver, and whoever is removed, in the meantime.
THEOREM DeliveryHolds == Spec => []Consecutive
<1>1. IInv => Consecutive
  BY DEF IInv
<1> QED BY <1>1, IInvHolds, PTL

--------------------------------------------------------------------------------
(***************************************************************************)
(* The first removal of a broadcast.                                       *)
(***************************************************************************)

\* Until the first removal the first index noted is that of a sender whose
\* receiver is gone.
Noted ==
    pc = "sending" \/ (pc = "removing" /\ next = 1) =>
        (disconnected # <<>> =>
            disconnected[1] \in 1..Len(txs) /\ txs[disconnected[1]] \notin holding)

LEMMA StepNoted == IInv /\ Noted /\ [Next]_vars => Noted'
  <1> SUFFICES ASSUME IInv, Noted, [Next]_vars PROVE Noted'
    OBVIOUS
  <1> USE DEF Noted
  <1>1. CASE Subscribe
    BY <1>1 DEF Subscribe, progress
  <1>2. CASE Broadcast
    BY <1>2 DEF Broadcast
  <1>3. CASE Send
    <2>1. /\ pc = "sending" /\ next <= Len(txs) /\ UNCHANGED <<txs, holding, pc>>
          /\ \/ disconnected' = disconnected
             \/ disconnected' = Append(disconnected, next) /\ txs[next] \notin holding
      BY <1>3 DEF Send
    <2>2. /\ disconnected \in Seq(1..MaxSubscribers) /\ next \in 1..MaxSubscribers + 1
          /\ txs \in Seq(Subscriber) /\ Len(txs) \in Nat /\ Len(txs) <= MaxSubscribers
      BY LenProperties DEF IInv, TypeOK, Loops
    <2>3. CASE disconnected' = disconnected
      BY <2>1, <2>3
    <2>4. CASE disconnected' = Append(disconnected, next) /\ txs[next] \notin holding
      <3>1. next \in 1..Len(txs) /\ next \in 1..MaxSubscribers
        BY <2>1, <2>2
      <3>2. /\ Len(disconnected') = Len(disconnected) + 1
            /\ \A i \in 1..Len(disconnected) : disconnected'[i] = disconnected[i]
            /\ disconnected'[Len(disconnected) + 1] = next
        BY <2>2, <2>4, <3>1, AppendElements
      <3>3. CASE disconnected = <<>>
        <4>1. disconnected'[1] = next
          BY <3>2, <3>3, EmptySeq
        <4> QED BY <2>1, <2>4, <3>1, <4>1
      <3>4. CASE disconnected # <<>>
        <4>1. 1 \in 1..Len(disconnected)
          BY <2>2, <3>4, LenCases
        <4>2. disconnected'[1] = disconnected[1]
          BY <3>2, <4>1
        <4> QED BY <2>1, <3>4, <4>2
      <3> QED BY <3>3, <3>4
    <2> QED BY <2>1, <2>3, <2>4
  <1>4. CASE AllSent
    BY <1>4 DEF AllSent
  <1>5. CASE RemoveNext
    <2>1. pc' = "removing" /\ next' = next + 1 /\ next \in Nat /\ next >= 1
      BY <1>5 DEF RemoveNext, IInv, TypeOK
    <2> QED BY <2>1
  <1>6. CASE AllRemoved
    BY <1>6 DEF AllRemoved
  <1>7. ASSUME NEW s \in Subscriber, Drop(s) PROVE Noted'
    BY <1>7 DEF Drop, progress
  <1>8. CASE UNCHANGED vars
    BY <1>8 DEF vars, progress
  <1> QED BY <1>1, <1>2, <1>3, <1>4, <1>5, <1>6, <1>7, <1>8 DEF Next

\* The places at which a sequence is outside a set, without one of them, are as
\* many when that one is removed from the sequence.
LEMMA PlacesShift ==
    ASSUME NEW S, NEW s \in Seq(S), NEW d \in 1..Len(s), NEW H, s[d] \notin H
    PROVE  LET before == {i \in 1..Len(s) : s[i] \notin H}
               after  == {i \in 1..Len(RemoveAt(s, d)) : RemoveAt(s, d)[i] \notin H}
           IN  Cardinality(after) = Cardinality(before) - 1
<1> DEFINE t      == RemoveAt(s, d)
           before == {i \in 1..Len(s) : s[i] \notin H}
           after  == {i \in 1..Len(t) : t[i] \notin H}
           others == before \ {d}
           from(i) == IF i < d THEN i ELSE i + 1
           move   == [i \in after |-> from(i)]
<1>1. /\ Len(s) \in Nat /\ Len(t) = Len(s) - 1
      /\ \A j \in 1..Len(t) : t[j] = IF j < d THEN s[j] ELSE s[j + 1]
  BY RemoveElement
<1>2. d \in Nat /\ d >= 1 /\ d <= Len(s)
  BY <1>1
<1>3. d \in before
  OBVIOUS
<1> HIDE DEF t
<1>4. IsFiniteSet(before) /\ IsFiniteSet(after)
  <2>1. IsFiniteSet(1..Len(s)) /\ IsFiniteSet(1..Len(t))
    BY <1>1, FS_Interval
  <2>2. before \in SUBSET (1..Len(s)) /\ after \in SUBSET (1..Len(t))
    OBVIOUS
  <2> HIDE DEF before, after
  <2> QED BY <2>1, <2>2, FS_Subset
<1>5. Cardinality(others) = Cardinality(before) - 1 /\ IsFiniteSet(others)
  <2> HIDE DEF before
  <2> QED BY <1>3, <1>4, FS_RemoveElement
<1>6. ASSUME NEW i \in after PROVE from(i) \in others
  <2>1. i \in 1..Len(t) /\ t[i] \notin H
    OBVIOUS
  <2>2. CASE i < d
    BY <1>1, <1>2, <2>1, <2>2
  <2>3. CASE ~(i < d)
    BY <1>1, <1>2, <2>1, <2>3
  <2> QED BY <2>2, <2>3
<1>7. ASSUME NEW i \in after, NEW j \in after, from(i) = from(j) PROVE i = j
  BY <1>1, <1>2, <1>7
<1>8. ASSUME NEW k \in others PROVE \E i \in after : from(i) = k
  <2>1. k \in 1..Len(s) /\ s[k] \notin H /\ k # d
    OBVIOUS
  <2>2. CASE k < d
    <3>1. k \in 1..Len(t) /\ t[k] = s[k]
      BY <1>1, <1>2, <2>1, <2>2
    <3> QED BY <2>1, <2>2, <3>1
  <2>3. CASE k > d
    <3>1. k - 1 \in 1..Len(t) /\ ~(k - 1 < d) /\ (k - 1) + 1 = k
      BY <1>1, <1>2, <2>1, <2>3
    <3>2. t[k - 1] = s[k]
      BY <1>1, <3>1
    <3>3. k - 1 \in after
      BY <2>1, <3>1, <3>2
    <3> QED BY <3>1, <3>3
  <2> QED BY <1>1, <1>2, <2>1, <2>2, <2>3
<1> HIDE DEF after, others, from
<1>9. move \in Bijection(after, others)
  <2>1. move \in [after -> others]
    BY <1>6
  <2>2. \A i, j \in after : move[i] = move[j] => i = j
    BY <1>7
  <2>3. \A k \in others : \E i \in after : move[i] = k
    BY <1>8
  <2> HIDE DEF move
  <2> QED BY <2>1, <2>2, <2>3 DEF Bijection, Injection, Surjection, IsInjective
<1>10. Cardinality(others) = Cardinality(after)
  <2>1. ExistsBijection(after, others)
    BY <1>9 DEF ExistsBijection
  <2> QED BY <1>4, <2>1, FS_Bijection
<1>11. Cardinality(after) = Cardinality(before) - 1
  BY <1>5, <1>10
<1> QED BY <1>11 DEF after, t

\* Each broadcast that finds subscribers disconnected gets rid of one of them,
\* whatever its further removals do.
THEOREM FirstRemovalHolds == Spec => FirstRemovalIsRight
<1>1. Init => Noted
  BY DEF Init, Noted
<1>2. IInv /\ Noted /\ [Next]_vars
        => [pc = "removing" /\ next = 1 /\ disconnected # <<>> /\ next' = 2
              => /\ disconnected[1] <= Len(txs) /\ txs[disconnected[1]] \notin holding
                 /\ Cardinality(Gone') = Cardinality(Gone) - 1]_vars
  <2> SUFFICES ASSUME IInv, Noted, [Next]_vars,
                      pc = "removing", next = 1, disconnected # <<>>, next' = 2
               PROVE  /\ disconnected[1] <= Len(txs) /\ txs[disconnected[1]] \notin holding
                      /\ Cardinality(Gone') = Cardinality(Gone) - 1
    OBVIOUS
  <2>1. disconnected[1] \in 1..Len(txs) /\ txs[disconnected[1]] \notin holding
    BY DEF Noted
  <2>2. txs \in Seq(Subscriber) /\ Len(txs) \in Nat
    BY LenProperties DEF IInv, TypeOK
  <2>3. disconnected[1] <= Len(txs)
    BY <2>1, <2>2
  <2>4. txs' = RemoveAt(txs, disconnected[1]) /\ holding' = holding
    <3>1. RemoveNext
      BY DEF Next, Subscribe, Broadcast, Send, AllSent, AllRemoved, Drop, vars, progress
    <3> QED BY <2>3, <3>1 DEF RemoveNext
  <2>5. Cardinality(Gone') = Cardinality(Gone) - 1
    BY <2>1, <2>2, <2>4, PlacesShift DEF Gone
  <2> QED BY <2>1, <2>3, <2>5
<1>3. IInv /\ Noted /\ [Next]_vars => (IInv /\ Noted)'
  BY StepIInv, StepNoted
<1> QED BY <1>1, <1>2, <1>3, InitIInv, PTL DEF Spec, FirstRemovalIsRight
================================================================================
