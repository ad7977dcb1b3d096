----------------------------- MODULE CosmosTxProofs -----------------------------
(***************************************************************************)
(* Theorems about send_msgs, for every list of messages, every limit,      *)
(* timeout and price, and any number of calls and of rivals.               *)
(***************************************************************************)
EXTENDS CosmosTx, SequenceFacts

\* The time slept, with p of d delays left, against a time of d delays.
LEMMA SleptArithmetic ==
    ASSUME NEW d \in Nat, NEW p \in 0..d, NEW t \in Nat, NEW s \in Nat,
           300 * d <= t, t < 300 * d + 300, s = 200 + 300 * (d - p)
    PROVE  /\ p = 0 => s <= t + 200 /\ s + 300 > t + 200
           /\ p # 0 => /\ p - 1 \in 0..d /\ s + 300 \in Nat /\ s + 300 <= t + 200
                       /\ s + 300 = 200 + 300 * (d - (p - 1))
  OBVIOUS

LEMMA SumMonotonic ==
    ASSUME NEW k \in Nat, NEW m \in Nat, NEW n \in Nat, m <= n
    PROVE  k + m <= k + n
  OBVIOUS

USE TxAssumption


--------------------------------------------------------------------------------
(***************************************************************************)
(* Types.                                                                  *)
(***************************************************************************)

\* The list of a call holds its numbers only.
LEMMA ListedMessages ==
    ASSUME NEW list \in MsgLists
    PROVE  list \in Seq(Nat) /\ Len(list) \in Nat
  BY LenProperties

\* What every result has.
LEMMA ResultTypes ==
    ASSUME results \in Seq(Tx)
    PROVE  /\ Len(results) \in Nat
           /\ \A i \in 1..Len(results) : results[i] \in Tx /\ results[i].sequence \in Nat
<1>1. Len(results) \in Nat /\ \A i \in 1..Len(results) : results[i] \in Tx
  BY LenProperties, ElementOfSeq
<1>2. \A r \in Tx : r.sequence \in Nat
  BY DEF Tx
<1> QED BY <1>1, <1>2

\* Settling changes the events of a transaction only.
LEMMA SettledType ==
    ASSUME NEW r \in Tx
    PROVE  [r EXCEPT !.events = Settled(r)] \in Tx
<1>1. Settled(r) \in {"empty", "error", "events"}
  BY DEF Settled, QueryEventsFromTxs, Tx
<1> QED BY <1>1 DEF Tx

\* An attempt settles each result in its place.
LEMMA PolledResults ==
    ASSUME results \in Seq(Tx),
           results' = [i \in 1..Len(results) |->
                          [results[i] EXCEPT !.events = Settled(results[i])]]
    PROVE  /\ results' \in Seq(Tx) /\ Len(results') = Len(results)
           /\ Len(results) \in Nat
           /\ \A i \in 1..Len(results) :
                /\ results'[i].accepted = results[i].accepted
                /\ results'[i].sequence = results[i].sequence
                /\ results'[i].msgs = results[i].msgs
                /\ results'[i].events = Settled(results[i])
<1>1. Len(results) \in Nat /\ \A i \in 1..Len(results) : results[i] \in Tx
  BY LenProperties, ElementOfSeq
<1>2. \A i \in 1..Len(results) : [results[i] EXCEPT !.events = Settled(results[i])] \in Tx
  BY <1>1, SettledType
<1>3. results' \in Seq(Tx)
  BY <1>1, <1>2, SeqDef
<1>4. Len(results') = Len(results)
  BY <1>1
<1>5. ASSUME NEW i \in 1..Len(results)
      PROVE  /\ results'[i].accepted = results[i].accepted
             /\ results'[i].sequence = results[i].sequence
             /\ results'[i].msgs = results[i].msgs
             /\ results'[i].events = Settled(results[i])
  <2>1. results'[i] = [results[i] EXCEPT !.events = Settled(results[i])]
    OBVIOUS
  <2>2. results[i] \in Tx
    BY <1>1
  <2> QED BY <2>1, <2>2 DEF Tx
<1> QED BY <1>1, <1>3, <1>4, <1>5

\* What a broadcast adds to the results.
Added(accepted) == [msgs |-> batch, sequence |-> sequence,
                    accepted |-> accepted, events |-> "empty"]

LEMMA BroadcastResults ==
    ASSUME TypeOK, NEW accepted \in BOOLEAN, results' = Append(results, Added(accepted))
    PROVE  /\ results' \in Seq(Tx) /\ Len(results') = Len(results) + 1
           /\ Len(results) \in Nat
           /\ \A i \in 1..Len(results) : results'[i] = results[i]
           /\ results'[Len(results) + 1] = Added(accepted)
<1>1. batch \in Seq(Nat)
  <2>1. 1..Len(msgs) \subseteq Nat
    OBVIOUS
  <2> QED BY <2>1, SeqMonotonic DEF TypeOK
<1>2. Added(accepted) \in Tx
  BY <1>1 DEF Added, Tx, TypeOK
<1> HIDE DEF Added, Tx
<1>3. results \in Seq(Tx)
  BY DEF TypeOK
<1> QED BY <1>2, <1>3, AppendElements

--------------------------------------------------------------------------------
(***************************************************************************)
(* The inductive invariant.                                                *)
(***************************************************************************)

\* There is a message left to push, and a call under way has no answer yet.
Cutting ==
    /\ pc = "push" => pushed < Len(msgs)
    /\ pc # "idle" => answer = "none"

\* What is numbered was so from a block, and what was accepted has a number
\* that is taken.
Numbering ==
    /\ pc \in {"simulate", "broadcast"} => sequence <= committed
    /\ \A i \in 1..Len(results) :
         results[i].accepted => results[i].sequence < committed + waiting

\* What an attempt settles was rejected, and nothing rejected is left by one.
Settling ==
    /\ \A i \in 1..Len(results) :
         /\ results[i].events \in {"empty", "error"}
         /\ results[i].events = "error" => ~results[i].accepted
    /\ pc = "poll" /\ polls < Delays =>
         \A i \in 1..Len(results) : results[i].events = "empty" => results[i].accepted

\* The time slept is that of the attempts made.
Sleeping == pc = "poll" => slept = FirstWait + Backoff * (Delays - polls)

IInv ==
    /\ TypeOK /\ Cutting /\ Numbering /\ Settling /\ Sleeping
    /\ GivesUpInTime /\ OkMeansRejected /\ NoConfirmationIsTrue

\* The delays that rpc_timeout is worth.
LEMMA DelaysWorth ==
    ASSUME rpcTimeout \in Nat
    PROVE  Delays \in Nat /\ 300 * Delays <= rpcTimeout /\ rpcTimeout < 300 * Delays + 300
  BY DEF Delays, Backoff

LEMMA InitIInv == Init => IInv
  <1> SUFFICES ASSUME Init PROVE IInv
    OBVIOUS
  <1>1. Len(<<>>) = 0 /\ \A S : <<>> \in Seq(S)
    BY EmptySeq
  <1>2. rpcTimeout \in Nat /\ Delays \in Nat
    BY DelaysWorth DEF Init
  <1>3. TypeOK
    BY <1>1, <1>2 DEF Init, TypeOK, Answers
  <1>4. Cutting /\ Numbering /\ Settling /\ Sleeping
    BY <1>1 DEF Init, Cutting, Numbering, Settling, Sleeping
  <1>5. GivesUpInTime /\ OkMeansRejected /\ NoConfirmationIsTrue
    BY <1>2 DEF Init, GivesUpInTime, OkMeansRejected, NoConfirmationIsTrue, FirstWait
  <1> QED BY <1>3, <1>4, <1>5 DEF IInv

\* A step that leaves the results and the waits alone, and answers with an
\* error at most, keeps what is known of them.
Quiet ==
    /\ UNCHANGED <<rpcTimeout, results, polls, slept>>
    /\ pc' = "poll" => pc = "poll"
    /\ answer' = answer \/ answer' \in {"error", "panic"}

LEMMA QuietStep ==
    ASSUME IInv, Quiet
    PROVE  Settling' /\ Sleeping' /\ GivesUpInTime' /\ OkMeansRejected' /\ NoConfirmationIsTrue'
<1>1. Delays' = Delays
  BY DEF Quiet, Delays
<1> USE <1>1 DEF IInv, Quiet
<1>2. Settling' /\ Sleeping'
  BY DEF Settling, Sleeping
<1>3. GivesUpInTime'
  BY DEF GivesUpInTime
<1>4. OkMeansRejected' /\ NoConfirmationIsTrue'
  BY DEF OkMeansRejected, NoConfirmationIsTrue
<1> QED BY <1>2, <1>3, <1>4

\* What was accepted stays accounted for, as the numbers taken only grow.
LEMMA TakenGrow ==
    ASSUME IInv, UNCHANGED results,
           committed + waiting <= committed' + waiting',
           committed' \in Nat, waiting' \in Nat,
           pc' \in {"simulate", "broadcast"} => sequence' <= committed'
    PROVE  Numbering'
<1>1. \A i \in 1..Len(results) : results[i].sequence \in Nat
  BY ResultTypes DEF IInv, TypeOK
<1>2. committed \in Nat /\ waiting \in Nat
  BY DEF IInv, TypeOK
<1>3. ASSUME NEW i \in 1..Len(results), results[i].accepted
      PROVE  results[i].sequence < committed' + waiting'
  <2>1. results[i].sequence < committed + waiting
    BY <1>3 DEF IInv, Numbering
  <2>2. results[i].sequence \in Nat
    BY <1>1
  <2> QED BY <1>2, <2>1, <2>2
<1> QED BY <1>3 DEF Numbering

--------------------------------------------------------------------------------
(***************************************************************************)
(* One lemma per action.                                                   *)
(***************************************************************************)
LEMMA SendMsgsIInv == IInv /\ SendMsgs => IInv'
  <1> SUFFICES ASSUME IInv, SendMsgs PROVE IInv'
    OBVIOUS
  <1>1. PICK list \in MsgLists :
          /\ msgs' = list /\ pushed' = 0 /\ batch' = <<>> /\ results' = <<>>
          /\ calls' = calls + 1 /\ calls < MaxCalls
          /\ IF list = <<>> THEN pc' = "idle" /\ answer' = "ok" ELSE pc' = "push" /\ answer' = "none"
          /\ UNCHANGED <<rpcTimeout, sequence, gas, polls, slept, committed, waiting, rivals>>
    BY DEF SendMsgs, Return, waits, chain
  <1>2. list \in Seq(Nat) /\ Len(list) \in Nat /\ (list = <<>> <=> Len(list) = 0)
    BY ListedMessages, LenCases
  <1>3. Len(<<>>) = 0 /\ \A S : <<>> \in Seq(S)
    BY EmptySeq
  <1>4. Delays' = Delays /\ pc' \in {"idle", "push"} /\ answer' \in {"ok", "none"}
    BY <1>1 DEF Delays
  <1>5. TypeOK'
    <2>1. /\ msgs' \in Seq(Nat) /\ pushed' \in 0..Len(msgs') /\ batch' \in Seq(1..Len(msgs'))
          /\ results' \in Seq(Tx)
      BY <1>1, <1>2, <1>3
    <2>2. calls' \in 0..MaxCalls
      BY <1>1 DEF IInv, TypeOK
    <2> QED BY <1>1, <1>4, <2>1, <2>2 DEF IInv, TypeOK, Answers
  <1>6. Cutting' /\ Numbering' /\ Settling' /\ Sleeping'
    BY <1>1, <1>2, <1>3, <1>4 DEF Cutting, Numbering, Settling, Sleeping
  <1>7. GivesUpInTime' /\ OkMeansRejected' /\ NoConfirmationIsTrue'
    <2>1. slept <= rpcTimeout + FirstWait
      BY DEF IInv, GivesUpInTime
    <2>2. answer' # "no confirmation" /\ Len(results') = 0
      BY <1>1, <1>3, <1>4
    <2>3. GivesUpInTime'
      BY <1>1, <2>1, <2>2 DEF GivesUpInTime, FirstWait
    <2>4. OkMeansRejected'
      BY <2>2 DEF OkMeansRejected
    <2>5. NoConfirmationIsTrue'
      BY <2>2 DEF NoConfirmationIsTrue
    <2> QED BY <2>3, <2>4, <2>5
  <1> QED BY <1>5, <1>6, <1>7 DEF IInv

LEMMA PushIInv == IInv /\ Push => IInv'
  <1> SUFFICES ASSUME IInv, Push PROVE IInv'
    OBVIOUS
  <1>1. /\ pc = "push" /\ pushed' = pushed + 1 /\ batch' = Append(batch, pushed + 1)
        /\ pc' \in {"account", "push"} /\ (pc' = "push" => pushed' # Len(msgs))
        /\ UNCHANGED <<rpcTimeout, msgs, sequence, results, gas, polls, slept, answer, calls,
                       committed, waiting, rivals>>
    BY DEF Push, waits, chain
  <1>2. Len(msgs) \in Nat /\ pushed \in 0..Len(msgs) /\ pushed < Len(msgs)
    BY <1>1, LenProperties DEF IInv, TypeOK, Cutting
  <1>3. pushed + 1 \in 1..Len(msgs)
    BY <1>2
  <1>4. batch' \in Seq(1..Len(msgs))
    <2> DEFINE S == 1..Len(msgs)
    <2>1. batch \in Seq(S) /\ pushed + 1 \in S
      BY <1>3 DEF IInv, TypeOK
    <2> HIDE DEF S
    <2>2. batch' \in Seq(S)
      BY <1>1, <2>1, AppendElements
    <2> QED BY <2>2 DEF S
  <1>5. TypeOK'
    BY <1>1, <1>2, <1>4 DEF IInv, TypeOK, Delays
  <1>6. Cutting'
    BY <1>1, <1>2 DEF IInv, Cutting
  <1>7. Numbering'
    BY <1>1, TakenGrow DEF IInv, TypeOK
  <1>8. Quiet
    BY <1>1 DEF Quiet
  <1> QED BY <1>5, <1>6, <1>7, <1>8, QuietStep DEF IInv

LEMMA QueryAccountIInv == IInv /\ QueryAccount => IInv'
  <1> SUFFICES ASSUME IInv, QueryAccount PROVE IInv'
    OBVIOUS
  <1>1. /\ pc = "account"
        /\ UNCHANGED <<rpcTimeout, msgs, pushed, batch, results, gas, polls, slept, calls,
                       committed, waiting, rivals>>
        /\ \/ pc' = "simulate" /\ sequence' = committed /\ answer' = answer
           \/ pc' = "idle" /\ sequence' = sequence /\ answer' \in {"error", "panic"}
    BY DEF QueryAccount, AccountAnswers, Return, batching, waits, chain
  <1>2. TypeOK'
    BY <1>1 DEF IInv, TypeOK, Delays, Answers
  <1>3. Cutting'
    BY <1>1 DEF IInv, Cutting
  <1>4. Numbering'
    BY <1>1, TakenGrow DEF IInv, TypeOK
  <1>5. Quiet
    BY <1>1 DEF Quiet
  <1> QED BY <1>2, <1>3, <1>4, <1>5, QuietStep DEF IInv

LEMMA SimulateIInv == IInv /\ Simulate => IInv'
  <1> SUFFICES ASSUME IInv, Simulate PROVE IInv'
    OBVIOUS
  <1>1. /\ pc = "simulate"
        /\ UNCHANGED <<rpcTimeout, msgs, pushed, batch, sequence, results, polls, slept, calls,
                       committed, waiting, rivals>>
        /\ \/ pc' = "broadcast" /\ gas' \in 0..MaxGas /\ answer' = answer
           \/ pc' = "idle" /\ gas' = gas /\ answer' = "error"
    BY DEF Simulate, Return, batching, waits, chain
  <1>2. TypeOK'
    BY <1>1 DEF IInv, TypeOK, Delays, Answers
  <1>3. Cutting'
    BY <1>1 DEF IInv, Cutting
  <1>4. sequence <= committed
    BY <1>1 DEF IInv, Numbering
  <1>5. Numbering'
    BY <1>1, <1>4, TakenGrow DEF IInv, TypeOK
  <1>6. Quiet
    BY <1>1 DEF Quiet
  <1> QED BY <1>2, <1>3, <1>5, <1>6, QuietStep DEF IInv

\* A broadcast takes the next number, if it is accepted.
LEMMA BroadcastIInv == IInv /\ Broadcast => IInv'
  <1> SUFFICES ASSUME IInv, Broadcast PROVE IInv'
    OBVIOUS
  <1>1. PICK accepted \in BOOLEAN :
          /\ pc = "broadcast" /\ (accepted => sequence = committed + waiting)
          /\ waiting' = waiting + IF accepted THEN 1 ELSE 0
          /\ results' = Append(results, Added(accepted))
          /\ sequence' = sequence + 1 /\ batch' = <<>> /\ gas' = 0
          /\ IF pushed = Len(msgs)
             THEN pc' = "poll" /\ polls' = Delays /\ slept' = FirstWait
             ELSE pc' = "push" /\ UNCHANGED <<polls, slept>>
          /\ UNCHANGED <<rpcTimeout, msgs, pushed, answer, calls, committed, rivals>>
    BY DEF Broadcast, Accepts, Added, waits
  <1>2. /\ results' \in Seq(Tx) /\ Len(results') = Len(results) + 1 /\ Len(results) \in Nat
        /\ \A i \in 1..Len(results) : results'[i] = results[i]
        /\ results'[Len(results) + 1] = Added(accepted)
    BY <1>1, BroadcastResults DEF IInv
  <1>3. \A i \in 1..Len(results') : i \in 1..Len(results) \/ i = Len(results) + 1
    BY <1>2
  <1>4. /\ Len(msgs) \in Nat /\ pushed \in 0..Len(msgs) /\ rpcTimeout \in Nat
        /\ sequence \in Nat /\ committed \in Nat /\ waiting \in Nat
        /\ \A S : <<>> \in Seq(S)
    BY LenProperties, EmptySeq DEF IInv, TypeOK
  <1>5. Delays \in Nat /\ Delays' = Delays
    BY <1>1, <1>4, DelaysWorth DEF Delays
  <1>6. waiting' \in Nat /\ waiting <= waiting'
    BY <1>1, <1>4
  <1>7. TypeOK'
    <2>1. /\ pc' \in {"poll", "push"} /\ polls' \in 0..Delays /\ slept' \in Nat
      BY <1>1, <1>5 DEF IInv, TypeOK, FirstWait
    <2> QED BY <1>1, <1>2, <1>4, <1>5, <1>6, <2>1 DEF IInv, TypeOK
  <1>8. Cutting'
    BY <1>1, <1>4 DEF IInv, Cutting
  <1>9. Numbering'
    <2>1. ASSUME NEW i \in 1..Len(results'), results'[i].accepted
          PROVE  results'[i].sequence < committed + waiting'
      <3>1. CASE i \in 1..Len(results)
        <4>1. results[i].sequence \in Nat
          BY <3>1, ResultTypes DEF IInv, TypeOK
        <4>2. results[i].sequence < committed + waiting
          BY <1>2, <2>1, <3>1 DEF IInv, Numbering
        <4> QED BY <1>2, <1>4, <1>6, <3>1, <4>1, <4>2
      <3>2. CASE i = Len(results) + 1
        BY <1>1, <1>2, <1>4, <2>1, <3>2 DEF Added
      <3> QED BY <1>3, <3>1, <3>2
    <2> QED BY <1>1, <2>1 DEF Numbering
  <1>10. Settling'
    <2>1. ASSUME NEW i \in 1..Len(results')
          PROVE  /\ results'[i].events \in {"empty", "error"}
                 /\ results'[i].events = "error" => ~results'[i].accepted
      <3>1. CASE i \in 1..Len(results)
        BY <1>2, <3>1 DEF IInv, Settling
      <3>2. CASE i = Len(results) + 1
        BY <1>2, <3>2 DEF Added
      <3> QED BY <1>3, <3>1, <3>2
    <2>2. ~(pc' = "poll" /\ polls' < Delays')
      BY <1>1, <1>5
    <2> QED BY <2>1, <2>2 DEF Settling
  <1>11. Sleeping'
    BY <1>1, <1>5 DEF Sleeping, FirstWait, Backoff
  <1>12. answer' = "none" /\ slept' <= rpcTimeout + FirstWait
    BY <1>1, <1>4 DEF IInv, Cutting, GivesUpInTime, FirstWait
  <1>13. GivesUpInTime' /\ OkMeansRejected' /\ NoConfirmationIsTrue'
    BY <1>1, <1>12 DEF GivesUpInTime, OkMeansRejected, NoConfirmationIsTrue
  <1> QED BY <1>7, <1>8, <1>9, <1>10, <1>11, <1>13 DEF IInv

LEMMA BroadcastFailsIInv == IInv /\ BroadcastFails => IInv'
  <1> SUFFICES ASSUME IInv, BroadcastFails PROVE IInv'
    OBVIOUS
  <1>1. /\ (waiting' = waiting \/ waiting' = waiting + 1)
        /\ pc' = "idle" /\ answer' = "error" /\ gas' = 0
        /\ UNCHANGED <<rpcTimeout, msgs, pushed, batch, sequence, results, polls, slept, calls,
                       committed, rivals>>
    <2>1. waiting' \in {waiting, waiting + 1}
      BY DEF BroadcastFails
    <2> QED BY <2>1 DEF BroadcastFails, Return, batching, waits
  <1>2. committed \in Nat /\ waiting \in Nat /\ waiting' \in Nat /\ waiting <= waiting'
    BY <1>1 DEF IInv, TypeOK
  <1>3. TypeOK' /\ Cutting'
    <2>1. Delays' = Delays /\ gas' \in 0..MaxGas /\ answer' \in Answers
      BY <1>1 DEF Delays, Answers
    <2>2. TypeOK'
      BY <1>1, <1>2, <2>1 DEF IInv, TypeOK
    <2>3. Cutting'
      BY <1>1 DEF Cutting
    <2> QED BY <2>2, <2>3
  <1>4. Numbering'
    <2>1. committed' = committed
      BY <1>1
    <2>2. committed + waiting <= committed + waiting'
      BY <1>2, SumMonotonic
    <2> QED BY <1>1, <1>2, <2>1, <2>2, TakenGrow
  <1>5. Quiet
    BY <1>1 DEF Quiet
  <1> QED BY <1>3, <1>4, <1>5, QuietStep DEF IInv

\* An attempt settles what was rejected; with no delay left it is the last.
LEMMA PollIInv == IInv /\ Poll => IInv'
  <1> SUFFICES ASSUME IInv, Poll PROVE IInv'
    OBVIOUS
  <1>1. /\ pc = "poll" /\ answer = "none"
        /\ UNCHANGED <<rpcTimeout, msgs, pushed, batch, sequence, gas, calls,
                       committed, waiting, rivals>>
    BY DEF Poll, IInv, Cutting, batching, chain
  <1>2. /\ rpcTimeout \in Nat /\ polls \in 0..Delays /\ slept \in Nat /\ results \in Seq(Tx)
        /\ slept = 200 + 300 * (Delays - polls) /\ Delays' = Delays
    BY <1>1 DEF IInv, TypeOK, Sleeping, FirstWait, Backoff, Delays
  <1>3. Delays \in Nat /\ 300 * Delays <= rpcTimeout /\ rpcTimeout < 300 * Delays + 300
    BY <1>2, DelaysWorth
  <1>6. /\ polls = 0 => slept <= rpcTimeout + 200 /\ slept + 300 > rpcTimeout + 200
        /\ polls # 0 => /\ polls - 1 \in 0..Delays /\ slept + 300 \in Nat
                        /\ slept + 300 <= rpcTimeout + 200
                        /\ slept + 300 = 200 + 300 * (Delays - (polls - 1))
    BY <1>2, <1>3, SleptArithmetic
  <1>4. CASE AllTxResultsFound
    <2>1. /\ pc' = "idle" /\ answer' = "ok" /\ UNCHANGED <<results, polls, slept>>
      BY <1>4 DEF Poll, Return, waits
    <2>2. TypeOK' /\ Cutting'
      BY <1>1, <1>2, <2>1 DEF IInv, TypeOK, Cutting, Answers
    <2>3. Numbering'
      BY <1>1, <2>1, TakenGrow DEF IInv, TypeOK
    <2>4. Settling' /\ Sleeping' /\ NoConfirmationIsTrue'
      BY <2>1 DEF IInv, Settling, Sleeping, NoConfirmationIsTrue
    <2>5. GivesUpInTime'
      BY <1>1, <2>1 DEF IInv, GivesUpInTime
    <2>6. OkMeansRejected'
      BY <1>4, <2>1 DEF IInv, Settling, AllTxResultsFound, OkMeansRejected
    <2> QED BY <2>2, <2>3, <2>4, <2>5, <2>6 DEF IInv
  <1>5. CASE ~AllTxResultsFound
    <2>1. results' = [i \in 1..Len(results) |-> [results[i] EXCEPT !.events = Settled(results[i])]]
      BY <1>5 DEF Poll
    <2>2. /\ results' \in Seq(Tx) /\ Len(results') = Len(results) /\ Len(results) \in Nat
          /\ \A i \in 1..Len(results) :
               /\ results'[i].accepted = results[i].accepted
               /\ results'[i].sequence = results[i].sequence
               /\ results'[i].events = Settled(results[i])
      BY <1>2, <2>1, PolledResults
    <2>3. \/ /\ polls = 0 /\ pc' = "idle" /\ answer' = "no confirmation"
             /\ polls' = polls /\ slept' = slept
          \/ /\ polls # 0 /\ pc' = "poll" /\ answer' = "none"
             /\ polls' = polls - 1 /\ slept' = slept + 300
      BY <1>1, <1>5 DEF Poll, OutOfPolls, Return, waits, Backoff
    <2>4. TypeOK'
      <3>1. polls' \in 0..Delays /\ slept' \in Nat
        <4>1. CASE polls = 0
          BY <1>2, <2>3, <4>1
        <4>2. CASE polls # 0
          <5>1. polls' = polls - 1 /\ slept' = slept + 300
            BY <2>3, <4>2
          <5> QED BY <1>6, <4>2, <5>1
        <4> QED BY <4>1, <4>2
      <3>2. pc' \in {"idle", "poll"} /\ answer' \in Answers
        BY <2>3 DEF Answers
      <3> QED BY <1>1, <1>2, <2>2, <3>1, <3>2 DEF IInv, TypeOK
    <2>5. Cutting'
      BY <2>3 DEF Cutting
    <2>6. Numbering'
      BY <1>1, <2>2, <2>3 DEF IInv, Numbering
    <2>7. \A i \in 1..Len(results) :
            /\ results'[i].events \in {"empty", "error"}
            /\ results'[i].events = "error" => ~results'[i].accepted
            /\ results'[i].events = "empty" => results'[i].accepted
      <3>1. ASSUME NEW i \in 1..Len(results)
            PROVE  /\ results[i].events = "error" => Settled(results[i]) = "error"
                   /\ results[i].events = "empty" =>
                        Settled(results[i]) = IF results[i].accepted THEN "empty" ELSE "error"
        BY DEF Settled, QueryEventsFromTxs
      <3>2. \A i \in 1..Len(results) :
              /\ results[i].events \in {"empty", "error"}
              /\ results[i].events = "error" => ~results[i].accepted
        BY DEF IInv, Settling
      <3> QED BY <2>2, <3>1, <3>2
    <2>8. Settling'
      BY <2>2, <2>7 DEF Settling
    <2>9. Sleeping'
      BY <1>2, <1>6, <2>3 DEF Sleeping, FirstWait, Backoff
    <2>10. GivesUpInTime'
      <3>1. slept' <= rpcTimeout + 200
        BY <1>6, <2>3
      <3>2. polls = 0 => slept' + 300 > rpcTimeout + 200
        BY <1>6, <2>3
      <3> QED BY <1>1, <2>3, <3>1, <3>2 DEF GivesUpInTime, FirstWait, Backoff
    <2>11. NoConfirmationIsTrue'
      <3> SUFFICES ASSUME polls = 0, rpcTimeout >= 300
                   PROVE  \E i \in 1..Len(results) :
                             results'[i].accepted /\ results'[i].events = "empty"
        BY <1>1, <2>2, <2>3 DEF NoConfirmationIsTrue, Backoff
      <3>1. polls < Delays
        BY <1>2, <1>3
      <3>2. PICK i \in 1..Len(results) : results[i].events = "empty"
        BY <1>5 DEF AllTxResultsFound
      <3>3. results[i].accepted
        BY <1>1, <3>1, <3>2 DEF IInv, Settling
      <3>4. Settled(results[i]) = "empty"
        BY <3>2, <3>3 DEF Settled, QueryEventsFromTxs
      <3> QED BY <2>2, <3>3, <3>4
    <2>12. OkMeansRejected'
      BY <2>3 DEF OkMeansRejected
    <2> QED BY <2>4, <2>5, <2>6, <2>8, <2>9, <2>10, <2>11, <2>12 DEF IInv
  <1> QED BY <1>4, <1>5

\* Blocks and the transactions of others only take numbers.
LEMMA ChainIInv == IInv /\ (CommitBlock \/ RivalSends) => IInv'
  <1> SUFFICES ASSUME IInv, CommitBlock \/ RivalSends PROVE IInv'
    OBVIOUS
  <1>1. UNCHANGED <<rpcTimeout, pc, msgs, pushed, batch, sequence, results, gas, polls, slept,
                    answer, calls>>
    BY DEF CommitBlock, RivalSends, batching, waits
  <1>2. committed \in Nat /\ waiting \in Nat /\ sequence \in Nat
    BY DEF IInv, TypeOK
  <1>3. /\ committed' \in Nat /\ waiting' \in Nat /\ committed <= committed'
        /\ committed + waiting <= committed' + waiting' /\ rivals' \in 0..MaxRivals
    <2>1. CASE CommitBlock
      <3>1. PICK n \in 1..waiting : committed' = committed + n /\ waiting' = waiting - n
                                    /\ rivals' = rivals
        BY <2>1 DEF CommitBlock
      <3> QED BY <1>2, <3>1 DEF IInv, TypeOK
    <2>2. CASE RivalSends
      BY <1>2, <2>2 DEF RivalSends, IInv, TypeOK
    <2> QED BY <2>1, <2>2
  <1>4. TypeOK' /\ Cutting'
    BY <1>1, <1>3 DEF IInv, TypeOK, Cutting, Delays
  <1>5. pc' \in {"simulate", "broadcast"} => sequence' <= committed'
    BY <1>1, <1>2, <1>3 DEF IInv, Numbering
  <1>6. Numbering'
    BY <1>1, <1>3, <1>5, TakenGrow
  <1>7. Quiet
    BY <1>1 DEF Quiet
  <1> QED BY <1>4, <1>6, <1>7, QuietStep DEF IInv

LEMMA StepIInv == IInv /\ [Next]_vars => IInv'
<1>1. ASSUME IInv, UNCHANGED vars PROVE IInv'
  <2>1. UNCHANGED <<rpcTimeout, pc, msgs, pushed, batch, sequence, results, gas, polls, slept,
                    answer, calls, committed, waiting, rivals>>
    BY <1>1 DEF vars, batching, waits, chain
  <2>2. TypeOK' /\ Cutting'
    BY <1>1, <2>1 DEF IInv, TypeOK, Cutting, Delays
  <2>3. Numbering'
    BY <1>1, <2>1 DEF IInv, Numbering
  <2>4. Quiet
    BY <2>1 DEF Quiet
  <2> QED BY <1>1, <2>2, <2>3, <2>4, QuietStep DEF IInv
<1> QED
  BY <1>1, SendMsgsIInv, PushIInv, QueryAccountIInv, SimulateIInv, BroadcastIInv,
     BroadcastFailsIInv, PollIInv, ChainIInv
  DEF Next, CallStep

--------------------------------------------------------------------------------
(***************************************************************************)
(* What follows.                                                           *)
(***************************************************************************)
LEMMA IInvHolds == Spec => []IInv
  BY InitIInv, StepIInv, PTL DEF Spec

\* The variables keep their types.
THEOREM TypesHold == Spec => []TypeOK
<1>1. IInv => TypeOK
  BY DEF IInv
<1> QED BY <1>1, IInvHolds, PTL

\* A call is answered by Ok only when the node accepted none of its
\* transactions.
THEOREM OkIsNoSuccess == Spec => []OkMeansRejected
<1>1. IInv => OkMeansRejected
  BY DEF IInv
<1> QED BY <1>1, IInvHolds, PTL

\* With an rpc_timeout of at least one delay, TxNoConfirmation is answered only
\* when the node accepted a transaction of the call for which no events were
\* found.  (Nothing is said of less than one delay, as with the default of zero:
\* there the answer may be given when all were rejected.)
THEOREM NoConfirmationHolds == Spec => []NoConfirmationIsTrue
<1>1. IInv => NoConfirmationIsTrue
  BY DEF IInv
<1> QED BY <1>1, IInvHolds, PTL

\* For every rpc_timeout, in milliseconds: no call sleeps for longer than it and
\* the first wait of 200 ms, and a call that answers TxNoConfirmation slept for
\* that long, but for less than one delay of 300 ms.
THEOREM TimeoutKept == Spec => []GivesUpInTime
<1>1. IInv => GivesUpInTime
  BY DEF IInv
<1> QED BY <1>1, IInvHolds, PTL

\* The node accepts a transaction of a call only when those it accepted before
\* are in a block, whatever rivals and blocks come in between.
THEOREM OneTxPerBlockHolds == Spec => OneTxPerBlock
<1>1. ASSUME IInv, Next, Len(results') > Len(results), results'[Len(results')].accepted,
             NEW i \in 1..Len(results), results[i].accepted
      PROVE  InBlock(results[i])
  <2>1. Len(results) \in Nat /\ results[i].sequence \in Nat
        /\ sequence \in Nat /\ committed \in Nat /\ waiting \in Nat
    BY <1>1, ResultTypes DEF IInv, TypeOK
  <2>2. CASE Broadcast
    <3>1. PICK accepted \in BOOLEAN :
            /\ pc = "broadcast" /\ (accepted => sequence = committed + waiting)
            /\ results' = Append(results, Added(accepted))
      BY <2>2 DEF Broadcast, Accepts, Added
    <3>2. results'[Len(results')] = Added(accepted)
      BY <1>1, <3>1, BroadcastResults DEF IInv
    <3>3. accepted
      BY <1>1, <3>2 DEF Added
    <3>4. sequence <= committed /\ results[i].sequence < committed + waiting
      BY <1>1, <3>1 DEF IInv, Numbering
    <3>5. results[i].sequence < committed
      BY <2>1, <3>1, <3>3, <3>4
    <3> QED BY <1>1, <3>5 DEF InBlock
  <2>3. CASE SendMsgs
    BY <1>1, <2>1, <2>3, EmptySeq DEF SendMsgs
  <2>4. CASE Poll
    <3>1. CASE AllTxResultsFound
      BY <1>1, <2>1, <2>4, <3>1 DEF Poll
    <3>2. CASE ~AllTxResultsFound
      <4>1. results' = [j \in 1..Len(results) |-> [results[j] EXCEPT !.events = Settled(results[j])]]
        BY <2>4, <3>2 DEF Poll
      <4>2. Len(results') = Len(results)
        BY <1>1, <4>1, PolledResults DEF IInv, TypeOK
      <4> QED BY <1>1, <2>1, <4>2
    <3> QED BY <3>1, <3>2
  <2>5. CASE UNCHANGED results
    BY <1>1, <2>1, <2>5
  <2> QED
    BY <1>1, <2>2, <2>3, <2>4, <2>5
    DEF Next, CallStep, Push, QueryAccount, Simulate, BroadcastFails, CommitBlock, RivalSends
<1>2. IInv /\ [Next]_vars =>
        [Len(results') > Len(results) /\ results'[Len(results')].accepted
           => \A i \in 1..Len(results) : results[i].accepted => InBlock(results[i])]_vars
  BY <1>1
<1> QED BY <1>2, IInvHolds, PTL DEF Spec, OneTxPerBlock

--------------------------------------------------------------------------------
(***************************************************************************)
(* How the list is cut.                                                    *)
(***************************************************************************)

\* A batch is open until it reaches a limit; what was sent before it is
\* complete.
Sending == {"account", "simulate", "broadcast"}
CutInv ==
    /\ pc = "push" => batch = <<>> \/ ~ReachesLimit(batch)
    /\ pc \in Sending => /\ Len(batch) > 1 => ~ReachesLimit(Front(batch))
                         /\ ReachesLimit(batch) \/ pushed = Len(msgs)
    /\ pc \in Sending \cup {"push"} =>
         \A i \in 1..Len(results) : ReachesLimit(results[i].msgs)
    /\ CutAtTheLimit

\* What was there before the last element.
LEMMA FrontOfAppend ==
    ASSUME NEW S, NEW s \in Seq(S), NEW e \in S
    PROVE  Front(Append(s, e)) = s
<1> DEFINE t == Append(s, e)
<1>1. /\ t \in Seq(S) /\ Len(s) \in Nat /\ Len(t) = Len(s) + 1
      /\ \A i \in 1..Len(s) : t[i] = s[i]
  BY AppendElements
<1>2. \A i \in 1..(Len(t) - 1) : t[i] \in S
  BY <1>1, ElementOfSeq
<1> HIDE DEF t
<1>3. Len(t) - 1 = Len(s) /\ Len(t) - 1 \in Int /\ 1 \in Int
  BY <1>1
<1>4. /\ Front(t) \in Seq(S)
      /\ Len(Front(t)) = IF 1 <= Len(t) - 1 THEN (Len(t) - 1) - 1 + 1 ELSE 0
      /\ \A i \in 1..((Len(t) - 1) - 1 + 1) : Front(t)[i] = t[1 + i - 1]
  BY <1>2, <1>3, SubSeqProperties DEF Front
<1>5. Len(Front(t)) = Len(s) /\ \A i \in 1..Len(s) : Front(t)[i] = s[i]
  BY <1>1, <1>3, <1>4
<1>6. Front(t) = s
  BY <1>4, <1>5, SeqEqual
<1> QED BY <1>6 DEF t

LEMMA InitCutInv == Init => CutInv
<1>1. Len(<<>>) = 0
  BY EmptySeq
<1> QED BY <1>1 DEF Init, CutInv, Sending, CutAtTheLimit

\* A limit is that of the list.
LEMMA SameLimit ==
    ASSUME msgs' = msgs, NEW b
    PROVE  ReachesLimit(b)' <=> ReachesLimit(b)
  BY DEF ReachesLimit, Size

\* A step that leaves the batches and the results alone, and does not lead
\* back to a batch, cuts nothing.
LEMMA UncutStep ==
    ASSUME CutInv, UNCHANGED <<msgs, pushed, batch>>,
           Len(results') = Len(results),
           \A i \in 1..Len(results) : results'[i].msgs = results[i].msgs,
           pc' \in Sending => pc \in Sending,
           pc' = "push" => pc = "push"
    PROVE  CutInv'
<1>1. \A b : ReachesLimit(b)' <=> ReachesLimit(b)
  BY SameLimit
<1>2. CutAtTheLimit'
  BY <1>1 DEF CutInv, CutAtTheLimit, ReachesLimit, Size
<1> QED BY <1>1, <1>2 DEF CutInv, Sending, ReachesLimit, Size

\* A call begins with nothing.
LEMMA SendMsgsCutInv == CutInv /\ SendMsgs => CutInv'
  <1> SUFFICES ASSUME CutInv, SendMsgs PROVE CutInv'
    OBVIOUS
  <1>1. /\ batch' = <<>> /\ results' = <<>> /\ pc' \in {"idle", "push"}
    BY DEF SendMsgs, Return
  <1>2. Len(results') = 0
    BY <1>1, EmptySeq
  <1> QED BY <1>1, <1>2 DEF CutInv, Sending, CutAtTheLimit

\* The batch that was open is the front of the new one.
LEMMA PushCutInv == IInv /\ CutInv /\ Push => CutInv'
  <1> SUFFICES ASSUME IInv, CutInv, Push PROVE CutInv'
    OBVIOUS
  <1>1. /\ pc = "push" /\ pushed' = pushed + 1 /\ batch' = Append(batch, pushed + 1)
        /\ pc' = IF Full(batch') \/ pushed' = Len(msgs) THEN "account" ELSE "push"
        /\ results' = results /\ msgs' = msgs
    BY DEF Push
  <1>2. Full(batch') <=> ReachesLimit(batch')
    BY DEF Full, ReachesLimit
  <1>3. \A b : ReachesLimit(b)' <=> ReachesLimit(b)
    BY <1>1, SameLimit
  <1>4. batch \in Seq(Nat) /\ pushed + 1 \in Nat /\ Len(msgs) \in Nat
    <2>1. 1..Len(msgs) \subseteq Nat
      OBVIOUS
    <2> QED BY <2>1, SeqMonotonic, LenProperties DEF IInv, TypeOK
  <1>5. Front(batch') = batch /\ Len(batch') = Len(batch) + 1 /\ (batch = <<>> => Len(batch) = 0)
    BY <1>1, <1>4, FrontOfAppend, AppendElements, LenCases
  <1>6. Len(batch') > 1 => ~ReachesLimit(Front(batch'))
    BY <1>1, <1>5 DEF CutInv
  <1>7. \A i \in 1..Len(results) : ReachesLimit(results[i].msgs)
    BY <1>1 DEF CutInv
  <1>8. CutAtTheLimit'
    BY <1>1, <1>3, <1>7 DEF CutInv, CutAtTheLimit, ReachesLimit, Size
  <1> QED BY <1>1, <1>2, <1>3, <1>6, <1>7, <1>8 DEF CutInv, Sending, ReachesLimit, Size

\* What is broadcast is the batch.
LEMMA BroadcastCutInv == IInv /\ CutInv /\ Broadcast => CutInv'
  <1> SUFFICES ASSUME IInv, CutInv, Broadcast PROVE CutInv'
    OBVIOUS
  <1>1. PICK accepted \in BOOLEAN :
          /\ pc = "broadcast" /\ results' = Append(results, Added(accepted))
          /\ batch' = <<>> /\ msgs' = msgs /\ pushed' = pushed
          /\ pc' = IF pushed = Len(msgs) THEN "poll" ELSE "push"
    BY DEF Broadcast, Added
  <1>2. /\ Len(results') = Len(results) + 1 /\ Len(results) \in Nat
        /\ \A i \in 1..Len(results) : results'[i] = results[i]
        /\ results'[Len(results) + 1] = Added(accepted)
    BY <1>1, BroadcastResults DEF IInv
  <1>3. Added(accepted).msgs = batch
    BY DEF Added
  <1>4. \A i \in 1..Len(results') : i \in 1..Len(results) \/ i = Len(results')
    BY <1>2
  <1>5. \A i \in 1..Len(results) : ReachesLimit(results[i].msgs)
    BY <1>1 DEF CutInv, Sending
  <1>6. /\ Len(batch) > 1 => ~ReachesLimit(Front(batch))
        /\ ReachesLimit(batch) \/ pushed = Len(msgs)
    BY <1>1 DEF CutInv, Sending
  <1>7. \A b : ReachesLimit(b)' <=> ReachesLimit(b)
    BY <1>1, SameLimit
  <1>8. ASSUME NEW i \in 1..Len(results')
        PROVE  /\ Len(results'[i].msgs) > 1 => ~ReachesLimit(Front(results'[i].msgs))
               /\ \/ ReachesLimit(results'[i].msgs)
                  \/ i = Len(results') /\ pushed = Len(msgs)
    <2>1. CASE i \in 1..Len(results)
      BY <1>2, <1>5, <2>1 DEF CutInv, CutAtTheLimit
    <2>2. CASE i = Len(results')
      BY <1>2, <1>3, <1>6, <2>2
    <2> QED BY <1>4, <2>1, <2>2
  <1>9. CutAtTheLimit'
    BY <1>1, <1>7, <1>8 DEF CutAtTheLimit, ReachesLimit, Size
  <1>10. pc' = "push" => \A i \in 1..Len(results') : ReachesLimit(results'[i].msgs)
    BY <1>1, <1>2, <1>3, <1>4, <1>5, <1>6
  <1> QED BY <1>1, <1>7, <1>9, <1>10 DEF CutInv, Sending, ReachesLimit, Size

LEMMA StepCutInv == IInv /\ CutInv /\ [Next]_vars => CutInv'
  <1> SUFFICES ASSUME IInv, CutInv, [Next]_vars PROVE CutInv'
    OBVIOUS
  <1>1. CASE QueryAccount \/ Simulate \/ BroadcastFails \/ CommitBlock \/ RivalSends \/ UNCHANGED vars
    <2>1. /\ UNCHANGED <<msgs, pushed, batch, results>>
          /\ pc' \in Sending => pc \in Sending
          /\ pc' = "push" => pc = "push"
      BY <1>1 DEF QueryAccount, AccountAnswers, Simulate, BroadcastFails, CommitBlock, RivalSends,
                  Return, Sending, vars, batching
    <2> QED BY <2>1, UncutStep
  <1>2. CASE Poll
    <2>1. /\ UNCHANGED <<msgs, pushed, batch>> /\ pc' \notin Sending \cup {"push"}
      BY <1>2 DEF Poll, Return, Sending, batching
    <2>2. /\ Len(results') = Len(results)
          /\ \A i \in 1..Len(results) : results'[i].msgs = results[i].msgs
      BY <1>2, PolledResults DEF Poll, IInv, TypeOK
    <2> QED BY <2>1, <2>2, UncutStep
  <1> QED
    BY <1>1, <1>2, SendMsgsCutInv, PushCutInv, BroadcastCutInv DEF Next, CallStep

\* A transaction ends with the message that reaches a limit, for every list and
\* all limits; only the last one of a call may end before.
THEOREM CutHolds == Spec => []CutAtTheLimit
<1>1. CutInv => CutAtTheLimit
  BY DEF CutInv
<1> QED BY <1>1, InitCutInv, StepCutInv, IInvHolds, PTL DEF Spec

--------------------------------------------------------------------------------
(***************************************************************************)
(* What becomes of the messages.                                           *)
(***************************************************************************)
KeptInv ==
    /\ MessagesKept
    /\ pc = "poll" => batch = <<>> /\ pushed = Len(msgs)
    /\ pc \in Sending => batch # <<>>

LEMMA InitKeptInv == Init => KeptInv
<1>1. Len(<<>>) = 0
  BY EmptySeq
<1> QED BY <1>1 DEF Init, KeptInv, Sending, MessagesKept, RunFrom, EndOf

\* The results, and with them the ends, are what they were.
LEMMA SameEnds ==
    ASSUME \A i \in 1..Len(results) : results'[i].msgs = results[i].msgs,
           NEW n \in 0..Len(results)
    PROVE  EndOf(n)' = EndOf(n)
  BY DEF EndOf

\* An end is the number of a message.
LEMMA EndType ==
    ASSUME IInv, KeptInv, NEW n \in 0..Len(results)
    PROVE  EndOf(n) \in Nat
<1>1. CASE n = 0
  BY <1>1 DEF EndOf
<1>2. CASE n # 0
  <2>1. n \in 1..Len(results)
    BY <1>2, ResultTypes DEF IInv, TypeOK
  <2> DEFINE b == results[n].msgs
  <2>2. b \in Seq(Nat) /\ b # <<>>
    <3>1. results[n] \in Tx
      BY <2>1, ResultTypes DEF IInv, TypeOK
    <3> QED BY <2>1, <3>1 DEF Tx, KeptInv, MessagesKept
  <2> HIDE DEF b
  <2>3. Len(b) \in 1..Len(b)
    BY <2>2, LenProperties, LenCases
  <2>4. b[Len(b)] \in Nat
    BY <2>2, <2>3, ElementOfSeq
  <2> QED BY <1>2, <2>4 DEF EndOf, Last, b
<1> QED BY <1>1, <1>2

\* A step that leaves the messages in their transactions and in the batch, and
\* answers with an error at most, or out of the polling.
LEMMA UnmovedStep ==
    ASSUME IInv, KeptInv, UNCHANGED <<msgs, pushed, batch>>,
           Len(results') = Len(results),
           \A i \in 1..Len(results) : results'[i].msgs = results[i].msgs,
           pc' \in Sending => pc \in Sending,
           pc' = "poll" => pc = "poll",
           answer' = answer \/ answer' \in {"error", "panic"} \/ pc = "poll"
    PROVE  KeptInv'
<1>1. Len(results) \in Nat
  BY ResultTypes DEF IInv, TypeOK
<1>2. \A n \in 0..Len(results) : EndOf(n)' = EndOf(n)
  BY SameEnds
<1>3. EndOf(Len(results))' = EndOf(Len(results))
  BY <1>1, <1>2
<1>4. ASSUME NEW i \in 1..Len(results')
      PROVE  results'[i].msgs # <<>> /\ RunFrom(results'[i].msgs, EndOf(i - 1)')
  <2>1. i \in 1..Len(results) /\ i - 1 \in 0..Len(results)
    BY <1>1
  <2> QED BY <1>2, <2>1 DEF KeptInv, MessagesKept
<1>5. RunFrom(batch, EndOf(Len(results))) /\ pushed = EndOf(Len(results)) + Len(batch)
  BY DEF KeptInv, MessagesKept
<1>6. pc = "poll" => EndOf(Len(results)) = Len(msgs)
  <2>1. Len(<<>>) = 0 /\ EndOf(Len(results)) \in Nat
    BY <1>1, EmptySeq, EndType
  <2> QED BY <1>5, <2>1 DEF KeptInv
<1> QED BY <1>3, <1>4, <1>5, <1>6 DEF KeptInv, MessagesKept, RunFrom

LEMMA SendMsgsKeptInv == KeptInv /\ SendMsgs => KeptInv'
  <1> SUFFICES ASSUME KeptInv, SendMsgs PROVE KeptInv'
    OBVIOUS
  <1>1. /\ batch' = <<>> /\ results' = <<>> /\ pushed' = 0 /\ pc' \in {"idle", "push"}
        /\ answer' \in {"ok", "no confirmation"} => msgs' = <<>>
    BY DEF SendMsgs, Return
  <1>2. Len(<<>>) = 0
    BY EmptySeq
  <1>3. EndOf(Len(results))' = 0 /\ \A i \in 1..Len(results') : FALSE
    <2>1. Len(results') = 0
      BY <1>1, <1>2
    <2>2. EndOf(Len(results))' = 0
      BY <2>1 DEF EndOf
    <2> QED BY <2>1, <2>2
  <1>4. RunFrom(<<>>, 0) /\ Len(<<>>) = 0 + 0
    BY <1>2 DEF RunFrom
  <1>5. MessagesKept'
    BY <1>1, <1>2, <1>3, <1>4 DEF MessagesKept, RunFrom
  <1> QED BY <1>1, <1>5 DEF KeptInv, Sending

\* The next message goes to the end of the batch.
LEMMA PushKeptInv == IInv /\ KeptInv /\ Push => KeptInv'
  <1> SUFFICES ASSUME IInv, KeptInv, Push PROVE KeptInv'
    OBVIOUS
  <1> DEFINE end == EndOf(Len(results))
  <1>1. /\ pc = "push" /\ pushed' = pushed + 1 /\ batch' = Append(batch, pushed + 1)
        /\ pc' \in {"account", "push"} /\ answer' = "none"
        /\ results' = results /\ msgs' = msgs
    BY DEF Push, IInv, Cutting
  <1>2. Len(results) \in Nat /\ \A n \in 0..Len(results) : EndOf(n)' = EndOf(n)
    BY <1>1, ResultTypes, SameEnds DEF IInv, TypeOK
  <1>3. end' = end /\ end \in Nat
    BY <1>1, <1>2, EndType
  <1>4. batch \in Seq(Nat) /\ pushed + 1 \in Nat
    <2>1. 1..Len(msgs) \subseteq Nat
      OBVIOUS
    <2> QED BY <2>1, SeqMonotonic, LenProperties DEF IInv, TypeOK
  <1>5. /\ Len(batch) \in Nat /\ Len(batch') = Len(batch) + 1
        /\ \A j \in 1..Len(batch) : batch'[j] = batch[j]
        /\ batch'[Len(batch) + 1] = pushed + 1 /\ batch' # <<>>
    BY <1>1, <1>4, AppendElements, AppendProperties
  <1>6. RunFrom(batch, end) /\ pushed = end + Len(batch)
    BY DEF KeptInv, MessagesKept
  <1> HIDE DEF end
  <1>7. RunFrom(batch', end)
    <2>1. ASSUME NEW j \in 1..Len(batch')
          PROVE  batch'[j] = end + j
      <3>1. CASE j \in 1..Len(batch)
        BY <1>5, <1>6, <3>1 DEF RunFrom
      <3>2. CASE j = Len(batch) + 1
        BY <1>3, <1>5, <1>6, <3>2
      <3> QED BY <1>5, <3>1, <3>2
    <2> QED BY <2>1 DEF RunFrom
  <1>8. pushed' = end + Len(batch')
    BY <1>1, <1>3, <1>5, <1>6
  <1>9. ASSUME NEW i \in 1..Len(results)
        PROVE  results[i].msgs # <<>> /\ RunFrom(results[i].msgs, EndOf(i - 1)')
    <2>1. i - 1 \in 0..Len(results)
      BY <1>2
    <2> QED BY <1>2, <2>1 DEF KeptInv, MessagesKept
  <1> USE DEF end
  <1>10. MessagesKept'
    BY <1>1, <1>3, <1>7, <1>8, <1>9 DEF MessagesKept, RunFrom
  <1> QED BY <1>1, <1>5, <1>10 DEF KeptInv, Sending

\* What is broadcast goes on where the transaction before it ended.
LEMMA BroadcastKeptInv == IInv /\ KeptInv /\ Broadcast => KeptInv'
  <1> SUFFICES ASSUME IInv, KeptInv, Broadcast PROVE KeptInv'
    OBVIOUS
  <1> DEFINE end == EndOf(Len(results))
  <1>1. PICK accepted \in BOOLEAN :
          /\ pc = "broadcast" /\ results' = Append(results, Added(accepted))
          /\ batch' = <<>> /\ msgs' = msgs /\ pushed' = pushed /\ answer' = "none"
          /\ pc' = IF pushed = Len(msgs) THEN "poll" ELSE "push"
    BY DEF Broadcast, Added, IInv, Cutting
  <1>2. /\ Len(results') = Len(results) + 1 /\ Len(results) \in Nat
        /\ \A i \in 1..Len(results) : results'[i] = results[i]
        /\ results'[Len(results) + 1] = Added(accepted)
    BY <1>1, BroadcastResults DEF IInv
  <1>3. Added(accepted).msgs = batch
    BY DEF Added
  <1>4. \A n \in 0..Len(results) : EndOf(n)' = EndOf(n)
    BY <1>2, SameEnds
  <1>5. end \in Nat
    BY <1>2, EndType
  <1>6. RunFrom(batch, end) /\ pushed = end + Len(batch) /\ batch # <<>>
    BY <1>1 DEF KeptInv, MessagesKept, Sending
  <1>7. Len(batch) \in Nat /\ Len(batch) \in 1..Len(batch) /\ Len(<<>>) = 0
    BY <1>6, LenProperties, LenCases, EmptySeq DEF IInv, TypeOK
  <1>8. EndOf(Len(results))' = pushed
    <2>1. batch[Len(batch)] = pushed
      BY <1>6, <1>7 DEF RunFrom
    <2>2. Len(results') # 0
      BY <1>2
    <2> QED BY <1>2, <1>3, <2>1, <2>2 DEF EndOf, Last
  <1>9. ASSUME NEW i \in 1..Len(results')
        PROVE  results'[i].msgs # <<>> /\ RunFrom(results'[i].msgs, EndOf(i - 1)')
    <2>1. CASE i \in 1..Len(results)
      <3>1. i - 1 \in 0..Len(results)
        BY <1>2, <2>1
      <3> QED BY <1>2, <1>4, <2>1, <3>1 DEF KeptInv, MessagesKept
    <2>2. CASE i = Len(results) + 1
      <3>1. i - 1 = Len(results) /\ i - 1 \in 0..Len(results)
        BY <1>2, <2>2
      <3> QED BY <1>2, <1>3, <1>4, <1>6, <2>2, <3>1
    <2> QED BY <1>2, <2>1, <2>2
  <1>10. RunFrom(<<>>, pushed) /\ pushed = pushed + Len(<<>>)
    BY <1>5, <1>6, <1>7 DEF RunFrom
  <1>11. MessagesKept'
    BY <1>1, <1>8, <1>9, <1>10 DEF MessagesKept, RunFrom
  <1> QED BY <1>1, <1>11 DEF KeptInv, Sending

LEMMA StepKeptInv == IInv /\ KeptInv /\ [Next]_vars => KeptInv'
  <1> SUFFICES ASSUME IInv, KeptInv, [Next]_vars PROVE KeptInv'
    OBVIOUS
  <1>1. CASE QueryAccount \/ Simulate \/ BroadcastFails \/ CommitBlock \/ RivalSends \/ UNCHANGED vars
    <2>1. /\ UNCHANGED <<msgs, pushed, batch, results>>
          /\ pc' \in Sending => pc \in Sending
          /\ pc' = "poll" => pc = "poll"
          /\ answer' = answer \/ answer' \in {"error", "panic"}
      BY <1>1 DEF QueryAccount, AccountAnswers, Simulate, BroadcastFails, CommitBlock, RivalSends,
                  Return, Sending, vars, batching
    <2> QED BY <2>1, UnmovedStep
  <1>2. CASE Poll
    <2>1. /\ UNCHANGED <<msgs, pushed, batch>> /\ pc = "poll" /\ pc' \notin Sending
      BY <1>2 DEF Poll, Return, Sending, batching
    <2>2. /\ Len(results') = Len(results)
          /\ \A i \in 1..Len(results) : results'[i].msgs = results[i].msgs
      BY <1>2, PolledResults DEF Poll, IInv, TypeOK
    <2> QED BY <2>1, <2>2, UnmovedStep
  <1> QED
    BY <1>1, <1>2, SendMsgsKeptInv, PushKeptInv, BroadcastKeptInv DEF Next, CallStep

\* No message is lost, sent twice or overtaken by the cutting, for every list
\* and all limits.
THEOREM MessagesHold == Spec => []MessagesKept
<1>1. KeptInv => MessagesKept
  BY DEF KeptInv
<1> QED BY <1>1, InitKeptInv, StepKeptInv, IInvHolds, PTL DEF Spec

--------------------------------------------------------------------------------
(***************************************************************************)
(* The price of a transaction.                                             *)
(***************************************************************************)
LEMMA HundredthsMonotonic ==
    ASSUME NEW m \in Nat, NEW n \in Nat, m <= n
    PROVE  Hundredths(m) \in Nat /\ Hundredths(m) <= Hundredths(n)
  BY DEF Hundredths

LEMMA ProductMonotonic ==
    ASSUME NEW m \in Nat, NEW n \in Nat, NEW k \in Nat, m <= n
    PROVE  m * k \in Nat /\ m * k <= n * k
<1>1. n = m + (n - m) /\ n - m \in Nat
  OBVIOUS
<1>2. (m + (n - m)) * k = m * k + (n - m) * k
  OBVIOUS
<1>3. m * k \in Nat /\ (n - m) * k \in Nat
  BY <1>1
<1> QED BY <1>1, <1>2, <1>3

\* The lesser of two.
LEMMA MinOfTwo ==
    ASSUME NEW m \in Nat, NEW n \in Nat
    PROVE  Min({m, n}) = IF m <= n THEN m ELSE n
  BY DEF Min

\* Whatever the simulation said, the transaction may use that much and no more
\* than max_gas, and costs no more than max_gas does.
THEOREM FeesHold == Spec => []FeeCovered
<1>1. TypeOK => FeeCovered
  <2> SUFFICES ASSUME TypeOK PROVE FeeCovered
    OBVIOUS
  <2> DEFINE adjusted == gas + Hundredths(gas * Adjustment)
  <2>1. gas \in Nat /\ gas <= MaxGas /\ MaxGas \in Nat /\ Adjustment \in Nat /\ Price \in Nat
    BY DEF TypeOK
  <2>2. gas * Adjustment \in Nat
    BY <2>1, ProductMonotonic
  <2>3. adjusted \in Nat /\ gas <= adjusted
    BY <2>1, <2>2, HundredthsMonotonic
  <2>4. AdjustedGas(gas) = IF adjusted <= MaxGas THEN adjusted ELSE MaxGas
    <3> HIDE DEF adjusted
    <3>1. Min({adjusted, MaxGas}) = IF adjusted <= MaxGas THEN adjusted ELSE MaxGas
      BY <2>1, <2>3, MinOfTwo
    <3> QED BY <3>1 DEF AdjustedGas, adjusted
  <2> HIDE DEF adjusted
  <2>5. AdjustedGas(gas) \in Nat /\ gas <= AdjustedGas(gas) /\ AdjustedGas(gas) <= MaxGas
    BY <2>1, <2>3, <2>4
  <2>6. AdjustedGas(gas) * Price \in Nat /\ MaxGas * Price \in Nat
        /\ AdjustedGas(gas) * Price <= MaxGas * Price
    BY <2>1, <2>5, ProductMonotonic
  <2>7. CalculateFee(AdjustedGas(gas)) <= CalculateFee(MaxGas)
    BY <2>6, HundredthsMonotonic DEF CalculateFee
  <2> QED BY <2>5, <2>7 DEF FeeCovered
<1> QED BY <1>1, TypesHold, PTL
================================================================================
