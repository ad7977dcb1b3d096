-------------------------------- MODULE CosmosTx --------------------------------
(***************************************************************************)
(* send_msgs of chain/cosmos.rs: a list of messages is cut into            *)
(* transactions; each is numbered with the account's sequence as the node  *)
(* reports it, simulated, signed and broadcast; then the chain is polled   *)
(* until every transaction is settled, or the attempts run out.  The       *)
(* runtime's thread makes one call after the other.                        *)
(*                                                                         *)
(* The node is not in the repository.  It is modelled by what send_tx      *)
(* relies on: queries answer from the last committed block; a transaction  *)
(* is checked when it is broadcast, against the transactions that already  *)
(* wait for a block; other holders of the key use the account as well.     *)
(***************************************************************************)
EXTENDS Naturals, Sequences, SequencesExt

CONSTANTS
    MsgLists,       \* the lists of messages to send; a message is its size
    MaxMsgNum,      \* config.max_msg_num
    MaxTxSize,      \* config.max_tx_size
    RpcTimeouts,    \* values of config.rpc_timeout, in milliseconds
    MaxGas,         \* config.max_gas
    Adjustment,     \* config.gas_adjustment, in hundredths
    Price,          \* config.gas_price, in hundredths
    Estimates,      \* what a simulation may say the gas used is
    MaxCalls,       \* bound: calls of send_msgs
    MaxRivals       \* bound: transactions of others on the account

ASSUME TxAssumption ==
    /\ MsgLists \subseteq Seq(Nat)
    /\ MaxMsgNum \in Nat /\ MaxTxSize \in Nat /\ RpcTimeouts \subseteq Nat
    /\ {MaxGas, Adjustment, Price} \subseteq Nat /\ Estimates \subseteq Nat
    /\ MaxCalls \in Nat /\ MaxRivals \in Nat

VARIABLES
    rpcTimeout, \* config.rpc_timeout; zero when the configuration leaves it out
    pc,         \* where send_msgs is
    msgs,       \* proto_msgs of the latest call
    pushed,     \* how many of them were pushed on a batch
    batch,      \* msg_batch: the indices of its messages
    sequence,   \* account_seq
    results,    \* tx_sync_results
    gas,        \* estimated_gas of the transaction to broadcast
    polls,      \* delays left
    slept,      \* time slept between the attempts
    answer,     \* what the latest call returned
    calls,      \* calls so far
    committed,  \* the account's sequence in the last block
    waiting,    \* its transactions that wait for a block
    rivals      \* those that others sent

batching == <<msgs, pushed, batch>>
chain    == <<committed, waiting, rivals>>
waits    == <<polls, slept>>
vars     == <<rpcTimeout, pc, batching, sequence, results, gas, waits, answer, calls, chain>>

\* "no confirmation" is TxNoConfirmation, "error" any other Err.
Answers == {"none", "ok", "error", "no confirmation", "panic"}

Init ==
    /\ pc = "idle" /\ msgs = <<>> /\ pushed = 0 /\ batch = <<>>
    /\ rpcTimeout \in RpcTimeouts /\ gas = 0 /\ polls = 0 /\ slept = 0
    /\ sequence = 0 /\ results = <<>> /\ answer = "none" /\ calls = 0
    /\ committed = 0 /\ waiting = 0 /\ rivals = 0

Return(value) == pc' = "idle" /\ answer' = value

--------------------------------------------------------------------------------
(***************************************************************************)
(* send_msgs: cutting the list into transactions.                          *)
(***************************************************************************)
SendMsgs == \E list \in MsgLists :
    /\ pc = "idle" /\ calls < MaxCalls /\ answer # "panic"
    /\ calls' = calls + 1
    /\ msgs' = list /\ pushed' = 0 /\ batch' = <<>> /\ results' = <<>>
    /\ IF list = <<>> THEN Return("ok") ELSE pc' = "push" /\ answer' = "none"
    /\ UNCHANGED <<rpcTimeout, sequence, gas, waits, chain>>

SizeIn(list, b) == FoldLeft(LAMBDA total, i : total + list[i], 0, b)
Size(b)         == SizeIn(msgs, b)

\* Deviation: the number of messages is not limited.
FullBySize(b) == Size(b) >= MaxTxSize
Full(b)       == Len(b) >= MaxMsgNum \/ Size(b) >= MaxTxSize

\* Deviation: the message that fills a batch is left for the next one, and lost.
PushBeforeFull ==
    /\ pc = "push"
    /\ pushed' = pushed + 1
    /\ batch' = (IF batch # <<>> /\ Full(Append(batch, pushed')) THEN batch ELSE Append(batch, pushed'))
    /\ pc' = IF Full(Append(batch, pushed')) \/ pushed' = Len(msgs) THEN "account" ELSE "push"
    /\ UNCHANGED <<rpcTimeout, msgs, sequence, results, gas, waits, answer, calls, chain>>

\* One turn of the loop: the batch is sent when it is full, or the last.
Push ==
    /\ pc = "push"
    /\ pushed' = pushed + 1 /\ batch' = Append(batch, pushed')
    /\ pc' = IF Full(batch') \/ pushed' = Len(msgs) THEN "account" ELSE "push"
    /\ UNCHANGED <<rpcTimeout, msgs, sequence, results, gas, waits, answer, calls, chain>>

--------------------------------------------------------------------------------
(***************************************************************************)
(* send_tx.  Any error of it is an error of send_msgs, whatever was        *)
(* broadcast before.                                                       *)
(***************************************************************************)
\* Deviation: the cached account is used when there is one.
QueryAccountOnce ==
    /\ pc = "account"
    /\ sequence' = (IF results = <<>> THEN committed ELSE sequence)
    /\ pc' = "simulate" /\ UNCHANGED answer
    /\ UNCHANGED <<rpcTimeout, batching, results, gas, waits, calls, chain>>

\* query_account, and query_balance after it: the node fails to answer the
\* first, which is an error; or answers without an account, or fails to answer
\* the second, either of which panics.
AccountAnswers == {"account", "error", "panic"}

\* The cached account is forgotten, so the node is asked.
QueryAccount == \E received \in AccountAnswers :
    /\ pc = "account"
    /\ IF received = "account"
       THEN sequence' = committed /\ pc' = "simulate" /\ UNCHANGED answer
       ELSE Return(received) /\ UNCHANGED sequence
    /\ UNCHANGED <<rpcTimeout, batching, results, gas, waits, calls, chain>>

Hundredths(n) == (n + 99) \div 100      \* rounded up

\* apply_adjustment_to_gas: what the transaction may use.
AdjustedGas(estimate) == Min({estimate + Hundredths(estimate * Adjustment), MaxGas})

\* calculate_fee: what is paid for it.
CalculateFee(amount) == Hundredths(amount * Price)

\* Deviation: the estimate is not compared with max_gas.
SimulateAndHope == \E estimate \in Estimates \cup {MaxGas} :
    /\ pc = "simulate"
    /\ gas' = estimate /\ pc' = "broadcast"
    /\ UNCHANGED <<rpcTimeout, batching, sequence, results, waits, answer, calls, chain>>

\* A simulation that fails counts as one that uses max_gas; one that uses more
\* is an error.  So is a key that cannot be read or used.
Simulate == \E estimate \in Estimates \cup {MaxGas} :
    /\ pc = "simulate"
    /\ \/ estimate <= MaxGas /\ gas' = estimate /\ pc' = "broadcast" /\ UNCHANGED answer
       \/ Return("error") /\ UNCHANGED gas
    /\ UNCHANGED <<rpcTimeout, batching, sequence, results, waits, calls, chain>>

\* The node's check: the sequence must be the next one after the transactions
\* that wait; a transaction may be rejected for other reasons as well.
Accepts == sequence = committed + waiting

\* wait_for_block_commits sleeps once before its first attempt, and then as
\* many whole delays as rpc_timeout is worth, in milliseconds.
FirstWait == 200
Backoff   == 300
Delays    == rpcTimeout \div Backoff

\* broadcast_tx_sync answered with a code.  The result is not looked at here:
\* a rejected transaction is a result like any other.
Broadcast == \E accepted \in BOOLEAN :
    /\ pc = "broadcast"
    /\ accepted => Accepts
    /\ waiting' = waiting + IF accepted THEN 1 ELSE 0
    /\ results' = Append(results, [msgs |-> batch, sequence |-> sequence,
                                   accepted |-> accepted, events |-> "empty"])
    /\ sequence' = sequence + 1 /\ batch' = <<>> /\ gas' = 0
    /\ IF pushed = Len(msgs)
       THEN pc' = "poll" /\ polls' = Delays /\ slept' = FirstWait
       ELSE pc' = "push" /\ UNCHANGED waits
    /\ UNCHANGED <<rpcTimeout, msgs, pushed, answer, calls, committed, rivals>>

\* The RPC failed, before or after the node took the transaction.
BroadcastFails ==
    /\ pc = "broadcast"
    /\ waiting' \in {waiting} \cup (IF Accepts THEN {waiting + 1} ELSE {})
    /\ Return("error") /\ gas' = 0
    /\ UNCHANGED <<rpcTimeout, batching, sequence, results, waits, calls, committed, rivals>>

--------------------------------------------------------------------------------
(***************************************************************************)
(* wait_for_block_commits.                                                 *)
(***************************************************************************)
AllTxResultsFound == \A i \in 1..Len(results) : results[i].events # "empty"

\* Deviation: the events of a committed transaction are returned.
QueryFindsEvents(result) == IF result.sequence < committed THEN "events" ELSE "empty"

\* query_events_from_txs: whether the node finds the transaction or not, the
\* list of its events is empty; an error of the query is passed over as well.
QueryEventsFromTxs(result) == "empty"

\* What an attempt makes of a result: a rejected one gets a ChainError.
Settled(result) ==
    CASE result.events # "empty" -> result.events
      [] result.events = "empty" /\ ~result.accepted -> "error"
      [] OTHER -> QueryEventsFromTxs(result)

\* Deviations of OutOfPolls: one attempt less; and one attempt after another.
OneLessPoll == polls <= 1
NeverOut    == FALSE
OutOfPolls  == polls = 0

\* Deviation: an attempt that settles nothing is repeated at no cost.
PollForFree ==
    /\ pc = "poll"
    /\ IF AllTxResultsFound THEN Return("ok") ELSE UNCHANGED <<pc, answer>>
    /\ results' = [i \in 1..Len(results) |-> [results[i] EXCEPT !.events = Settled(results[i])]]
    /\ UNCHANGED <<rpcTimeout, batching, sequence, gas, waits, calls, chain>>

\* One attempt.  What it settles is noticed by the next one only.
Poll ==
    /\ pc = "poll"
    /\ IF AllTxResultsFound
       THEN Return("ok") /\ UNCHANGED <<results, waits>>
       ELSE /\ results' = [i \in 1..Len(results) |->
                              [results[i] EXCEPT !.events = Settled(results[i])]]
            /\ IF OutOfPolls
               THEN Return("no confirmation") /\ UNCHANGED waits
               ELSE polls' = polls - 1 /\ slept' = slept + Backoff /\ UNCHANGED <<pc, answer>>
    /\ UNCHANGED <<rpcTimeout, batching, sequence, gas, calls, chain>>

CallStep ==
    \/ SendMsgs \/ Push
    \/ QueryAccount \/ Simulate \/ Broadcast \/ BroadcastFails
    \/ Poll

--------------------------------------------------------------------------------
(***************************************************************************)
(* The chain.                                                              *)
(***************************************************************************)
CommitBlock == \E n \in 1..waiting :
    /\ committed' = committed + n /\ waiting' = waiting - n
    /\ UNCHANGED <<rpcTimeout, pc, batching, sequence, results, gas, waits, answer, calls, rivals>>

RivalSends ==
    /\ rivals < MaxRivals
    /\ rivals' = rivals + 1 /\ waiting' = waiting + 1
    /\ UNCHANGED <<rpcTimeout, pc, batching, sequence, results, gas, waits, answer, calls, committed>>

Next == CallStep \/ CommitBlock \/ RivalSends

Spec == Init /\ [][Next]_vars

(***************************************************************************)
(* Fairness: the thread that runs the call is scheduled, and the node      *)
(* answers every request, with an error if need be.                        *)
(***************************************************************************)
Fairness ==
    WF_vars(Push \/ QueryAccount \/ Simulate \/ Broadcast \/ BroadcastFails \/ Poll)

FairSpec == Spec /\ Fairness
--------------------------------------------------------------------------------
(***************************************************************************)
(* Properties                                                              *)
(***************************************************************************)
Tx == [msgs : Seq(Nat), sequence : Nat, accepted : BOOLEAN,
       events : {"empty", "error", "events"}]

\* The variables keep their types.
TypeOK ==
    /\ pc \in {"idle", "push", "account", "simulate", "broadcast", "poll"}
    /\ msgs \in Seq(Nat) /\ pushed \in 0..Len(msgs) /\ batch \in Seq(1..Len(msgs))
    /\ sequence \in Nat /\ results \in Seq(Tx) 
    /\ rpcTimeout \in RpcTimeouts /\ gas \in 0..MaxGas
    /\ polls \in 0..Delays /\ slept \in Nat
    /\ answer \in Answers /\ calls \in 0..MaxCalls
    /\ committed \in Nat /\ waiting \in Nat /\ rivals \in 0..MaxRivals

\* No message is lost, sent twice or overtaken by the cutting: every broadcast
\* transaction goes on where the one before it ended, and the open batch where
\* the last one did, up to the messages pushed so far; a call that is answered
\* by Ok or TxNoConfirmation broadcast all of them.
EndOf(n)      == IF n = 0 THEN 0 ELSE Last(results[n].msgs)
RunFrom(b, n) == \A j \in 1..Len(b) : b[j] = n + j
MessagesKept ==
    /\ \A i \in 1..Len(results) :
         results[i].msgs # <<>> /\ RunFrom(results[i].msgs, EndOf(i - 1))
    /\ RunFrom(batch, EndOf(Len(results))) /\ pushed = EndOf(Len(results)) + Len(batch)
    /\ answer \in {"ok", "no confirmation"} => EndOf(Len(results)) = Len(msgs)

\* A transaction ends with the message that reaches a limit, not before it and
\* not after it; only the last one of a call may end before.
ReachesLimit(b) == Len(b) >= MaxMsgNum \/ Size(b) >= MaxTxSize
CutAtTheLimit ==
    \A i \in 1..Len(results) :
        LET b == results[i].msgs IN
        /\ Len(b) > 1 => ~ReachesLimit(Front(b))
        /\ ReachesLimit(b) \/ (i = Len(results) /\ pushed = Len(msgs))

\* As the account is asked for anew before every transaction, and the node
\* answers from the last block, a transaction is accepted only when every
\* earlier one of the call is in a block: the sequence that send_tx increments
\* at its end is never used.
InBlock(r) == r.accepted /\ r.sequence < committed
OneTxPerBlock ==
    [][Len(results') > Len(results) /\ results'[Len(results')].accepted
         => \A i \in 1..Len(results) : results[i].accepted => InBlock(results[i])]_vars

\* Ok is the answer to a call none of whose transactions the node accepted:
\* the events it carries are ChainErrors only.
OkMeansRejected ==
    answer = "ok" => \A i \in 1..Len(results) : ~results[i].accepted /\ results[i].events = "error"

\* TxNoConfirmation is the answer only when the node accepted a transaction of
\* the call that is not settled, unless rpc_timeout is below one delay: the only
\* attempt there is settles the rejected ones, and none is left to notice it.
NoConfirmationIsTrue ==
    answer = "no confirmation" /\ rpcTimeout >= Backoff
        => \E i \in 1..Len(results) : results[i].accepted /\ results[i].events = "empty"

\* No call sleeps for longer than rpc_timeout and the first wait; and one that
\* gives up slept for that long, but for less than a delay.  (One that does not
\* give up may end at any attempt.)
GivesUpInTime ==
    /\ slept <= rpcTimeout + FirstWait
    /\ answer = "no confirmation" => slept + Backoff > rpcTimeout + FirstWait

\* What is broadcast may use at least the gas its simulation used and at most
\* max_gas, and does not cost more than max_gas does.
FeeCovered ==
    pc = "broadcast" =>
        /\ gas <= AdjustedGas(gas) /\ AdjustedGas(gas) <= MaxGas
        /\ CalculateFee(AdjustedGas(gas)) <= CalculateFee(MaxGas)

\* Every call comes to an end, by an answer or a panic.
EveryCallEnds == pc # "idle" ~> pc = "idle"

\* The doc of send_msgs: the messages "are split in transactions such they
\* don't exceed the configured maximum number of messages per transaction and
\* the maximum transaction size", when each message alone fits.
SizeRespected ==
    \A i \in 1..Len(results) :
        (\A m \in 1..Len(msgs) : msgs[m] <= MaxTxSize) => Size(results[i].msgs) <= MaxTxSize

\* The doc of ChainHandle::send_msgs: it returns "the list of events emitted by
\* the chain after the transaction was committed".
OkMeansCommitted == answer = "ok" => \A i \in 1..Len(results) : InBlock(results[i])
================================================================================
