------------------------------- MODULE Extraction -------------------------------
(***************************************************************************)
(* What extract_rpc_event (subscribe/transform.rs) makes of a Tx event.    *)
(* The node merges the events of all messages of a transaction into one    *)
(* map: for each attribute, the values in the order in which the messages  *)
(* emitted it.  extract_helper numbers the messages of each action, and    *)
(* that number is used as the index into the attributes.                   *)
(*                                                                         *)
(* A message is its action, the attributes it emits, each once, whether    *)
(* the value that its handler parses does parse, and whether it emits the  *)
(* status of a success.  A value of an attribute is the message that       *)
(* emitted it.  The handler of a message only prints: it goes well or      *)
(* panics, and a panic ends the monitor's thread (the item "poison" of     *)
(* EventMonitor).  The node adds tx.height and tx.hash to every Tx event   *)
(* itself: that they are there, and the height is a number, is assumed.    *)
(***************************************************************************)
EXTENDS Naturals, Sequences, FiniteSets

CONSTANT Txs            \* the transactions: sequences of messages

VARIABLES
    chain,      \* chain_id
    tx,         \* the messages of the transaction
    indices,    \* val_indices: how many messages of an action there were
    handled,    \* how many messages were handled
    reads,      \* what the handler read: message |-> attribute |-> its value
    outcome     \* "running", "ok" or "panic"

vars == <<chain, tx, indices, handled, reads, outcome>>

\* Of the attributes that belong together ("recv_packet.packet_sequence",
\* "recv_packet.packet_data" ...) there are as many, and one stands for all;
\* "answer" is request.id, with request.client_id, on the band chain, and
\* fx.oracle.MsgOracleRequest.status on the other; "price" is the price update.
Attributes == {"send_packet", "report", "recv_packet", "answer", "price"}
Actions    == {"OracleRequest", "report", "recv_packet", "other"}

Init ==
    /\ chain \in {"bandchain", "fxdex", "other"} /\ tx \in Txs
    /\ indices = [a \in Actions |-> 0] /\ handled = 0
    /\ reads = <<>> /\ outcome = "running"

--------------------------------------------------------------------------------
\* events.get(attribute): the messages that emitted it, the n-th of which has its
\* n-th value, unless that is missing: an index out of bounds.
Values(attribute)     == {i \in 1..Len(tx) : attribute \in tx[i].emits}
Missing(attribute, n) == Cardinality(Values(attribute)) < n
Nth(attribute, n)     ==
    CHOOSE i \in Values(attribute) : Cardinality({j \in Values(attribute) : j <= i}) = n

\* The attribute that belongs to an action, and those a handler reads by index.
OwnAttribute == [OracleRequest |-> "send_packet", report |-> "report",
                 recv_packet |-> "recv_packet"]
ReadBy(action) ==
    CASE action = "other" -> {}
      [] action = "recv_packet" /\ chain # "other" /\ Values("answer") # {}
            -> {"recv_packet", "answer"}
      [] OTHER -> {OwnAttribute[action]}

\* The unwraps of the n-th message of an action: the values themselves; what is
\* parsed of its own attribute - the packet data of an OracleRequest and three
\* numbers in it, the id of a report, the packet data of a recv_packet -; and the
\* price update of an answered packet.
Panics(action, n) ==
    \/ \E attribute \in ReadBy(action) : Missing(attribute, n)
    \/ action # "other" /\ ~tx[Nth(OwnAttribute[action], n)].sound
    \/ action = "recv_packet" /\ chain = "fxdex" /\ "answer" \in ReadBy(action)
         /\ tx[Nth("answer", n)].success /\ Values("price") = {}

\* One turn for every message, with the n-th place of its attributes.
HandleNth(message, n) ==
    /\ outcome = "running" /\ handled < Len(tx)
    /\ indices' = [indices EXCEPT ![message.action] = @ + 1]
    /\ IF Panics(message.action, n)
       THEN outcome' = "panic" /\ UNCHANGED <<handled, reads>>
       ELSE /\ reads' = Append(reads, [a \in ReadBy(message.action) |-> Nth(a, n)])
            /\ handled' = handled + 1
            /\ UNCHANGED outcome
    /\ UNCHANGED <<chain, tx>>

\* Deviation: all messages are numbered together.
HandleByPlace == HandleNth(tx[handled + 1], handled + 1)

Handle == HandleNth(tx[handled + 1], indices[tx[handled + 1].action] + 1)

AllHandled ==
    /\ outcome = "running" /\ handled = Len(tx)
    /\ outcome' = "ok"
    /\ UNCHANGED <<chain, tx, indices, handled, reads>>

Next == Handle \/ AllHandled

Spec == Init /\ [][Next]_vars
--------------------------------------------------------------------------------
Message == [action : Actions, emits : SUBSET Attributes, sound : BOOLEAN, success : BOOLEAN]

TypeOK ==
    /\ tx \in Seq(Message) /\ handled \in 0..Len(tx)
    /\ indices \in [Actions -> 0..Len(tx)]
    /\ Len(reads) = handled /\ outcome \in {"running", "ok", "panic"}

\* The values that a handler reads are those of its own message, and it does
\* not panic, as long as, up to this message, exactly the messages of its action
\* emitted the attributes it reads (and its packet and its price are in order).
\* It takes one packet that is not answered, or one sent by a message of another
\* kind, for the values of one message to be read as those of another, or for
\* the thread to panic.
Regular(i, attribute) ==
    \A j \in 1..i : tx[j].action = tx[i].action <=> attribute \in tx[j].emits
InOrder(i) ==
    /\ \A attribute \in ReadBy(tx[i].action) : Regular(i, attribute)
    /\ tx[i].sound /\ (tx[i].success => "price" \in tx[i].emits)
OwnValuesRead ==
    /\ \A i \in 1..handled : \A a \in DOMAIN reads[i] : Regular(i, a) => reads[i][a] = i
    /\ outcome = "panic" => ~InOrder(handled + 1)
================================================================================
