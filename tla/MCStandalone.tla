------------------------------ MODULE MCStandalone ------------------------------
(***************************************************************************)
(* Instances for TLC of the parts that need no other part: the files of    *)
(* the keys and of the configuration, the extraction of a Tx event, and    *)
(* the delays of a retry.  They share nothing, so a behaviour is one of a  *)
(* single part.                                                            *)
(***************************************************************************)
EXTENDS KeyRing

CONSTANTS MaxStores, Txs

VARIABLES
    part,                                                       \* the part that moves
    file, storing, stores, cut, loaded,                         \* of ConfigFile
    chain, tx, indices, handled, outcome, read,                 \* of Extraction
    plan, delay, grow, elapsed, waited, count, ended            \* of RetryDelays

Config  == INSTANCE ConfigFile
Extract == INSTANCE Extraction WITH reads <- read
Retry   == INSTANCE RetryDelays

ASSUME StandaloneAssumption == MaxStores \in Nat /\ Txs \subseteq Seq(Extract!Message)

keyVars     == vars
configVars  == <<file, storing, stores, cut, loaded>>
extractVars == <<chain, tx, indices, handled, outcome, read>>
retryVars   == <<plan, delay, grow, elapsed, waited, count, ended>>
allVars     == <<part, keyVars, configVars, extractVars, retryVars>>

(***************************************************************************)
(* Four names with three files: "k" and "k.a" have the file k.json, and    *)
(* "k.a.b" has k.a.json, whose stem is the name of the former.             *)
(***************************************************************************)
FourNames == {<<"k">>, <<"k", "a">>, <<"k", "a", "b">>, <<"m">>}
TheKey    == <<"k">>

(***************************************************************************)
(* Transactions of up to three messages: a request and its report; packets *)
(* that are answered, answered without success, refused (no answer), and   *)
(* answered with success but no price; a request, a report and a packet    *)
(* that do not parse; and a transfer, which sends a packet of its own      *)
(* kind.                                                                   *)
(***************************************************************************)
Msg(action, emits, sound, success) ==
    [action |-> action, emits |-> emits, sound |-> sound, success |-> success]
Messages ==
    { Msg("OracleRequest", {"send_packet"}, TRUE, FALSE),
      Msg("report", {"report"}, TRUE, FALSE),
      Msg("recv_packet", {"recv_packet", "answer", "price"}, TRUE, TRUE),
      Msg("recv_packet", {"recv_packet", "answer"}, TRUE, FALSE),
      Msg("recv_packet", {"recv_packet"}, TRUE, FALSE),
      Msg("recv_packet", {"recv_packet", "answer"}, TRUE, TRUE),
      Msg("OracleRequest", {"send_packet"}, FALSE, FALSE),
      Msg("report", {"report"}, FALSE, FALSE),
      Msg("recv_packet", {"recv_packet"}, FALSE, FALSE),
      Msg("other", {"send_packet"}, FALSE, FALSE) }
UpToThree == UNION {[1..n -> Messages] : n \in 0..3}
NoTx      == <<>>

(***************************************************************************)
(* Strategies: small ones of both kinds with both limits; that of the test *)
(* of retry.rs, in units of 100 ms; and that of the event monitor, in      *)
(* seconds.                                                                *)
(***************************************************************************)
MakePlan(growth, first, incr, max, limit, bound) ==
    [growth |-> growth, first |-> first, incr |-> incr,
     max_delay |-> max, limit |-> limit, bound |-> bound]
TestPlan    == MakePlan("constant", 2, 1, 5, "total", 20)
MonitorPlan == MakePlan("fibonacci", 1, 0, 60, "total", 600)
SmallPlans  ==
    { MakePlan(growth, first, incr, max, limit, bound) :
        growth \in {"constant", "fibonacci"}, first \in 1..3, incr \in 0..2,
        max \in 1..4, limit \in {"total", "retries"}, bound \in 0..5 }
Plans == {TestPlan, MonitorPlan} \cup SmallPlans

--------------------------------------------------------------------------------
AllInit ==
    /\ part \in {"signing", "listing", "config", "extraction", "retry"}
    /\ Init /\ Config!Init
    /\ IF part = "extraction" THEN Extract!Init
       ELSE Extract!Init /\ tx = NoTx /\ chain = "other"
    /\ \E p \in Plans : (part # "retry" => p = TestPlan) /\ Retry!Start(p)

\* Who signs and who lists only read the folder, and are run apart.
KeyStep ==
    /\ \/ part \in {"signing", "listing"} /\ AddStep
       \/ part = "signing" /\ SendStep
       \/ part = "listing" /\ ListStep
    /\ UNCHANGED <<part, configVars, extractVars, retryVars>>

ConfigStep  == part = "config" /\ Config!Next /\ UNCHANGED <<part, keyVars, extractVars, retryVars>>
ExtractStep == part = "extraction" /\ Extract!Next /\ UNCHANGED <<part, keyVars, configVars, retryVars>>
RetryStep   == part = "retry" /\ Retry!Next /\ UNCHANGED <<part, keyVars, configVars, extractVars>>

AllNext == KeyStep \/ ConfigStep \/ ExtractStep \/ RetryStep

AllSpec == AllInit /\ [][AllNext]_allVars
--------------------------------------------------------------------------------
\* The type invariants of the parts.
TypesOK ==
    /\ part \in {"signing", "listing"} => TypeOK
    /\ part = "config" => Config!TypeOK
    /\ part = "extraction" => Extract!TypeOK
    /\ part = "retry" => Retry!TypeOK

\* See ConfigFile, Extraction and RetryDelays.
LoadsWhatWasStored == Config!LoadsWhatWasStored
OwnValuesRead      == Extract!OwnValuesRead
LimitsKept         == Retry!LimitsKept

\* The strategies of the code and of its test end after the delays the code
\* counts on: the monitor has 18 of them (MaxDelays of EventMonitor).
DelaysCounted ==
    ended => /\ plan = MonitorPlan => count = 18
             /\ plan = TestPlan => count = 6
================================================================================
