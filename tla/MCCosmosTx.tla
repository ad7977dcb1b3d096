------------------------------- MODULE MCCosmosTx -------------------------------
(***************************************************************************)
(* Instances of CosmosTx for TLC: the lists of messages, by their sizes.   *)
(***************************************************************************)
EXTENDS CosmosTx

\* Nothing; less than a transaction; two transactions by number of messages;
\* two and three by size, with messages that overshoot the limit.
MixedLists == {<<>>, <<1>>, <<1, 1, 1>>, <<2, 2, 1>>, <<3, 1, 4, 1, 1>>}

OneList == {<<2, 2>>}

\* In milliseconds, on both sides of what is worth one delay, and two; zero is
\* the default.
Timeouts == {0, 299, 300, 599, 600}
OneDelay == {300}

\* Below max_gas, at max_gas where the adjustment has no room, and above.
GasUsed == {15, 100, 101}
================================================================================
