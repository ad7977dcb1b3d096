------------------------------- MODULE ConfigFile -------------------------------
(***************************************************************************)
(* The configuration file of config.rs: store truncates it, serializes the *)
(* configuration and writes the text; load reads and parses it.  Nothing   *)
(* keeps another program, or another thread, from loading it meanwhile, or *)
(* the program from being stopped in the middle.                           *)
(*                                                                         *)
(* A text is a prefix of that of a configuration.  Every table of a        *)
(* configuration has a default or may be missing, and so may the optional  *)
(* keys at the end of a chain: many a prefix is a configuration, too.      *)
(***************************************************************************)
EXTENDS Naturals

CONSTANT MaxStores      \* bound: calls of store

VARIABLES
    file,       \* the text in the file
    storing,    \* where store is
    stores,     \* calls of store so far; the n-th stores configuration n
    cut,        \* the calls that did not write their text completely
    loaded      \* what the last load gave

vars == <<file, storing, stores, cut, loaded>>

\* Where a text may end: at once, behind the global tables, behind the keys of
\* the last chain that must be there, anywhere else, or at its end.
Ends == {"empty", "no chain", "no gas price", "torn", "whole"}
Text == [of : 0..MaxStores, end : Ends]

\* A configuration is its text, as far as it can be parsed.
Error == [of |-> 0, end |-> "error"]

\* toml::from_str.
Parse(text) == IF text.end = "torn" THEN Error ELSE text

Init ==
    /\ file = [of |-> 0, end |-> "whole"]
    /\ storing = "no" /\ stores = 0 /\ cut = {}
    /\ loaded = Error

--------------------------------------------------------------------------------
\* store: the file is created, or truncated.
OpenFile ==
    /\ storing = "no" /\ stores < MaxStores
    /\ storing' = "open" /\ stores' = stores + 1
    /\ file' = [of |-> stores', end |-> "empty"]
    /\ cut' = cut \cup {stores'}
    /\ UNCHANGED loaded

\* Deviation: the error of the writer is not looked at.
WriteUnchecked == \E end \in Ends :
    /\ storing = "open" /\ storing' = "no"
    /\ file' = [file EXCEPT !.end = end]
    /\ cut' = cut \ {stores}
    /\ UNCHANGED <<stores, loaded>>

\* store_writer: the whole text, and Ok.
WriteConfig ==
    /\ storing = "open" /\ storing' = "no"
    /\ file' = [file EXCEPT !.end = "whole"]
    /\ cut' = cut \ {stores}
    /\ UNCHANGED <<stores, loaded>>

\* The configuration cannot be serialized, the disk is full or the program is
\* stopped: an error, or no answer at all.
StoreCutShort == \E end \in Ends :
    /\ storing = "open" /\ storing' = "no"
    /\ file' = [file EXCEPT !.end = end]
    /\ UNCHANGED <<stores, cut, loaded>>

Load ==
    /\ loaded' = Parse(file)
    /\ UNCHANGED <<file, storing, stores, cut>>

Next == OpenFile \/ WriteConfig \/ StoreCutShort \/ Load

Spec == Init /\ [][Next]_vars
--------------------------------------------------------------------------------
TypeOK ==
    /\ file \in Text /\ loaded \in Text \cup {Error}
    /\ storing \in {"no", "open"} /\ stores \in 0..MaxStores /\ cut \subseteq 1..stores

\* A load gives what the last store stored, and gives it whole, once that
\* store was answered by Ok and until the next begins.  (While a store is under
\* way, and after one that was cut short, it may give the defaults, without any
\* chain, or a chain without its gas price, and no error: an empty file is a
\* configuration.  What was stored before is gone.)
LoadsWhatWasStored ==
    [][loaded' # loaded => stores \in cut \/ loaded' = [of |-> stores, end |-> "whole"]]_vars
================================================================================
