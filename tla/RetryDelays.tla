------------------------------ MODULE RetryDelays ------------------------------
(***************************************************************************)
(* The delays of util/retry.rs: an endless strategy, ConstantGrowth or the *)
(* Fibonacci of the retry crate, whose delays are clamped to max_delay and *)
(* limited by their total (clamp_total) or by their number (clamp).  A     *)
(* step is a call of the iterator's next; who retries makes one after      *)
(* every failure, until it gives None.                                     *)
(*                                                                         *)
(* A strategy is its next delay and what the one after it will be longer   *)
(* by: for ConstantGrowth that is incr, for Fibonacci the delay before.    *)
(***************************************************************************)
EXTENDS Naturals

VARIABLES
    plan,       \* the strategy and its limits
    delay,      \* the delay that the strategy gives next
    grow,       \* what the one after it will be longer by
    elapsed,    \* what clamp_total has counted
    waited,     \* the sum of the delays given
    count,      \* how many there were
    ended       \* whether None was given

vars == <<plan, delay, grow, elapsed, waited, count, ended>>

\* `bound` is max_total_delay or max_retries.
Plan == [growth : {"constant", "fibonacci"}, first : Nat, incr : Nat,
         max_delay : Nat, limit : {"total", "retries"}, bound : Nat]

\* A new iterator.  Fibonacci::from(d) gives d, d, 2d, 3d, 5d ...
Start(p) ==
    /\ plan = p /\ delay = p.first
    /\ grow = IF p.growth = "constant" THEN p.incr ELSE 0
    /\ elapsed = 0 /\ waited = 0 /\ count = 0 /\ ended = FALSE

Init == \E p \in Plan : Start(p)

--------------------------------------------------------------------------------
Clamped == IF delay <= plan.max_delay THEN delay ELSE plan.max_delay

\* The strategy moves on.
Advance ==
    /\ delay' = delay + grow
    /\ grow' = IF plan.growth = "constant" THEN grow ELSE delay

Give(d) == waited' = waited + d /\ count' = count + 1 /\ UNCHANGED ended
Stop    == ended' = TRUE /\ UNCHANGED <<waited, count>>

\* Deviation: the delay that exceeds the total is given as it is.
NextUncut ==
    /\ ~ended /\ plan.limit = "total"
    /\ IF elapsed >= plan.bound THEN Stop ELSE Give(Clamped)
    /\ elapsed' = elapsed + Clamped
    /\ Advance /\ UNCHANGED plan

\* Deviation: the delay of the strategy is counted, not the clamped one.
NextCountingAll ==
    /\ ~ended /\ plan.limit = "total"
    /\ IF elapsed >= plan.bound
       THEN Stop
       ELSE Give(IF elapsed + Clamped > plan.bound THEN plan.bound - elapsed ELSE Clamped)
    /\ elapsed' = elapsed + delay
    /\ Advance /\ UNCHANGED plan

\* clamp_total: what is counted is the clamped delay, also when less of it, or
\* nothing, is given.
NextWithinTotal ==
    /\ ~ended /\ plan.limit = "total"
    /\ IF elapsed >= plan.bound
       THEN Stop
       ELSE Give(IF elapsed + Clamped > plan.bound THEN plan.bound - elapsed ELSE Clamped)
    /\ elapsed' = elapsed + Clamped
    /\ Advance /\ UNCHANGED plan

\* clamp: the strategy is not asked for more than max_retries delays.
NextWithinRetries ==
    /\ ~ended /\ plan.limit = "retries"
    /\ IF count = plan.bound
       THEN Stop /\ UNCHANGED <<delay, grow>>
       ELSE Give(Clamped) /\ Advance
    /\ UNCHANGED <<plan, elapsed>>

Next == NextWithinTotal \/ NextWithinRetries

Spec == Init /\ [][Next]_vars
--------------------------------------------------------------------------------
TypeOK ==
    /\ plan \in Plan /\ ended \in BOOLEAN
    /\ {delay, grow, elapsed, waited, count} \subseteq Nat

\* The delays of clamp_total never add up to more than max_total_delay, and to
\* exactly that when they end; those of clamp are max_retries.  What is counted
\* exceeds the total by less than two delays: if that much is a Duration, the
\* additions, which nothing checks, do not overflow.
LimitsKept ==
    /\ plan.limit = "total" =>
         /\ waited <= plan.bound /\ (ended => waited = plan.bound)
         /\ elapsed <= plan.bound + 2 * plan.max_delay
    /\ plan.limit = "retries" => count <= plan.bound /\ (ended => count = plan.bound)

\* What was given is what was counted, up to the total.
Counted ==
    plan.limit = "total" =>
        /\ elapsed <= plan.bound => waited = elapsed
        /\ elapsed >= plan.bound => waited = plan.bound
        /\ ended => elapsed >= plan.bound
        /\ ~ended => elapsed <= plan.bound + plan.max_delay

\* No delay is longer than max_delay, whatever the strategy has grown to.
DelaysClamped == [][waited' <= waited + plan.max_delay]_vars
================================================================================
