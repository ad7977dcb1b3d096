----------------------------- MODULE TryGroupWhile -----------------------------
(***************************************************************************)
(* The stream combinator of util/stream.rs, as pure operators.  The        *)
(* generator's `state` is None or Some(State { cur, group }); it is the    *)
(* sequence  group \o <<cur>>  here, and <<>> for None.  The grouping      *)
(* predicate is the one its caller passes (h0 == h1), so an element is a   *)
(* record with a height.                                                   *)
(*                                                                         *)
(* Each operator is one turn of the generator's loop: what is pending      *)
(* after it, and which results it yields, in order.  A yielded result is   *)
(* a group or an error.                                                    *)
(***************************************************************************)
EXTENDS Naturals, Sequences

Group(events) == [kind |-> "group", events |-> events]
Failure(kind) == [kind |-> kind,    events |-> <<>>]

\* `group_these(&state.cur, &x)`
SameGroup(pending, x) == pending[Len(pending)].height = x.height

\* Deviation: the state is taken when a group closes, and not put back.
ForgetsTheNewcomer(pending, x) ==
    IF pending = <<>> THEN <<x>>
    ELSE IF SameGroup(pending, x) THEN Append(pending, x) ELSE <<>>

\* Ok(x): a new element opens a group, joins the open one, or closes it.
PendingAfterItem(pending, x) ==
    IF pending # <<>> /\ SameGroup(pending, x) THEN Append(pending, x) ELSE <<x>>

\* Deviation: nothing is yielded before the input ends.
YieldsNothingYet(pending, x) == <<>>

YieldedOnItem(pending, x) ==
    IF pending = <<>> \/ SameGroup(pending, x) THEN <<>> ELSE <<Group(pending)>>

\* Err(e): the state is taken, `group` and `cur` are yielded one after the
\* other as two groups, then the error.
YieldedOnError(pending, e) ==
    LET n == Len(pending) IN
    CASE n = 0 -> <<Failure(e)>>
      [] n = 1 -> <<Group(pending), Failure(e)>>
      [] OTHER -> <<Group(SubSeq(pending, 1, n - 1)),
                    Group(<<pending[n]>>),
                    Failure(e)>>

\* The input ended: the open group is yielded whole.
YieldedAtEnd(pending) == IF pending = <<>> THEN <<>> ELSE <<Group(pending)>>

================================================================================
