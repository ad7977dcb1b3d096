----------------------------- MODULE SequenceFacts -----------------------------
(***************************************************************************)
(* What the proofs of the components need to know of sequences.            *)
(***************************************************************************)
EXTENDS Sequences, Integers, SequenceTheorems, TLAPS

\* A sequence is empty, a singleton or longer.
LEMMA LenCases ==
    ASSUME NEW S, NEW s \in Seq(S)
    PROVE  /\ s = <<>> \/ Len(s) = 1 \/ Len(s) > 1
           /\ s = <<>> <=> Len(s) = 0
<1>1. Len(<<>>) = 0 /\ (s # <<>> => Len(s) \in Nat \ {0})
  BY EmptySeq
<1>2. ASSUME NEW n \in Nat \ {0} PROVE n = 1 \/ n > 1
  OBVIOUS
<1> QED BY <1>1, <1>2

\* Taking the head off a sequence moves the other elements one place down.
LEMMA TailElements ==
    ASSUME NEW S, NEW s \in Seq(S), s # <<>>
    PROVE  /\ Head(s) = s[1] /\ s[1] \in S /\ Tail(s) \in Seq(S)
           /\ Len(s) \in Nat /\ Len(s) >= 1
           /\ Len(Tail(s)) = Len(s) - 1
           /\ \A i \in 1..Len(Tail(s)) : Tail(s)[i] = s[i + 1]
  BY HeadTailProperties, LenProperties, EmptySeq

\* Appending leaves the elements in place and puts the new one last.
LEMMA AppendElements ==
    ASSUME NEW S, NEW s \in Seq(S), NEW e \in S
    PROVE  /\ Append(s, e) \in Seq(S)
           /\ Len(s) \in Nat /\ Len(Append(s, e)) = Len(s) + 1
           /\ \A i \in 1..Len(s) : Append(s, e)[i] = s[i]
           /\ Append(s, e)[Len(s) + 1] = e
  BY AppendProperties, LenProperties

\* Overwriting an element in place.
LEMMA UpdateElement ==
    ASSUME NEW S, NEW s \in Seq(S), NEW i \in 1..Len(s), NEW e \in S
    PROVE  /\ [s EXCEPT ![i] = e] \in Seq(S)
           /\ Len([s EXCEPT ![i] = e]) = Len(s) /\ Len(s) \in Nat
           /\ \A j \in 1..Len(s) : [s EXCEPT ![i] = e][j] = IF j = i THEN e ELSE s[j]
  BY ExceptSeq, LenProperties

\* A sequence of one element.
LEMMA SingletonSeq ==
    ASSUME NEW S, NEW e \in S
    PROVE  <<e>> \in Seq(S) /\ Len(<<e>>) = 1 /\ <<e>>[1] = e
  OBVIOUS
================================================================================
