---------------------------- MODULE StandaloneProofs ----------------------------
(***************************************************************************)
(* Theorems about the parts that need no other: the extraction of an       *)
(* event, for every set of transactions; the configuration file, for any   *)
(* number of stores; the delays of a retry, for every strategy; and that   *)
(* what the parts promise holds when they are put side by side, as         *)
(* MCStandalone does.  The folder of the keys is in KeyRingProofs.         *)
(***************************************************************************)
EXTENDS MCStandalone, KeyRingProofs, FiniteSetTheorems

--------------------------------------------------------------------------------
(***************************************************************************)
(* The extraction of an event.                                             *)
(***************************************************************************)

\* The messages of an action, up to the i-th; and how far the numbering came: a
\* handler that panics has its number already.
Before(a, i) == {j \in 1..i : tx[j].action = a}
Numbering    == IF outcome = "panic" THEN handled + 1 ELSE handled

\* What a handler may have read.
Value   == {Extract!Nth(a, n) : a \in Extract!Attributes, n \in Nat}
Reading == UNION {[A -> Value] : A \in SUBSET Extract!Attributes}

\* Each action has had as many indices as there were messages of it.
EInv ==
    /\ tx \in Seq(Extract!Message) /\ handled \in 0..Len(tx)
    /\ outcome \in {"running", "ok", "panic"} /\ (outcome = "panic" => handled < Len(tx))
    /\ read \in Seq(Reading) /\ Len(read) = handled
    /\ indices = [a \in Extract!Actions |-> Cardinality(Before(a, Numbering))]
    /\ OwnValuesRead

LEMMA SameCardinality == \A S : Extract!Cardinality(S) = Cardinality(S)
  BY DEF Extract!Cardinality, Cardinality

\* How many there are of an action, message by message.
LEMMA BeforeCounts ==
    ASSUME NEW a, NEW i \in Nat
    PROVE  /\ IsFiniteSet(Before(a, i)) /\ Cardinality(Before(a, i)) \in 0..i
           /\ Cardinality(Before(a, 0)) = 0
           /\ Cardinality(Before(a, i + 1)) =
                Cardinality(Before(a, i)) + IF tx[i + 1].action = a THEN 1 ELSE 0
<1>1. IsFiniteSet(1..i) /\ Cardinality(1..i) = i
  BY FS_Interval
<1>2. Before(a, i) \subseteq 1..i
  BY DEF Before
<1>3. IsFiniteSet(Before(a, i)) /\ Cardinality(Before(a, i)) \in Nat
      /\ Cardinality(Before(a, i)) <= i
  BY <1>1, <1>2, FS_Subset, FS_CardinalityType
<1>4. Before(a, 0) = {}
  BY DEF Before
<1>5. CASE tx[i + 1].action = a
  <2>1. Before(a, i + 1) = Before(a, i) \cup {i + 1} /\ i + 1 \notin Before(a, i)
    BY <1>5 DEF Before
  <2>2. Cardinality(Before(a, i + 1)) = Cardinality(Before(a, i)) + 1
    BY <1>3, <2>1, FS_AddElement
  <2> QED BY <1>3, <1>4, <1>5, <2>2, FS_EmptySet
<1>6. CASE tx[i + 1].action # a
  <2>1. Before(a, i + 1) = Before(a, i)
    BY <1>6 DEF Before
  <2> QED BY <1>3, <1>4, <1>6, <2>1, FS_EmptySet
<1> QED BY <1>5, <1>6

\* If, up to a message, those of its action are those that emitted an attribute,
\* the message's number among them is the place of its own value.
LEMMA OwnPlace ==
    ASSUME tx \in Seq(Extract!Message), NEW i \in 1..Len(tx), NEW a,
           Extract!Regular(i, a)
    PROVE  LET n == Cardinality(Before(tx[i].action, i))
           IN  ~Extract!Missing(a, n) /\ Extract!Nth(a, n) = i
<1> DEFINE V    == Extract!Values(a)
           n    == Cardinality(Before(tx[i].action, i))
           P(k) == {j \in V : j <= k}
<1>1. Len(tx) \in Nat /\ i \in Nat /\ V \subseteq 1..Len(tx)
  BY LenProperties DEF Extract!Values
<1>2. IsFiniteSet(V) /\ \A k \in V : IsFiniteSet(P(k))
  <2>1. IsFiniteSet(1..Len(tx))
    BY <1>1, FS_Interval
  <2> QED BY <1>1, <2>1, FS_Subset
<1>3. P(i) = Before(tx[i].action, i) /\ i \in V
  BY <1>1 DEF Before, Extract!Regular, Extract!Values
<1>4. ASSUME NEW k \in V, Cardinality(P(k)) = n PROVE k = i
  <2>1. CASE k < i
    <3>1. P(k) \subseteq P(i) /\ i \notin P(k) /\ i \in P(i)
      BY <1>1, <1>3, <2>1
    <3>2. P(k) = P(i)
      BY <1>2, <1>3, <1>4, <3>1, FS_Subset
    <3> QED BY <3>1, <3>2
  <2>2. CASE i < k
    <3>1. P(i) \subseteq P(k) /\ k \notin P(i) /\ k \in P(k)
      BY <1>1, <1>3, <2>2
    <3>2. P(i) = P(k)
      BY <1>2, <1>3, <1>4, <3>1, FS_Subset
    <3> QED BY <3>1, <3>2
  <2> QED BY <1>1, <2>1, <2>2
<1>5. Extract!Nth(a, n) = i
  <2>1. \A k \in V : Cardinality(P(k)) = n <=> k = i
    BY <1>3, <1>4
  <2> HIDE DEF n
  <2>2. Extract!Nth(a, n) = CHOOSE k \in V : Cardinality(P(k)) = n
    BY SameCardinality DEF Extract!Nth
  <2> QED BY <1>3, <2>1, <2>2
<1>6. ~Extract!Missing(a, n)
  <2>1. P(i) \subseteq V
    OBVIOUS
  <2>2. /\ Cardinality(V) \in Nat /\ Cardinality(P(i)) \in Nat
        /\ Cardinality(P(i)) <= Cardinality(V)
    BY <1>2, <1>3, <2>1, FS_Subset, FS_CardinalityType
  <2>3. n \in Nat /\ n <= Cardinality(V)
    BY <1>3, <2>2
  <2> HIDE DEF n, V
  <2>4. Extract!Missing(a, n) <=> Cardinality(V) < n
    BY SameCardinality DEF Extract!Missing, V
  <2> QED BY <2>2, <2>3, <2>4
<1> QED BY <1>5, <1>6

\* The handlers know what they read.
LEMMA ReadsAttributes ==
    ASSUME NEW action \in Extract!Actions
    PROVE  Extract!ReadBy(action) \subseteq Extract!Attributes
  BY DEF Extract!Actions, Extract!ReadBy, Extract!OwnAttribute, Extract!Attributes

LEMMA InitEInv == Extract!Init => EInv
<1> SUFFICES ASSUME Extract!Init PROVE EInv
  OBVIOUS
<1>1. tx \in Seq(Extract!Message) /\ Len(tx) \in Nat
  BY StandaloneAssumption, LenProperties DEF Extract!Init
<1>2. read \in Seq(Reading) /\ Len(read) = 0
  BY EmptySeq DEF Extract!Init
<1>3. indices = [a \in Extract!Actions |-> Cardinality(Before(a, Numbering))]
  <2>1. \A a : Cardinality(Before(a, 0)) = 0
    BY BeforeCounts
  <2> QED BY <2>1 DEF Extract!Init, Numbering
<1>4. OwnValuesRead
  BY DEF Extract!Init, OwnValuesRead, Extract!OwnValuesRead
<1> QED BY <1>1, <1>2, <1>3, <1>4 DEF EInv, Extract!Init

\* The message that is handled next reads its own values, and does not panic,
\* unless the attributes are not regular or it is out of order.
LEMMA NextMessage ==
    ASSUME EInv, outcome = "running", handled < Len(tx)
    PROVE  LET i == handled + 1
               n == indices[tx[i].action] + 1
           IN  /\ i \in 1..Len(tx) /\ tx[i] \in Extract!Message /\ n \in Nat
               /\ n = Cardinality(Before(tx[i].action, i))
               /\ Extract!Panics(tx[i].action, n) => ~Extract!InOrder(i)
<1> DEFINE i == handled + 1
           action == tx[i].action
           n == indices[action] + 1
<1>1. i \in 1..Len(tx) /\ tx[i] \in Extract!Message /\ handled \in Nat
  BY ElementOfSeq, LenProperties DEF EInv
<1>2. action \in Extract!Actions
  BY <1>1 DEF Extract!Message
<1>3. n = Cardinality(Before(action, i)) /\ n \in Nat
  <2>1. indices[action] = Cardinality(Before(action, handled))
    BY <1>2 DEF EInv, Numbering
  <2>2. /\ Cardinality(Before(action, handled)) \in Nat
        /\ Cardinality(Before(action, handled + 1)) = Cardinality(Before(action, handled)) + 1
    <3>1. Cardinality(Before(action, handled)) \in 0..handled
          /\ Cardinality(Before(action, handled + 1)) =
               Cardinality(Before(action, handled)) + IF tx[handled + 1].action = action
                                                       THEN 1 ELSE 0
      BY <1>1, BeforeCounts
    <3> QED BY <1>1, <3>1
  <2> QED BY <2>1, <2>2
<1>4. ASSUME Extract!InOrder(i) PROVE ~Extract!Panics(action, n)
  <2> HIDE DEF n
  <2>1. \A a \in Extract!ReadBy(action) : ~Extract!Missing(a, n) /\ Extract!Nth(a, n) = i
    <3> TAKE a \in Extract!ReadBy(action)
    <3>1. Extract!Regular(i, a)
      BY <1>4 DEF Extract!InOrder
    <3> QED BY <1>1, <1>3, <3>1, OwnPlace DEF EInv
  <2>2. action # "other" => Extract!OwnAttribute[action] \in Extract!ReadBy(action)
    BY <1>2 DEF Extract!Actions, Extract!ReadBy, Extract!OwnAttribute
  <2>3. tx[i].sound /\ (tx[i].success => i \in Extract!Values("price"))
    BY <1>1, <1>4 DEF Extract!InOrder, Extract!Values
  <2> QED BY <2>1, <2>2, <2>3 DEF Extract!Panics
<1> QED BY <1>1, <1>3, <1>4

\* What is defined by the transaction and the chain stays.
LEMMA SameTx ==
    ASSUME UNCHANGED <<tx, chain>>
    PROVE  /\ \A a, j : Before(a, j)' = Before(a, j)
           /\ Reading' = Reading
           /\ \A j, a : Extract!Regular(j, a)' <=> Extract!Regular(j, a)
           /\ \A j : Extract!InOrder(j)' <=> Extract!InOrder(j)
  BY DEF Before, Reading, Value, Extract!Nth, Extract!Values, Extract!Regular,
         Extract!InOrder, Extract!ReadBy

LEMMA StepEInv == EInv /\ [Extract!Next]_(Extract!vars) => EInv'
<1> SUFFICES ASSUME EInv, [Extract!Next]_(Extract!vars) PROVE EInv'
  OBVIOUS
<1>1. CASE UNCHANGED Extract!vars
  BY <1>1, SameTx DEF Extract!vars, EInv, OwnValuesRead, Extract!OwnValuesRead, Numbering
<1>2. CASE Extract!AllHandled
  BY <1>2, SameTx
  DEF Extract!AllHandled, EInv, OwnValuesRead, Extract!OwnValuesRead, Numbering
<1>3. CASE Extract!Handle
  <2> DEFINE i == handled + 1
             action == tx[i].action
             n == indices[action] + 1
             values == [a \in Extract!ReadBy(action) |-> Extract!Nth(a, n)]
  <2>1. outcome = "running" /\ handled < Len(tx) /\ tx' = tx /\ chain' = chain
        /\ indices' = [indices EXCEPT ![action] = n]
    BY <1>3 DEF Extract!Handle, Extract!HandleNth
  <2>2. /\ i \in 1..Len(tx) /\ tx[i] \in Extract!Message /\ n \in Nat
        /\ n = Cardinality(Before(action, i))
        /\ Extract!Panics(action, n) => ~Extract!InOrder(i)
    BY <2>1, NextMessage
  <2>3. handled \in Nat /\ Len(tx) \in Nat /\ action \in Extract!Actions
    BY <2>2, LenProperties DEF EInv, Extract!Message
  <2>4. /\ \A a, j : Before(a, j)' = Before(a, j)
        /\ Reading' = Reading
        /\ \A j, a : Extract!Regular(j, a)' <=> Extract!Regular(j, a)
        /\ \A j : Extract!InOrder(j)' <=> Extract!InOrder(j)
    BY <2>1, SameTx
  <2>5. Numbering' = i
          => indices' = [a \in Extract!Actions |-> Cardinality(Before(a, Numbering))]'
    <3>1. \A a \in Extract!Actions :
             indices'[a] = Cardinality(Before(a, i))
      <4> TAKE a \in Extract!Actions
      <4>1. indices[a] = Cardinality(Before(a, handled))
            /\ Cardinality(Before(a, handled)) \in Nat
        BY <2>1, <2>3, BeforeCounts DEF EInv, Numbering
      <4>2. CASE a = action
        BY <2>1, <2>2, <2>3, <4>2 DEF EInv
      <4>3. CASE a # action
        <5>1. indices'[a] = indices[a]
          BY <2>1, <4>3 DEF EInv
        <5> QED BY <2>3, <4>1, <4>3, <5>1, BeforeCounts
      <4> QED BY <4>2, <4>3
    <3>2. indices' = [a \in Extract!Actions |-> indices'[a]]
      BY <2>1 DEF EInv
    <3> QED BY <2>4, <3>1, <3>2
  <2>6. CASE Extract!Panics(action, n)
    <3>1. outcome' = "panic" /\ handled' = handled /\ read' = read
      BY <1>3, <2>6 DEF Extract!Handle, Extract!HandleNth
    <3>2. Numbering' = i
      BY <3>1 DEF Numbering
    <3>3. OwnValuesRead'
      BY <2>2, <2>4, <2>6, <3>1 DEF EInv, OwnValuesRead, Extract!OwnValuesRead
    <3> QED BY <2>1, <2>4, <2>5, <3>1, <3>2, <3>3 DEF EInv
  <2>7. CASE ~Extract!Panics(action, n)
    <3>1. outcome' = outcome /\ handled' = i /\ read' = Append(read, values)
      BY <1>3, <2>7 DEF Extract!Handle, Extract!HandleNth
    <3>2. Numbering' = i
      BY <2>1, <3>1 DEF Numbering
    <3>3. values \in Reading
      <4>1. values \in [Extract!ReadBy(action) -> Value]
        <5>1. Extract!ReadBy(action) \subseteq Extract!Attributes
          BY <2>3, ReadsAttributes
        <5> QED BY <2>2, <5>1 DEF Value
      <4> QED BY <2>3, <4>1, ReadsAttributes DEF Reading
    <3> HIDE DEF values
    <3>4. /\ read' \in Seq(Reading) /\ Len(read') = i
          /\ \A j \in 1..handled : read'[j] = read[j]
          /\ read'[i] = values
      BY <3>1, <3>3, AppendElements DEF EInv
    <3>5. OwnValuesRead'
      <4>1. ASSUME NEW j \in 1..i, NEW a \in DOMAIN read'[j], Extract!Regular(j, a)
            PROVE  read'[j][a] = j
        <5>1. CASE j = i
          <6>1. Extract!Nth(a, n) = i
            BY <2>2, <4>1, <5>1, OwnPlace DEF EInv
          <6> QED BY <3>4, <4>1, <5>1, <6>1 DEF values
        <5>2. CASE j # i
          <6>1. j \in 1..handled
            BY <2>3, <5>2
          <6> QED BY <3>4, <4>1, <6>1 DEF EInv, OwnValuesRead, Extract!OwnValuesRead
        <5> QED BY <5>1, <5>2
      <4> QED BY <2>1, <2>4, <3>1, <4>1 DEF OwnValuesRead, Extract!OwnValuesRead
    <3> QED BY <2>1, <2>2, <2>4, <2>5, <3>1, <3>2, <3>4, <3>5 DEF EInv
  <2> QED BY <2>6, <2>7
<1> QED BY <1>1, <1>2, <1>3 DEF Extract!Next

LEMMA EInvHolds == Extract!Spec => []EInv
  BY InitEInv, StepEInv, PTL DEF Extract!Spec

\* Whatever the transactions, a message whose attributes are emitted by the
\* messages of its action alone, up to it, reads its own values and does not
\* panic.
THEOREM OwnValuesHold == Extract!Spec => []OwnValuesRead
  BY EInvHolds, PTL DEF EInv

LEMMA ExtractTypes == EInv => Extract!TypeOK
<1> SUFFICES ASSUME EInv PROVE Extract!TypeOK
  OBVIOUS
<1>1. Numbering \in 0..Len(tx) /\ Len(tx) \in Nat
  BY LenProperties DEF EInv, Numbering
<1>2. \A a \in Extract!Actions : Cardinality(Before(a, Numbering)) \in 0..Len(tx)
  BY <1>1, BeforeCounts
<1> QED BY <1>2 DEF EInv, Extract!TypeOK

--------------------------------------------------------------------------------
(***************************************************************************)
(* The configuration file.                                                 *)
(***************************************************************************)

\* The file has a text of the last store, and the whole of it unless that store
\* was cut short or is under way.
CInv ==
    /\ Config!TypeOK
    /\ file.of = stores
    /\ storing = "open" => stores \in cut
    /\ stores \notin cut => file.end = "whole"

LEMMA CInvHolds == Config!Spec => []CInv
<1> USE StandaloneAssumption DEF CInv, Config!TypeOK, Config!Text, Config!Ends, Config!Error
<1>1. Config!Init => CInv
  BY DEF Config!Init
<1>2. ASSUME CInv, [Config!Next]_(Config!vars) PROVE CInv'
  <2>1. CASE UNCHANGED Config!vars
    BY <1>2, <2>1 DEF Config!vars
  <2>2. CASE Config!OpenFile
    <3>1. /\ stores' = stores + 1 /\ stores' \in 1..MaxStores
          /\ cut' = cut \cup {stores'} /\ cut' \subseteq 1..stores'
      <4>1. stores \in 0..MaxStores /\ cut \subseteq 1..stores
        BY <1>2
      <4>2. stores < MaxStores /\ stores' = stores + 1 /\ cut' = cut \cup {stores'}
        BY <2>2 DEF Config!OpenFile
      <4> HIDE DEF CInv
      <4> QED BY <4>1, <4>2
    <3>3. file' = [of |-> stores', end |-> "empty"] /\ storing' = "open" /\ loaded' = loaded
      BY <2>2 DEF Config!OpenFile
    <3>4. stores' \in 0..MaxStores /\ file' \in Config!Text /\ stores' \in cut'
      BY <3>1, <3>3
    <3>5. loaded' \in Config!Text \cup {Config!Error}
      BY <1>2, <3>3
    <3> HIDE DEF Config!Text, Config!Error
    <3> QED BY <3>1, <3>3, <3>4, <3>5
  <2>3. CASE Config!WriteConfig
    BY <1>2, <2>3 DEF Config!WriteConfig
  <2>4. CASE Config!StoreCutShort
    BY <1>2, <2>4 DEF Config!StoreCutShort
  <2>5. CASE Config!Load
    BY <1>2, <2>5 DEF Config!Load, Config!Parse
  <2> QED BY <1>2, <2>1, <2>2, <2>3, <2>4, <2>5 DEF Config!Next
<1> QED BY <1>1, <1>2, PTL DEF Config!Spec

\* However many stores there were, a load gives what the last of them stored,
\* and gives it whole, unless that one was cut short or is under way.
THEOREM LoadHolds == Config!Spec => LoadsWhatWasStored
<1>1. ASSUME CInv, [Config!Next]_(Config!vars)
      PROVE  [loaded' # loaded =>
                 stores \in cut \/ loaded' = [of |-> stores, end |-> "whole"]]_(Config!vars)
  <2>1. CASE Config!Load
    <3>1. stores \notin cut => file = [of |-> stores, end |-> "whole"]
      BY <1>1 DEF CInv, Config!TypeOK, Config!Text
    <3> QED BY <2>1, <3>1 DEF Config!Load, Config!Parse
  <2>2. loaded' = loaded \/ Config!Load
    BY <1>1 DEF Config!Next, Config!OpenFile, Config!WriteConfig, Config!StoreCutShort,
                Config!vars
  <2> QED BY <2>1, <2>2
<1> QED BY <1>1, CInvHolds, PTL
DEF Config!Spec, LoadsWhatWasStored, Config!LoadsWhatWasStored

--------------------------------------------------------------------------------
(***************************************************************************)
(* The delays of a retry, for every strategy and every limit of the two    *)
(* kinds.                                                                  *)
(***************************************************************************)

RInv == Retry!TypeOK /\ Retry!LimitsKept /\ Retry!Counted

\* The clamped delay is one of the two.
LEMMA ClampedType ==
    ASSUME Retry!TypeOK
    PROVE  Retry!Clamped \in Nat /\ Retry!Clamped <= plan.max_delay
  BY DEF Retry!TypeOK, Retry!Plan, Retry!Clamped

\* A new iterator has counted nothing.
LEMMA InitRInv == Retry!Init => RInv
<1> SUFFICES ASSUME NEW p \in Retry!Plan, Retry!Start(p)
             PROVE  RInv
  BY DEF Retry!Init
<1>1. Retry!TypeOK
  <2>1. plan \in Retry!Plan /\ p.first \in Nat /\ p.incr \in Nat
    BY DEF Retry!Start, Retry!Plan
  <2>2. grow \in Nat
    BY <2>1 DEF Retry!Start
  <2>3. ended \in BOOLEAN
    BY DEF Retry!Start
  <2> QED
    BY <2>1, <2>2, <2>3 DEF Retry!Start, Retry!TypeOK
<1>2. Retry!LimitsKept
  BY DEF Retry!Start, Retry!LimitsKept, Retry!Plan
<1>3. Retry!Counted
  BY DEF Retry!Start, Retry!Counted, Retry!Plan
<1> QED
  BY <1>1, <1>2, <1>3 DEF RInv

\* The types are kept.
LEMMA NextTypeOK ==
    ASSUME Retry!TypeOK, Retry!Next
    PROVE  Retry!TypeOK'
<1>1. Retry!Clamped \in Nat
  BY ClampedType
<1>2. CASE Retry!NextWithinTotal
  <2>1. CASE elapsed >= plan.bound
    BY <1>1, <1>2, <2>1
    DEF Retry!NextWithinTotal, Retry!Stop, Retry!Advance, Retry!TypeOK, Retry!Plan
  <2>2. CASE ~(elapsed >= plan.bound)
    <3>1. plan.bound - elapsed \in Nat
      BY <2>2 DEF Retry!TypeOK, Retry!Plan
    <3> QED
      BY <1>1, <1>2, <2>2, <3>1
      DEF Retry!NextWithinTotal, Retry!Give, Retry!Advance, Retry!TypeOK, Retry!Plan
  <2> QED
    BY <2>1, <2>2
<1>3. CASE Retry!NextWithinRetries
  <2>1. CASE count = plan.bound
    BY <1>3, <2>1 DEF Retry!NextWithinRetries, Retry!Stop, Retry!TypeOK
  <2>2. CASE count # plan.bound
    BY <1>1, <1>3, <2>2 DEF Retry!NextWithinRetries, Retry!Give, Retry!Advance, Retry!TypeOK
  <2> QED
    BY <2>1, <2>2
<1> QED
  BY <1>2, <1>3 DEF Retry!Next

\* So are the limits.
LEMMA NextRInv ==
    ASSUME RInv, [Retry!Next]_(Retry!vars)
    PROVE  RInv'
<1> USE DEF RInv
<1>1. CASE UNCHANGED Retry!vars
  BY <1>1 DEF Retry!vars, Retry!TypeOK, Retry!LimitsKept, Retry!Counted
<1>2. CASE Retry!NextWithinTotal
  <2>1. Retry!TypeOK'
    BY <1>2, NextTypeOK DEF Retry!Next
  <2>2. Retry!Clamped \in Nat /\ Retry!Clamped <= plan.max_delay
    BY ClampedType
  <2>3. plan.limit = "total" /\ plan' = plan /\ elapsed' = elapsed + Retry!Clamped /\ ~ended
    BY <1>2 DEF Retry!NextWithinTotal
  <2>4. CASE elapsed >= plan.bound
    <3>1. waited' = waited /\ ended' = TRUE
      BY <1>2, <2>4 DEF Retry!NextWithinTotal, Retry!Stop
    <3> QED
      BY <2>1, <2>2, <2>3, <2>4, <3>1
      DEF Retry!LimitsKept, Retry!Counted, Retry!TypeOK, Retry!Plan
  <2>5. CASE ~(elapsed >= plan.bound)
    <3>1. ended' = ended
      BY <1>2, <2>5 DEF Retry!NextWithinTotal, Retry!Give
    <3>2. waited' = waited + (IF elapsed + Retry!Clamped > plan.bound
                              THEN plan.bound - elapsed ELSE Retry!Clamped)
      BY <1>2, <2>5 DEF Retry!NextWithinTotal, Retry!Give
    <3> QED
      BY <2>1, <2>2, <2>3, <2>5, <3>1, <3>2
      DEF Retry!LimitsKept, Retry!Counted, Retry!TypeOK, Retry!Plan
  <2> QED
    BY <2>4, <2>5
<1>3. CASE Retry!NextWithinRetries
  <2>1. Retry!TypeOK'
    BY <1>3, NextTypeOK DEF Retry!Next
  <2>2. plan.limit = "retries" /\ plan' = plan /\ ~ended
    BY <1>3 DEF Retry!NextWithinRetries
  <2>3. CASE count = plan.bound
    BY <1>3, <2>1, <2>2, <2>3
    DEF Retry!NextWithinRetries, Retry!Stop, Retry!LimitsKept, Retry!Counted,
        Retry!TypeOK, Retry!Plan
  <2>4. CASE count # plan.bound
    BY <1>3, <2>1, <2>2, <2>4
    DEF Retry!NextWithinRetries, Retry!Give, Retry!LimitsKept, Retry!Counted,
        Retry!TypeOK, Retry!Plan
  <2> QED
    BY <2>3, <2>4
<1> QED
  BY <1>1, <1>2, <1>3 DEF Retry!Next

LEMMA RInvHolds == Retry!Spec => []RInv
  BY InitRInv, NextRInv, PTL DEF Retry!Spec

\* Whatever the strategy and its limits, the delays of clamp_total add up to
\* max_total_delay and not to more, those of clamp are as many as max_retries,
\* and what clamp_total counts stays below the total and two delays.
THEOREM LimitsHold == Retry!Spec => []LimitsKept
  BY RInvHolds, PTL DEF RInv, LimitsKept

\* Whatever the strategy, none of its delays is longer than max_delay.
THEOREM DelaysAreClamped == Retry!Spec => Retry!DelaysClamped
<1>1. ASSUME RInv, [Retry!Next]_(Retry!vars)
      PROVE  [waited' <= waited + plan.max_delay]_(Retry!vars)
  <2> USE <1>1 DEF RInv
  <2>1. Retry!Clamped \in Nat /\ Retry!Clamped <= plan.max_delay
    BY ClampedType
  <2>2. plan.max_delay \in Nat /\ waited \in Nat /\ elapsed \in Nat /\ plan.bound \in Nat
    BY DEF Retry!TypeOK, Retry!Plan
  <2>3. CASE UNCHANGED Retry!vars
    BY <2>3
  <2>4. CASE Retry!NextWithinTotal
    <3>1. CASE elapsed >= plan.bound
      BY <2>2, <2>4, <3>1 DEF Retry!NextWithinTotal, Retry!Stop
    <3>2. CASE ~(elapsed >= plan.bound)
      BY <2>1, <2>2, <2>4, <3>2 DEF Retry!NextWithinTotal, Retry!Give
    <3> QED
      BY <3>1, <3>2
  <2>5. CASE Retry!NextWithinRetries
    <3>1. CASE count = plan.bound
      BY <2>2, <2>5, <3>1 DEF Retry!NextWithinRetries, Retry!Stop
    <3>2. CASE count # plan.bound
      BY <2>1, <2>2, <2>5, <3>2 DEF Retry!NextWithinRetries, Retry!Give
    <3> QED
      BY <3>1, <3>2
  <2> QED
    BY <1>1, <2>3, <2>4, <2>5 DEF Retry!Next
<1> QED
  BY RInvHolds, <1>1, PTL DEF Retry!Spec, Retry!DelaysClamped

\* The strategy of the event monitor, delay by delay: those of Fibonacci up to
\* 55 s, then 60 s each; and that of the test, up to 5 units each.
MonitorDelays ==
    plan = MonitorPlan =>
        IF ended THEN count = 18
        ELSE \/ <<count, delay, grow, elapsed>> \in
                   {<<0, 1, 0, 0>>, <<1, 1, 1, 1>>, <<2, 2, 1, 2>>, <<3, 3, 2, 4>>,
                    <<4, 5, 3, 7>>, <<5, 8, 5, 12>>, <<6, 13, 8, 20>>, <<7, 21, 13, 33>>,
                    <<8, 34, 21, 54>>, <<9, 55, 34, 88>>}
             \/ count \in 10..18 /\ delay >= 60 /\ elapsed = 60 * count - 457
TestDelays ==
    plan = TestPlan =>
        IF ended THEN count = 6
        ELSE /\ delay = count + 2 /\ grow = 1
             /\ \/ <<count, elapsed>> \in {<<0, 0>>, <<1, 2>>, <<2, 5>>}
                \/ count \in 3..6 /\ elapsed = 5 * count - 6

LEMMA NextDelays ==
    ASSUME Retry!TypeOK, MonitorDelays, TestDelays, [Retry!Next]_(Retry!vars)
    PROVE  MonitorDelays' /\ TestDelays'
<1>1. CASE UNCHANGED Retry!vars
  BY <1>1 DEF Retry!vars, MonitorDelays, TestDelays
<1>2. CASE Retry!NextWithinRetries
  BY <1>2
  DEF Retry!NextWithinRetries, MonitorDelays, TestDelays, MonitorPlan, TestPlan,
      MakePlan
<1>3. CASE Retry!NextWithinTotal
  <2>1. /\ plan' = plan /\ ~ended /\ elapsed' = elapsed + Retry!Clamped
        /\ delay' = delay + grow /\ grow' = IF plan.growth = "constant" THEN grow ELSE delay
        /\ IF elapsed >= plan.bound THEN ended' = TRUE /\ count' = count
                                   ELSE ended' = ended /\ count' = count + 1
    BY <1>3 DEF Retry!NextWithinTotal, Retry!Advance, Retry!Stop, Retry!Give
  <2>2. delay \in Nat /\ grow \in Nat /\ elapsed \in Nat /\ count \in Nat
    BY DEF Retry!TypeOK
  <2>3. MonitorDelays'
    <3> SUFFICES ASSUME plan = MonitorPlan PROVE MonitorDelays'
      BY <2>1 DEF MonitorDelays
    <3>1. /\ elapsed' = elapsed + IF delay <= 60 THEN delay ELSE 60
          /\ delay' = delay + grow /\ grow' = delay
          /\ IF elapsed >= 600 THEN ended' = TRUE /\ count' = count
                             ELSE ended' = FALSE /\ count' = count + 1
      BY <2>1, <2>2 DEF MonitorPlan, MakePlan, Retry!Clamped, Retry!TypeOK
    <3>2. \/ <<count, delay, grow, elapsed>> \in
               {<<0, 1, 0, 0>>, <<1, 1, 1, 1>>, <<2, 2, 1, 2>>, <<3, 3, 2, 4>>,
                <<4, 5, 3, 7>>, <<5, 8, 5, 12>>, <<6, 13, 8, 20>>, <<7, 21, 13, 33>>,
                <<8, 34, 21, 54>>, <<9, 55, 34, 88>>}
          \/ count \in 10..18 /\ delay >= 60 /\ elapsed = 60 * count - 457
      BY <2>1 DEF MonitorDelays
    <3> QED BY <2>1, <2>2, <3>1, <3>2 DEF MonitorDelays
  <2>4. TestDelays'
    <3> SUFFICES ASSUME plan = TestPlan PROVE TestDelays'
      BY <2>1 DEF TestDelays
    <3>1. /\ elapsed' = elapsed + IF delay <= 5 THEN delay ELSE 5
          /\ delay' = delay + grow /\ grow' = grow
          /\ IF elapsed >= 20 THEN ended' = TRUE /\ count' = count
                            ELSE ended' = FALSE /\ count' = count + 1
      BY <2>1, <2>2 DEF TestPlan, MakePlan, Retry!Clamped, Retry!TypeOK
    <3> QED BY <2>1, <2>2, <3>1 DEF TestDelays
  <2> QED BY <2>3, <2>4
<1> QED BY <1>1, <1>2, <1>3 DEF Retry!Next

\* The event monitor's strategy ends after 18 delays, that of the test after 6.
THEOREM DelaysAreCounted == Retry!Spec => []DelaysCounted
<1>1. Retry!Init => MonitorDelays /\ TestDelays
  BY DEF Retry!Init, Retry!Start, MonitorDelays, TestDelays, MonitorPlan, TestPlan, MakePlan
<1>2. MonitorDelays /\ TestDelays => DelaysCounted
  BY DEF MonitorDelays, TestDelays, DelaysCounted
<1> QED BY <1>1, <1>2, RInvHolds, NextDelays, PTL DEF Retry!Spec, RInv

--------------------------------------------------------------------------------
(***************************************************************************)
(* The parts side by side: each behaves as it does alone.                  *)
(***************************************************************************)

\* The strategies tried are strategies.
LEMMA PlansArePlans == Plans \subseteq Retry!Plan
  BY DEF Plans, TestPlan, MonitorPlan, SmallPlans, MakePlan, Retry!Plan

LEMMA StartsAlone == AllInit => Init /\ Config!Init /\ Extract!Init /\ Retry!Init
  BY PlansArePlans DEF AllInit, Retry!Init

LEMMA StepsAlone ==
    [AllNext]_allVars => /\ [Next]_vars
                         /\ [Config!Next]_(Config!vars)
                         /\ [Extract!Next]_(Extract!vars)
                         /\ [Retry!Next]_(Retry!vars)
  BY DEF AllNext, allVars, KeyStep, ConfigStep, ExtractStep, RetryStep, keyVars,
         configVars, extractVars, retryVars, Config!vars, Extract!vars, Retry!vars, Next

LEMMA PartsAlone == AllSpec => Spec /\ Config!Spec /\ Extract!Spec /\ Retry!Spec
  BY StartsAlone, StepsAlone, PTL DEF AllSpec, Spec, Config!Spec, Extract!Spec, Retry!Spec

\* The variables of every part keep their types, whichever part moves.
THEOREM TypesKept == AllSpec => []TypesOK
<1>1. TypeOK /\ CInv /\ EInv /\ RInv => TypesOK
  BY ExtractTypes DEF CInv, RInv, TypesOK
<1> QED BY <1>1, PartsAlone, TypesHold, CInvHolds, EInvHolds, RInvHolds, PTL

\* What the parts promise one by one, they promise side by side.
THEOREM PartsPromise ==
    AllSpec => /\ [](AcknowledgedKeysKept /\ OneKeyUnlessTouched /\ ListedKeysRight)
               /\ LoadsWhatWasStored /\ [](OwnValuesRead /\ LimitsKept /\ DelaysCounted)
  BY PartsAlone, AcknowledgedHold, OneKeyHolds, ListedHold, LoadHolds, OwnValuesHold,
     LimitsHold, DelaysAreCounted, PTL
================================================================================
