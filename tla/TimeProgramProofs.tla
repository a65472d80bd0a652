------------------------- MODULE TimeProgramProofs -------------------------
(***************************************************************************)
(* Facts about the operators of TimeProgram that the proofs about the      *)
(* modules that use it rest on.                                            *)
(***************************************************************************)
EXTENDS TimeProgram, WellFoundedInduction, TLAPS

\* A nonempty set of natural numbers has a least element, and Min is it.
LEMMA MinIsLeast ==
    ASSUME NEW S \in SUBSET Nat, S # {}
    PROVE  Min(S) \in S /\ \A x \in S : Min(S) <= x
<1>1. PICK m \in S : \A y \in S : ~ (y < m)
  <2>1. IsWellFoundedOn(OpToRel(<, Nat), Nat)
    BY NatLessThanWellFounded
  <2>2. PICK x \in S : \A y \in S : ~ (<<y, x>> \in OpToRel(<, Nat))
    BY <2>1, WFMin
  <2>. QED
    BY <2>2 DEF OpToRel
<1>2. \A y \in S : m <= y
  BY <1>1
<1>. QED
  BY <1>1, <1>2 DEF Min

\* So has a nonempty set of integers above some bound.
LEMMA MinIsLeastAbove ==
    ASSUME NEW S \in SUBSET Int, S # {}, NEW b \in Int, \A x \in S : b <= x
    PROVE  Min(S) \in S /\ \A x \in S : Min(S) <= x
<1>1. PICK d \in {x - b : x \in S} : \A y \in {x - b : x \in S} : d <= y
  <2>1. \A x \in S : x - b \in Nat
    OBVIOUS
  <2>2. PICK x \in S : TRUE
    OBVIOUS
  <2>3. {y - b : y \in S} \in SUBSET Nat /\ x - b \in {y - b : y \in S}
    BY <2>1
  <2>. QED
    BY <2>3, MinIsLeast
<1>2. PICK m \in S : d = m - b
  OBVIOUS
<1>3. \A y \in S : m <= y
  <2>1. ASSUME NEW y \in S PROVE m <= y
    <3>1. m - b <= y - b
      BY <1>1, <1>2
    <3>. QED
      BY <3>1
  <2>. QED
    BY <2>1
<1>. QED
  BY <1>3 DEF Min

\* The first key of a nonempty time program is one of its keys and the least one.
LEMMA FirstKeyIsLeast ==
    ASSUME NEW tp, DOMAIN tp \in SUBSET Int, DOMAIN tp # {},
           NEW b \in Int, \A u \in DOMAIN tp : b <= u
    PROVE  /\ FirstKey(tp) \in DOMAIN tp
           /\ \A u \in DOMAIN tp : FirstKey(tp) <= u
BY MinIsLeastAbove DEF FirstKey

\* The next key is the least of the keys that follow.
LEMMA NextKeyIsLeast ==
    ASSUME NEW tp, DOMAIN tp \in SUBSET Int, NEW t, KeysAfter(tp, t) # {},
           NEW b \in Int, \A u \in DOMAIN tp : b <= u
    PROVE  /\ NextKey(tp, t) \in KeysAfter(tp, t)
           /\ \A u \in KeysAfter(tp, t) : NextKey(tp, t) <= u
<1>1. KeysAfter(tp, t) \in SUBSET Int /\ \A u \in KeysAfter(tp, t) : b <= u
  BY DEF KeysAfter
<1>. QED
  BY <1>1, MinIsLeastAbove DEF NextKey

\* Executing an entry commands flows to pumps.
LEMMA OverrideType ==
    ASSUME NEW Pumps, NEW Flows, NEW flow \in [Pumps -> Flows], NEW entry,
           \A p \in DOMAIN entry : entry[p] \in Flows
    PROVE  Override(flow, entry) \in [Pumps -> Flows]
BY DEF Override

\* The empty map is a time program.
LEMMA EmptyIsTimeProgram ==
    ASSUME NEW times, NEW pumps, NEW flows
    PROVE  IsTimeProgram(<<>>, times, pumps, flows)
BY DEF IsTimeProgram

\* Writing the entries of one time program into another one leaves a time program.
LEMMA MergeType ==
    ASSUME NEW times, NEW pumps, NEW flows, NEW tp, NEW other,
           IsTimeProgram(tp, times, pumps, flows),
           IsTimeProgram(other, times, pumps, flows)
    PROVE  IsTimeProgram(Merge(tp, other), times, pumps, flows)
<1> DEFINE merged == Merge(tp, other)
<1>1. DOMAIN merged = DOMAIN tp \cup DOMAIN other
  BY DEF Merge
<1>2. merged = [t \in DOMAIN merged |-> merged[t]]
  BY DEF Merge
<1>3. ASSUME NEW t \in DOMAIN merged
      PROVE  /\ DOMAIN merged[t] \in SUBSET pumps
             /\ merged[t] = [p \in DOMAIN merged[t] |-> merged[t][p]]
             /\ \A p \in DOMAIN merged[t] : merged[t][p] \in flows
  <2>1. CASE t \notin DOMAIN other
    <3>1. merged[t] = tp[t] /\ t \in DOMAIN tp
      BY <1>1, <1>3, <2>1 DEF Merge
    <3>. QED
      BY <3>1 DEF IsTimeProgram
  <2>2. CASE t \in DOMAIN other /\ t \notin DOMAIN tp
    <3>1. merged[t] = other[t]
      BY <1>1, <1>3, <2>2 DEF Merge
    <3>. QED
      BY <2>2, <3>1 DEF IsTimeProgram
  <2>3. CASE t \in DOMAIN other /\ t \in DOMAIN tp
    <3>1. merged[t] = [p \in DOMAIN tp[t] \cup DOMAIN other[t] |->
                         IF p \in DOMAIN other[t] THEN other[t][p] ELSE tp[t][p]]
      BY <1>1, <1>3, <2>3 DEF Merge
    <3>2. /\ DOMAIN tp[t] \in SUBSET pumps /\ DOMAIN other[t] \in SUBSET pumps
          /\ \A p \in DOMAIN tp[t] : tp[t][p] \in flows
          /\ \A p \in DOMAIN other[t] : other[t][p] \in flows
      BY <2>3 DEF IsTimeProgram
    <3>. QED
      BY <3>1, <3>2
  <2>. QED
    BY <2>1, <2>2, <2>3
<1>4. DOMAIN merged \in SUBSET times
  BY <1>1 DEF IsTimeProgram
<1>. QED
  BY <1>2, <1>3, <1>4 DEF IsTimeProgram

\* Writing into the empty program gives the entries that were written.
LEMMA MergeIntoEmpty ==
    ASSUME NEW times, NEW pumps, NEW flows, NEW tp,
           IsTimeProgram(tp, times, pumps, flows)
    PROVE  Merge(<<>>, tp) = tp
BY DEF Merge, IsTimeProgram
=============================================================================
