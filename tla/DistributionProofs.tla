------------------------- MODULE DistributionProofs --------------------------
(***************************************************************************)
(* Proofs about Distribution, for batches of any receipts: the weights are *)
(* sums, the payouts stay within the pool, the Merkle root commits to the  *)
(* weights, and what is posted is what was proved.                         *)
(*                                                                         *)
(* The state only holds inputs, so the theorems follow from facts about    *)
(* the operators.  Loops are recursive functions on the numbers up to the  *)
(* length of the input: each has a lemma that says the function exists and *)
(* what was to be shown of it is shown with CountUp.                       *)
(***************************************************************************)
EXTENDS Distribution, ArithmeticProofs, SequenceTheorems

Receipt == [operator : Nat, weight : Nat, timestamp : Nat]

-----------------------------------------------------------------------------
(***************************************************************************)
(* Weights.                                                                *)
(***************************************************************************)

Accumulates(f, rs) ==
  f = [i \in 0..Len(rs) |-> IF i = 0 THEN <<>> ELSE AddWeight(f[i - 1], rs[i])]

\* The loop over the receipts ends, with the weights after the last one.
LEMMA AccumulateLoop ==
  ASSUME NEW rs, Len(rs) \in Nat
  PROVE  \E f : Accumulates(f, rs) /\ Accumulate(rs) = f[Len(rs)]
<1> DEFINE n == Len(rs)
           UpTo(f, m) == f = [i \in 0..m |-> IF i = 0 THEN <<>> ELSE AddWeight(f[i - 1], rs[i])]
           Good == {m \in 0..n : \E f : UpTo(f, m)}
<1>1. 0 \in Good
  <2> DEFINE f == [i \in 0..0 |-> <<>>]
  <2>1. UpTo(f, 0)
    OBVIOUS
  <2> HIDE DEF UpTo
  <2> QED
    BY <2>1
<1>2. ASSUME NEW m \in 0..n, m # n, m \in Good
      PROVE  m + 1 \in Good
  <2>1. PICK f : UpTo(f, m)
    BY <1>2
  <2> DEFINE g == [i \in 0..(m + 1) |-> IF i = m + 1 THEN AddWeight(f[m], rs[m + 1]) ELSE f[i]]
  <2>2. \A i \in 0..m : g[i] = f[i]
    OBVIOUS
  <2>3. ASSUME NEW i \in 0..(m + 1)
        PROVE  g[i] = IF i = 0 THEN <<>> ELSE AddWeight(g[i - 1], rs[i])
    <3>1. CASE i = m + 1
      BY <2>2, <3>1
    <3>2. CASE i \in 0..m
      <4>1. g[i] = IF i = 0 THEN <<>> ELSE AddWeight(f[i - 1], rs[i])
        BY <2>1, <2>2, <3>2
      <4>2. i # 0 => g[i - 1] = f[i - 1]
        BY <2>2, <3>2
      <4> QED
        BY <4>1, <4>2
    <3> QED
      BY <3>1, <3>2
  <2>4. UpTo(g, m + 1)
    BY <2>3
  <2>5. m + 1 \in 0..n
    BY <1>2
  <2> HIDE DEF UpTo, g, n
  <2> QED
    BY <2>4, <2>5
<1>3. n \in Good
  <2> HIDE DEF Good
  <2>1. 0..n \subseteq Good
    BY <1>1, <1>2, CountUp
  <2> QED
    BY <2>1
<1>4. \E f : Accumulates(f, rs)
  BY <1>3 DEF Accumulates
<1>5. Accumulate(rs) = (CHOOSE f : Accumulates(f, rs))[Len(rs)]
  BY DEF Accumulate, Accumulates
<1> QED
  BY <1>4, <1>5

\* A receipt adds to the weight of its operator.
LEMMA AddWeightFacts ==
  ASSUME NEW w, w = [o \in DOMAIN w |-> w[o]], NEW r
  PROVE  LET v == AddWeight(w, r)
         IN  /\ v = [o \in DOMAIN v |-> v[o]]
             /\ DOMAIN v = DOMAIN w \cup {r.operator}
             /\ \A o \in DOMAIN w : o # r.operator => v[o] = w[o]
             /\ v[r.operator] = IF r.operator \in DOMAIN w THEN w[r.operator] + r.weight
                                ELSE r.weight
BY DEF AddWeight

\* The weights of the receipts, and the receipts of an operator.
WeightOf(rs) == [j \in DOMAIN rs |-> rs[j].weight]
OwnOf(rs, o) == {j \in DOMAIN rs : rs[j].operator = o}

\* What is true of the weights after i receipts.
Summed(w, rs, i) ==
  /\ w = [o \in DOMAIN w |-> w[o]]
  /\ DOMAIN w = {rs[j].operator : j \in 1..i}
  /\ IsFiniteSet(DOMAIN w)
  /\ \A o \in DOMAIN w : /\ w[o] \in Nat
                         /\ w[o] = SumOver(WeightOf(rs), OwnOf(rs, o) \cap (1..i))
  /\ SumOver(w, DOMAIN w) = SumOver(WeightOf(rs), 1..i)

\* One receipt more.
LEMMA SummedNext ==
  ASSUME NEW rs \in Seq(Receipt), NEW i \in Nat, i + 1 \in DOMAIN rs, NEW w, Summed(w, rs, i)
  PROVE  Summed(AddWeight(w, rs[i + 1]), rs, i + 1)
<1> DEFINE r == rs[i + 1]
           v == AddWeight(w, r)
           f == WeightOf(rs)
           Own(o, k) == OwnOf(rs, o) \cap (1..k)
<1>1. r.operator \in Nat /\ r.weight \in Nat /\ \A j \in DOMAIN rs : rs[j].weight \in Nat
  <2>1. \A j \in DOMAIN rs : rs[j] \in Receipt
    OBVIOUS
  <2> QED
    BY <2>1 DEF Receipt
<1>2. /\ v = [o \in DOMAIN v |-> v[o]] /\ DOMAIN v = DOMAIN w \cup {r.operator}
      /\ \A o \in DOMAIN w : o # r.operator => v[o] = w[o]
      /\ v[r.operator] = IF r.operator \in DOMAIN w THEN w[r.operator] + r.weight ELSE r.weight
  <2> HIDE DEF r
  <2> QED
    BY AddWeightFacts DEF Summed
<1> HIDE DEF v
<1>3. DOMAIN v = {rs[j].operator : j \in 1..(i + 1)}
  BY <1>2 DEF Summed
<1>4. IsFiniteSet(DOMAIN v)
  BY <1>2, FS_AddElement DEF Summed
<1>5. /\ \A j \in DOMAIN rs : f[j] \in Nat
      /\ f[i + 1] = r.weight
      /\ 1..(i + 1) \subseteq DOMAIN rs /\ 1..i = (1..(i + 1)) \ {i + 1}
      /\ IsFiniteSet(1..(i + 1))
  <2>1. IsFiniteSet(1..(i + 1))
    BY FS_Interval
  <2>2. 1..(i + 1) \subseteq DOMAIN rs /\ 1..i = (1..(i + 1)) \ {i + 1}
    OBVIOUS
  <2> QED
    BY <1>1, <2>1, <2>2 DEF WeightOf
<1>6. SumOver(f, 1..(i + 1)) = r.weight + SumOver(f, 1..i)
  <2> HIDE DEF f, r
  <2> QED
    BY <1>5, SumRemove
<1>7. ASSUME NEW o, o # r.operator
      PROVE  Own(o, i + 1) = Own(o, i)
  BY <1>7 DEF OwnOf
<1>8. SumOver(f, Own(r.operator, i + 1)) = r.weight + SumOver(f, Own(r.operator, i))
  <2> DEFINE S == Own(r.operator, i + 1)
  <2>1. i + 1 \in S /\ S \ {i + 1} = Own(r.operator, i) /\ S \subseteq 1..(i + 1)
    BY DEF OwnOf
  <2>2. IsFiniteSet(S)
    BY <1>5, <2>1, FS_Subset
  <2>3. \A j \in S : f[j] \in Nat
    BY <1>5, <2>1
  <2>4. SumOver(f, S) = f[i + 1] + SumOver(f, S \ {i + 1})
    <3> HIDE DEF S, f
    <3> QED
      BY <2>1, <2>2, <2>3, SumRemove
  <2> QED
    BY <1>5, <2>1, <2>4
<1>9. SumOver(f, Own(r.operator, i)) = IF r.operator \in DOMAIN w THEN w[r.operator] ELSE 0
  <2>1. CASE r.operator \in DOMAIN w
    BY <2>1 DEF Summed
  <2>2. CASE r.operator \notin DOMAIN w
    <3>1. Own(r.operator, i) = {}
      BY <2>2 DEF Summed, OwnOf
    <3> QED
      BY <2>2, <3>1, SumEmpty
  <2> QED
    BY <2>1, <2>2
<1>10. ASSUME NEW o \in DOMAIN v
       PROVE  v[o] \in Nat /\ v[o] = SumOver(f, Own(o, i + 1))
  <2>1. CASE o = r.operator
    <3>1. r.operator \in DOMAIN w => w[r.operator] \in Nat
      BY DEF Summed
    <3> HIDE DEF f, r, Own
    <3> QED
      BY <1>1, <1>2, <1>8, <1>9, <2>1, <3>1
  <2>2. CASE o # r.operator
    <3>1. o \in DOMAIN w /\ v[o] = w[o] /\ Own(o, i + 1) = Own(o, i)
      BY <1>2, <1>7, <2>2
    <3>2. w[o] \in Nat /\ w[o] = SumOver(f, Own(o, i))
      BY <3>1 DEF Summed
    <3> HIDE DEF f, r, Own
    <3> QED
      BY <3>1, <3>2
  <2> QED
    BY <2>1, <2>2
<1>11. SumOver(v, DOMAIN v) = r.weight + SumOver(w, DOMAIN w)
  <2> DEFINE D == DOMAIN v
             E == D \ {r.operator}
  <2>1. \A o \in D : v[o] \in Nat
    BY <1>10
  <2>2. SumOver(v, D) = v[r.operator] + SumOver(v, E)
    <3>1. r.operator \in D /\ IsFiniteSet(D)
      BY <1>2, <1>4
    <3> HIDE DEF D, r
    <3> QED
      BY <2>1, <3>1, SumRemove
  <2>3. SumOver(v, E) = SumOver(w, E)
    <3>1. IsFiniteSet(E) /\ \A o \in E : v[o] = w[o]
      BY <1>2, <1>4, FS_Subset
    <3> HIDE DEF E
    <3> QED
      BY <3>1, SumSame
  <2>4. SumOver(w, DOMAIN w) = (IF r.operator \in DOMAIN w THEN w[r.operator] ELSE 0) + SumOver(w, E)
    <3>1. CASE r.operator \in DOMAIN w
      <4>1. E = DOMAIN w \ {r.operator}
        BY <1>2
      <4>2. SumOver(w, DOMAIN w) = w[r.operator] + SumOver(w, DOMAIN w \ {r.operator})
        <5>1. IsFiniteSet(DOMAIN w) /\ \A o \in DOMAIN w : w[o] \in Nat
          BY DEF Summed
        <5> HIDE DEF r
        <5> QED
          BY <3>1, <5>1, SumRemove
      <4> QED
        BY <3>1, <4>1, <4>2
    <3>2. CASE r.operator \notin DOMAIN w
      <4>1. E = DOMAIN w
        BY <1>2, <3>2
      <4>2. SumOver(w, E) \in Nat
        BY <4>1, SumNat DEF Summed
      <4> QED
        BY <3>2, <4>1, <4>2
    <3> QED
      BY <3>1, <3>2
  <2>5. SumOver(w, E) \in Nat /\ (r.operator \in DOMAIN w => w[r.operator] \in Nat)
    <3>1. IsFiniteSet(E) /\ \A o \in E : w[o] \in Nat
      BY <1>2, <1>4, FS_Subset DEF Summed
    <3>2. r.operator \in DOMAIN w => w[r.operator] \in Nat
      BY DEF Summed
    <3> HIDE DEF E
    <3> QED
      BY <3>1, <3>2, SumNat
  <2> HIDE DEF D, E, r
  <2>6. SumOver(v, D) = r.weight + SumOver(w, DOMAIN w)
    BY <1>1, <1>2, <2>2, <2>3, <2>4, <2>5
  <2> QED
    BY <2>6 DEF D
<1> QED
  <2>1. SumOver(v, DOMAIN v) = SumOver(f, 1..(i + 1))
    BY <1>6, <1>11 DEF Summed
  <2> QED
    BY <1>2, <1>3, <1>4, <1>10, <2>1 DEF Summed, v

\* BatchBuilder::build and aggregate_receipts: the weights after the loop.
LEMMA WeightsSummed ==
  ASSUME NEW rs \in Seq(Receipt)
  PROVE  Summed(Accumulate(rs), rs, Len(rs))
<1>1. Len(rs) \in Nat /\ DOMAIN rs = 1..Len(rs)
  OBVIOUS
<1>2. PICK f : Accumulates(f, rs) /\ Accumulate(rs) = f[Len(rs)]
  BY <1>1, AccumulateLoop
<1> DEFINE Good == {i \in 0..Len(rs) : Summed(f[i], rs, i)}
<1>3. 0 \in Good
  <2>1. f[0] = <<>>
    BY <1>1, <1>2 DEF Accumulates
  <2>2. DOMAIN <<>> = {} /\ 1..0 = {}
    OBVIOUS
  <2>3. <<>> = [o \in DOMAIN <<>> |-> <<>>[o]]
    OBVIOUS
  <2>4. SumOver(<<>>, {}) = SumOver(WeightOf(rs), {})
    BY SumEmpty
  <2>5. Summed(<<>>, rs, 0)
    BY <2>2, <2>3, <2>4, FS_EmptySet DEF Summed
  <2> QED
    BY <1>1, <2>1, <2>5
<1>4. ASSUME NEW i \in 0..Len(rs), i # Len(rs), i \in Good
      PROVE  i + 1 \in Good
  <2>1. i + 1 \in 0..Len(rs) /\ i \in Nat /\ i + 1 \in DOMAIN rs
    <3>1. \A n \in Nat : \A k \in 0..n : k # n => k + 1 \in 0..n /\ k \in Nat /\ k + 1 \in 1..n
      OBVIOUS
    <3> HIDE DEF Good
    <3> QED
      BY <1>1, <1>4, <3>1
  <2>2. f[i + 1] = AddWeight(f[i], rs[i + 1])
    <3>1. f[i + 1] = AddWeight(f[(i + 1) - 1], rs[i + 1])
      BY <1>2, <2>1 DEF Accumulates
    <3> QED
      BY <2>1, <3>1
  <2>3. Summed(f[i + 1], rs, i + 1)
    BY <1>4, <2>1, <2>2, SummedNext
  <2> QED
    BY <2>1, <2>3
<1>5. 0..Len(rs) \subseteq Good
  <2> HIDE DEF Good
  <2> QED
    BY <1>1, <1>3, <1>4, CountUp
<1> QED
  BY <1>1, <1>2, <1>5

\* The entries of weights: every operator once, in ascending order.
LEMMA EntriesList ==
  ASSUME NEW w, IsFiniteSet(DOMAIN w), DOMAIN w \subseteq Nat
  PROVE  LET e == EntriesOf(w)
             n == Cardinality(DOMAIN w)
         IN  /\ n \in Nat /\ DOMAIN e = 1..n /\ e = [i \in 1..n |-> e[i]]
             /\ \A i \in 1..n : e[i] = <<e[i][1], w[e[i][1]]>> /\ e[i][1] \in DOMAIN w
             /\ \A o \in DOMAIN w : \E i \in 1..n : e[i][1] = o
             /\ \A i, j \in 1..n : i < j => e[i][1] < e[j][1]
<1> DEFINE D == DOMAIN w
           n == Cardinality(D)
           a == Ascending(D)
           e == EntriesOf(w)
<1>1. /\ n \in Nat /\ a \in [1..n -> D]
      /\ \A x \in D : \E i \in 1..n : a[i] = x
      /\ \A i, j \in 1..n : i < j => a[i] < a[j]
  <2> HIDE DEF D
  <2> QED
    BY AscendingLists DEF D
<1>2. e = [i \in 1..n |-> <<a[i], w[a[i]]>>]
  BY <1>1 DEF EntriesOf
<1> HIDE DEF e, a, n
<1>3. \A i \in 1..n : e[i][1] = a[i] /\ e[i] = <<a[i], w[a[i]]>>
  BY <1>2
<1>4. /\ n \in Nat /\ DOMAIN e = 1..n /\ e = [i \in 1..n |-> e[i]]
      /\ \A i \in 1..n : e[i] = <<e[i][1], w[e[i][1]]>> /\ e[i][1] \in DOMAIN w
  BY <1>1, <1>2, <1>3
<1>5. \A o \in DOMAIN w : \E i \in 1..n : e[i][1] = o
  BY <1>1, <1>3
<1>6. \A i, j \in 1..n : i < j => e[i][1] < e[j][1]
  BY <1>1, <1>3
<1> QED
  BY <1>4, <1>5, <1>6 DEF e, n

\* The total weight of the entries is that of the operators.
LEMMA TotalOfEntries ==
  ASSUME NEW w, IsFiniteSet(DOMAIN w), DOMAIN w \subseteq Nat, \A o \in DOMAIN w : w[o] \in Nat
  PROVE  Total(EntriesOf(w)) = SumOver(w, DOMAIN w)
<1> DEFINE D == DOMAIN w
           n == Cardinality(D)
           e == EntriesOf(w)
           S == 1..n
           f == [i \in S |-> e[i][1]]
           v == [i \in DOMAIN e |-> e[i][2]]
<1>1. /\ n \in Nat /\ DOMAIN e = S
      /\ \A i \in S : e[i] = <<e[i][1], w[e[i][1]]>> /\ e[i][1] \in D
      /\ \A o \in D : \E i \in S : e[i][1] = o
      /\ \A i, j \in S : i < j => e[i][1] < e[j][1]
  BY EntriesList
<1>2. Total(e) = SumOver(v, S)
  BY <1>1 DEF Total, SumOver
<1> HIDE DEF e, n, D
<1>3. IsFiniteSet(S)
  BY <1>1, FS_Interval
<1>4. f \in [S -> D] /\ \A o \in D : \E i \in S : f[i] = o
  BY <1>1
<1>5. ASSUME NEW i \in S, NEW j \in S, f[i] = f[j]
      PROVE  i = j
  <2>1. f[i] \in Nat /\ f[j] \in Nat
    BY <1>4 DEF D
  <2>2. ~(i < j) /\ ~(j < i)
    BY <1>1, <1>5, <2>1
  <2> QED
    BY <1>1, <2>2
<1>6. \A i \in S : v[i] \in Nat /\ v[i] = w[f[i]]
  <2>1. \A i \in S : v[i] = e[i][2] /\ f[i] = e[i][1]
    BY <1>1
  <2>2. \A i \in S : e[i][2] = w[e[i][1]]
    BY <1>1
  <2> QED
    BY <1>1, <2>1, <2>2 DEF D
<1> HIDE DEF S, f, v
<1>7. SumOver(v, S) = SumOver(w, D)
  BY <1>3, <1>4, <1>5, <1>6, SumRenamed
<1> QED
  BY <1>2, <1>7 DEF e, D

\* aggregate_receipts accepts a batch only if it accepts every receipt of it.
LEMMA ProvedReceipts ==
  ASSUME NEW rs \in Seq(Receipt), Proved(rs)
  PROVE  /\ rs # <<>> /\ Len(rs) > 0
         /\ \A i \in DOMAIN rs : rs[i].weight # 0 /\ rs[i].timestamp # 0 /\ rs[i].operator # 0
<1> DEFINE bad == {i \in DOMAIN rs : Refusal(rs[i]) # "none"}
<1>1. rs # <<>> /\ (bad = {} \/ Refusal(rs[Min(bad)]) = "none")
  BY DEF Proved, AggregateError
<1>2. bad = {}
  <2> SUFFICES ASSUME bad # {}
               PROVE  FALSE
    OBVIOUS
  <2>1. bad \subseteq Nat
    OBVIOUS
  <2>2. \E x \in bad : \A y \in bad : x <= y
    <3> HIDE DEF bad
    <3>1. PICK x \in bad : \A y \in bad : ~(y < x)
      BY <2>1, LeastNumber
    <3>2. \A y \in bad : x <= y
      BY <2>1, <3>1
    <3> QED
      BY <3>2
  <2>3. Min(bad) \in bad
    <3> HIDE DEF bad
    <3> QED
      BY <2>2 DEF Min
  <2> QED
    BY <1>1, <2>3
<1>3. \A i \in DOMAIN rs : Refusal(rs[i]) = "none"
  BY <1>2
<1>4. ASSUME NEW i \in DOMAIN rs
      PROVE  rs[i].weight # 0 /\ rs[i].timestamp # 0 /\ rs[i].operator # 0
  BY <1>3 DEF Refusal
<1>5. Len(rs) > 0
  BY <1>1
<1> QED
  BY <1>1, <1>4, <1>5

-----------------------------------------------------------------------------
(***************************************************************************)
(* The state: two batches, a balance and a fee.                            *)
(***************************************************************************)
BatchesOK ==
  /\ receipts \in Seq(Receipts) /\ other \in Seq(Receipts)
  /\ Len(receipts) <= MaxReceipts /\ Len(other) <= MaxReceipts
  /\ balance \in U64 /\ bps \in 0..MaxProtocolFeeBps

\* Inputs keep their types.
LEMMA BatchesOKAlways == Spec => []BatchesOK
<1>1. Init => BatchesOK
  BY DistributionAssumption DEF Init, BatchesOK
<1>2. BatchesOK /\ [Next]_vars => BatchesOK'
  <2> SUFFICES ASSUME BatchesOK, [Next]_vars
               PROVE  BatchesOK'
    OBVIOUS
  <2>1. Len(receipts) \in Nat /\ Len(other) \in Nat /\ MaxReceipts \in Nat
    BY DistributionAssumption DEF BatchesOK
  <2>2. ASSUME NEW r \in Receipts, AddReceipt(r)
        PROVE  BatchesOK'
    BY <2>1, <2>2 DEF BatchesOK, AddReceipt
  <2>3. ASSUME NEW r \in Receipts, AddOther(r)
        PROVE  BatchesOK'
    BY <2>1, <2>3 DEF BatchesOK, AddOther
  <2>4. CASE UNCHANGED vars
    BY <2>4 DEF vars, BatchesOK
  <2> QED
    BY <2>2, <2>3, <2>4 DEF Next
<1> QED
  BY <1>1, <1>2, PTL DEF Spec

LEMMA ReceiptsTyped == Seq(Receipts) \subseteq Seq(Receipt)
<1>1. Receipts \subseteq Receipt
  BY DistributionAssumption DEF Receipt
<1> QED
  BY <1>1

\* What WeightsSummed says of a batch's weights.
LEMMA BatchWeights ==
  ASSUME NEW rs \in Seq(Receipt)
  PROVE  LET w == Accumulate(rs)
         IN  /\ w = [o \in DOMAIN w |-> w[o]]
             /\ DOMAIN w = {rs[i].operator : i \in DOMAIN rs}
             /\ IsFiniteSet(DOMAIN w) /\ DOMAIN w \subseteq Nat
             /\ \A o \in DOMAIN w : w[o] \in Nat /\ w[o] = SumOver(WeightOf(rs), OwnOf(rs, o))
             /\ SumOver(w, DOMAIN w) = SumOver(WeightOf(rs), DOMAIN rs)
<1> DEFINE w == Accumulate(rs)
<1>1. Summed(w, rs, Len(rs))
  BY WeightsSummed
<1>2. DOMAIN rs = 1..Len(rs) /\ \A o : OwnOf(rs, o) \cap (1..Len(rs)) = OwnOf(rs, o)
  BY DEF OwnOf
<1>3. \A i \in DOMAIN rs : rs[i].operator \in Nat
  <2>1. \A i \in DOMAIN rs : rs[i] \in Receipt
    OBVIOUS
  <2> QED
    BY <2>1 DEF Receipt
<1> HIDE DEF w
<1>4. DOMAIN w \subseteq Nat
  BY <1>1, <1>2, <1>3 DEF Summed
<1> QED
  BY <1>1, <1>2, <1>4 DEF Summed, w

\* BatchBuilder::build and aggregate_receipts: for every batch each operator's
\* entry has the sum of the weights of its receipts, and entries are sorted.
THEOREM WeightsSum == Spec => []WeightsAreSums
<1>1. BatchesOK => WeightsAreSums
  <2> SUFFICES ASSUME BatchesOK
               PROVE  WeightsAreSums
    OBVIOUS
  <2> DEFINE w == Accumulate(receipts)
             e == EntriesOf(w)
             n == Cardinality(DOMAIN w)
             f == WeightOf(receipts)
  <2>1. receipts \in Seq(Receipt)
    BY ReceiptsTyped DEF BatchesOK
  <2>2. /\ DOMAIN w = {receipts[i].operator : i \in DOMAIN receipts}
        /\ IsFiniteSet(DOMAIN w) /\ DOMAIN w \subseteq Nat
        /\ \A o \in DOMAIN w : w[o] = SumOver(f, OwnOf(receipts, o))
    BY <2>1, BatchWeights
  <2> HIDE DEF w
  <2>3. /\ DOMAIN e = 1..n
        /\ \A i \in 1..n : e[i] = <<e[i][1], w[e[i][1]]>> /\ e[i][1] \in DOMAIN w
        /\ \A o \in DOMAIN w : \E i \in 1..n : e[i][1] = o
        /\ \A i, j \in 1..n : i < j => e[i][1] < e[j][1]
    BY <2>2, EntriesList
  <2> HIDE DEF e, n
  <2>4. AggregateReceipts(receipts) = e
    BY DEF AggregateReceipts, e, w
  <2>5. {e[i][1] : i \in DOMAIN e} = {receipts[i].operator : i \in DOMAIN receipts}
    BY <2>2, <2>3, SMTT(40)
  <2>6. \A i \in DOMAIN e : e[i][2] = SumOver(f, OwnOf(receipts, e[i][1]))
    <3>1. \A i \in 1..n : e[i][2] = w[e[i][1]]
      BY <2>3
    <3> QED
      BY <2>2, <2>3, <3>1
  <2>7. \A i, j \in DOMAIN e : i < j => e[i][1] < e[j][1]
    BY <2>3
  <2> QED
    BY <2>4, <2>5, <2>6, <2>7 DEF WeightsAreSums, SumOver, OwnOf, WeightOf
<1> QED
  BY <1>1, BatchesOKAlways, PTL

\* calculate_proportional_payout over a proved batch: whatever the receipts,
\* the balance and the fee, the operators together are paid no more than the
\* pool holds, and less than one unit per operator is left in it.
THEOREM PayoutsFit == Spec => []PayoutsWithinPool
<1>1. BatchesOK => PayoutsWithinPool
  <2> SUFFICES ASSUME BatchesOK, Proved(receipts)
               PROVE  PayoutsWithinPool
    BY DEF PayoutsWithinPool
  <2> DEFINE w == Accumulate(receipts)
             D == DOMAIN w
             total == Total(EntriesOf(w))
             pays(o) == CalculateProportionalPayout(balance, w[o], total, bps)
             drawn == [o \in D |-> pays(o).fee + pays(o).payout]
  <2>1. receipts \in Seq(Receipt)
    BY ReceiptsTyped DEF BatchesOK
  <2>2. /\ D = {receipts[i].operator : i \in DOMAIN receipts}
        /\ IsFiniteSet(D) /\ D \subseteq Nat
        /\ \A o \in D : w[o] \in Nat /\ w[o] = SumOver(WeightOf(receipts), OwnOf(receipts, o))
    BY <2>1, BatchWeights
  <2>3. /\ Len(receipts) > 0 /\ DOMAIN receipts = 1..Len(receipts) /\ Len(receipts) \in Nat
        /\ \A i \in DOMAIN receipts : receipts[i].weight # 0 /\ receipts[i].weight \in Nat
    <3>1. \A i \in DOMAIN receipts : receipts[i] \in Receipt
      BY <2>1
    <3>2. \A i \in DOMAIN receipts : receipts[i].weight \in Nat
      BY <3>1 DEF Receipt
    <3> QED
      BY <2>1, <3>2, ProvedReceipts
  <2>4. D # {}
    <3>1. 1 \in DOMAIN receipts
      BY <2>3
    <3> HIDE DEF D
    <3> QED
      BY <2>2, <3>1
  <2>5. ASSUME NEW o \in D
        PROVE  w[o] # 0
    <3> DEFINE f == WeightOf(receipts)
               S == OwnOf(receipts, o)
    <3>1. PICK i \in DOMAIN receipts : receipts[i].operator = o
      BY <2>2
    <3>2. i \in S /\ S \subseteq 1..Len(receipts) /\ f[i] # 0 /\ \A j \in S : f[j] \in Nat
      BY <2>3, <3>1 DEF OwnOf, WeightOf
    <3>3. IsFiniteSet(S) /\ IsFiniteSet(S \ {i})
      <4>1. IsFiniteSet(1..Len(receipts))
        BY <2>3, FS_Interval
      <4> HIDE DEF S
      <4> QED
        BY <3>2, <4>1, FS_Subset
    <3> HIDE DEF S, f
    <3>4. SumOver(f, S) = f[i] + SumOver(f, S \ {i}) /\ SumOver(f, S \ {i}) \in Nat
      BY <3>2, <3>3, SumRemove, SumNat
    <3>5. w[o] = SumOver(f, S)
      BY <2>2 DEF f, S
    <3> QED
      BY <3>2, <3>4, <3>5
  <2> HIDE DEF w
  <2>6. total = SumOver(w, D)
    BY <2>2, TotalOfEntries
  <2>7. total \in Nat
    BY <2>2, <2>6, SumNat
  <2> HIDE DEF D, total
  <2>8. \A o \in D : drawn[o] = Drawn(balance, w[o], SumOver(w, D))
    <3>1. balance \in Nat /\ bps \in 0..MaxProtocolFeeBps
      BY FeeAssumption DEF BatchesOK, U64
    <3>2. \A o \in D : pays(o).fee + pays(o).payout = Drawn(balance, w[o], total)
      BY <2>2, <2>7, <3>1, ClaimDraws
    <3> QED
      BY <2>6, <3>2
  <2> HIDE DEF drawn
  <2>9. balance \in U64 /\ balance \in Nat
    BY FeeAssumption DEF BatchesOK, U64
  <2>10. SumOver(drawn, D) <= balance
    BY <2>2, <2>8, <2>9, PayoutsTogether
  <2>11. balance - SumOver(drawn, D) < Cardinality(D)
    BY <2>2, <2>4, <2>5, <2>8, <2>9, LittleIsLeft
  <2> QED
    BY <2>10, <2>11 DEF PayoutsWithinPool, SumOver, drawn, total, D, w
<1> QED
  BY <1>1, BatchesOKAlways, PTL

\* next_power_of_two exists: the height is the least that offers enough leaves.
LEMMA HeightOK ==
  ASSUME NEW n \in Nat \ {0}
  PROVE  /\ Height(n) \in 0..n /\ Power(2, Height(n)) >= n
         /\ (n = 1 => Height(n) = 0)
<1> DEFINE Good == {k \in 0..n : Power(2, k) >= k}
           T == {k \in Nat : Power(2, k) >= n}
<1>1. 0 \in Good
  BY PowerRec
<1>2. ASSUME NEW k \in 0..n, k # n, k \in Good
      PROVE  k + 1 \in Good
  <2>1. Power(2, k + 1) = 2 * Power(2, k) /\ Power(2, k) \in Nat \ {0}
    BY PowerRec, PowerType
  <2>2. Power(2, k + 1) >= k + 1
    BY <1>2, <2>1
  <2> QED
    BY <1>2, <2>2
<1>3. n \in T
  <2> HIDE DEF Good
  <2>1. 0..n \subseteq Good
    BY <1>1, <1>2, CountUp
  <2> QED
    BY <2>1 DEF Good
<1>4. PICK k \in T : \A j \in T : ~(j < k)
  <2>1. T \subseteq Nat
    OBVIOUS
  <2> HIDE DEF T
  <2> QED
    BY <1>3, <2>1, LeastNumber
<1>5. k \in 0..n /\ Power(2, k) >= n
  BY <1>3, <1>4
<1>6. k = 0 \/ Power(2, k - 1) < n
  <2>1. CASE k # 0
    <3>1. k - 1 \in Nat /\ k - 1 \notin T
      BY <1>4, <2>1
    <3>2. Power(2, k - 1) \in Nat
      BY <3>1, PowerType
    <3> QED
      BY <3>1, <3>2
  <2> QED
    BY <2>1
<1>7. /\ Height(n) \in 0..n /\ Power(2, Height(n)) >= n
      /\ Height(n) = 0 \/ Power(2, Height(n) - 1) < n
  <2> HIDE DEF T
  <2> QED
    BY <1>5, <1>6 DEF Height
<1>8. ASSUME n = 1, Height(n) # 0
      PROVE  FALSE
  <2>1. Height(n) - 1 \in Nat
    BY <1>7, <1>8
  <2>2. Power(2, Height(n) - 1) \in Nat \ {0}
    BY <2>1, PowerType
  <2> QED
    BY <1>7, <1>8, <2>2
<1> QED
  BY <1>7, <1>8
-----------------------------------------------------------------------------
(***************************************************************************)
(* The Merkle tree.                                                        *)
(***************************************************************************)

\* One round of the loop of compute_merkle_root.
LEMMA MergedList ==
  ASSUME NEW s, NEW n \in Nat, IsList(s, 2 * n)
  PROVE  /\ IsList(Merged(s), n)
         /\ \A i \in 1..n : Merged(s)[i] = Hash2(s[2 * i - 1], s[2 * i])
<1>1. Len(s) = 2 * n
  BY ListLen
<1>2. (2 * n) \div 2 = n
  OBVIOUS
<1>3. Merged(s) = [i \in 1..n |-> Hash2(s[2 * i - 1], s[2 * i])]
  BY <1>1, <1>2 DEF Merged
<1> QED
  BY <1>3 DEF IsList

\* The leaves padded with zero hashes.
LEMMA PadList ==
  ASSUME NEW leaves, NEW m \in Nat \ {0}, IsList(leaves, m)
  PROVE  /\ IsList(Pad(leaves), Power(2, Height(m)))
         /\ \A i \in 1..Power(2, Height(m)) :
              Pad(leaves)[i] = IF i <= m THEN leaves[i] ELSE ZeroHash
<1> DEFINE p == Power(2, Height(m))
           zeros == [i \in 1..(p - m) |-> ZeroHash]
           S == {leaves[i] : i \in 1..m} \cup {ZeroHash}
           pad == leaves \o zeros
<1>1. p \in Nat /\ p >= m
  BY HeightOK, PowerType
<1>2. Len(leaves) = m /\ leaves \in Seq(S)
  <2>1. Len(leaves) = m /\ leaves \in Seq({leaves[i] : i \in 1..m})
    BY ListLen
  <2> QED
    BY <2>1
<1>3. Pad(leaves) = pad
  BY <1>2 DEF Pad, NextPowerOfTwo
<1>4. Len(zeros) = p - m /\ zeros \in Seq(S)
  <2> HIDE DEF p
  <2>1. p - m \in Nat /\ zeros \in [1..(p - m) -> S]
    BY <1>1
  <2>2. IsList(zeros, p - m)
    BY <2>1 DEF IsList
  <2>3. Len(zeros) = p - m
    BY <2>2, ListLen
  <2> HIDE DEF zeros, S
  <2> QED
    BY <2>1, <2>3
<1>5. \A i \in 1..(p - m) : zeros[i] = ZeroHash
  OBVIOUS
<1> HIDE DEF p, zeros, S
<1>6. /\ pad \in Seq(S) /\ Len(pad) = m + (p - m)
      /\ \A i \in 1..(m + (p - m)) : pad[i] = IF i <= m THEN leaves[i] ELSE zeros[i - m]
  <2>1. /\ pad \in Seq(S) /\ Len(pad) = Len(leaves) + Len(zeros)
        /\ \A i \in 1..(Len(leaves) + Len(zeros)) :
             pad[i] = IF i <= Len(leaves) THEN leaves[i] ELSE zeros[i - Len(leaves)]
    BY <1>2, <1>4, ConcatProperties
  <2> HIDE DEF pad
  <2> QED
    BY <1>2, <1>4, <2>1
<1>7. m + (p - m) = p
  BY <1>1
<1>8. \A i \in 1..p : ~(i <= m) => i - m \in 1..(p - m)
  BY <1>1
<1>9. IsList(pad, p)
  <2> HIDE DEF pad
  <2>1. DOMAIN pad = 1..p /\ pad \in [1..p -> S]
    BY <1>6, <1>7, LenProperties
  <2> QED
    BY <1>1, <2>1 DEF IsList
<1> QED
  BY <1>3, <1>5, <1>6, <1>7, <1>8, <1>9 DEF p

LevelsOf(f, nodes, d) == f = [k \in 0..d |-> IF k = 0 THEN nodes ELSE Merged(f[k - 1])]

\* The loop of compute_merkle_root ends.
LEMMA LevelsExist ==
  ASSUME NEW nodes, NEW d \in Nat
  PROVE  \E f : LevelsOf(f, nodes, d) /\ Levels(nodes, d) = f[d]
<1> DEFINE Good == {m \in 0..d : \E f : LevelsOf(f, nodes, m)}
<1>1. 0 \in Good
  <2>1. LevelsOf([k \in 0..0 |-> nodes], nodes, 0)
    BY DEF LevelsOf
  <2> QED
    BY <2>1
<1>2. ASSUME NEW m \in 0..d, m # d, m \in Good
      PROVE  m + 1 \in Good
  <2>1. PICK f : LevelsOf(f, nodes, m)
    BY <1>2
  <2> DEFINE g == [k \in 0..(m + 1) |-> IF k = m + 1 THEN Merged(f[m]) ELSE f[k]]
  <2>2. ASSUME NEW k \in 0..(m + 1)
        PROVE  g[k] = IF k = 0 THEN nodes ELSE Merged(g[k - 1])
    <3>1. CASE k = m + 1
      BY <3>1
    <3>2. CASE k \in 0..m
      <4>1. g[k] = IF k = 0 THEN nodes ELSE Merged(f[k - 1])
        BY <2>1, <3>2 DEF LevelsOf
      <4>2. k # 0 => g[k - 1] = f[k - 1]
        BY <3>2
      <4> QED
        BY <4>1, <4>2
    <3> QED
      BY <3>1, <3>2
  <2>3. LevelsOf(g, nodes, m + 1)
    BY <2>2 DEF LevelsOf
  <2>4. m + 1 \in 0..d
    BY <1>2
  <2> HIDE DEF g
  <2> QED
    BY <2>3, <2>4
<1>3. d \in Good
  <2> HIDE DEF Good
  <2>1. 0..d \subseteq Good
    BY <1>1, <1>2, CountUp
  <2> QED
    BY <2>1
<1>4. \E f : LevelsOf(f, nodes, d)
  BY <1>3
<1>5. Levels(nodes, d) = (CHOOSE f : LevelsOf(f, nodes, d))[d]
  BY DEF Levels, LevelsOf
<1> QED
  BY <1>4, <1>5

\* Every level is half as long as the one below it.
LEMMA LevelLengths ==
  ASSUME NEW nodes, NEW d \in Nat, IsList(nodes, Power(2, d)), NEW f, LevelsOf(f, nodes, d)
  PROVE  /\ f[0] = nodes
         /\ \A k \in 0..d : IsList(f[k], Power(2, d - k))
         /\ \A k \in 0..d : k # d =>
              /\ f[k + 1] = Merged(f[k])
              /\ Power(2, d - k) = 2 * Power(2, d - (k + 1))
<1> DEFINE Good == {k \in 0..d : IsList(f[k], Power(2, d - k))}
<1>1. f[0] = nodes
  BY DEF LevelsOf
<1>2. 0 \in Good
  BY <1>1
<1>3. ASSUME NEW k \in 0..d, k # d
      PROVE  /\ f[k + 1] = Merged(f[k])
             /\ Power(2, d - k) = 2 * Power(2, d - (k + 1))
             /\ d - (k + 1) \in Nat /\ k + 1 \in 0..d
  <2>1. k + 1 \in 0..d /\ k + 1 # 0 /\ (k + 1) - 1 = k
    BY <1>3
  <2>2. f[k + 1] = Merged(f[(k + 1) - 1])
    BY <2>1 DEF LevelsOf
  <2>3. d - (k + 1) \in Nat /\ d - k = (d - (k + 1)) + 1
    BY <1>3
  <2>4. Power(2, d - k) = 2 * Power(2, d - (k + 1))
    BY <2>3, PowerRec
  <2> QED
    BY <2>1, <2>2, <2>3, <2>4
<1>4. ASSUME NEW k \in 0..d, k # d, k \in Good
      PROVE  k + 1 \in Good
  <2>1. Power(2, d - (k + 1)) \in Nat
    BY <1>3, <1>4, PowerType
  <2>2. IsList(Merged(f[k]), Power(2, d - (k + 1)))
    BY <1>3, <1>4, <2>1, MergedList
  <2> QED
    BY <1>3, <1>4, <2>2
<1>5. 0..d \subseteq Good
  <2> HIDE DEF Good
  <2> QED
    BY <1>2, <1>4, CountUp
<1> QED
  BY <1>1, <1>3, <1>5

\* compute_merkle_root, its special case for one leaf included.
LEMMA RootOfTree ==
  ASSUME NEW leaves, NEW m \in Nat \ {0}, IsList(leaves, m)
  PROVE  \E f : /\ LevelsOf(f, Pad(leaves), Height(m))
                /\ ComputeMerkleRoot(leaves) = f[Height(m)][1]
<1>1. Len(leaves) = m
  BY ListLen
<1>2. Height(m) \in Nat
  BY HeightOK
<1>3. PICK f : LevelsOf(f, Pad(leaves), Height(m)) /\ Levels(Pad(leaves), Height(m)) = f[Height(m)]
  BY <1>2, LevelsExist
<1>4. ComputeMerkleRoot(leaves) = f[Height(m)][1]
  <2>1. CASE m = 1
    <3>1. Height(m) = 0 /\ Power(2, 0) = 1
      BY <2>1, HeightOK, PowerRec
    <3>2. f[0] = Pad(leaves)
      BY <1>2, <1>3 DEF LevelsOf
    <3>3. Pad(leaves)[1] = leaves[1]
      BY <2>1, <3>1, PadList
    <3> QED
      BY <1>1, <2>1, <3>1, <3>2, <3>3 DEF ComputeMerkleRoot
  <2>2. CASE m # 1
    BY <1>1, <1>3, <2>2 DEF ComputeMerkleRoot
  <2> QED
    BY <2>1, <2>2
<1> QED
  BY <1>3, <1>4

\* compute_merkle_root binds the leaves and their number: a leaf is no inner
\* node and no padding, so equal roots go back to equal lists of leaves.
LEMMA SameRoot ==
  ASSUME NEW a, NEW m \in Nat \ {0}, IsList(a, m), \A i \in 1..m : a[i][1] = "leaf",
         NEW b, NEW n \in Nat \ {0}, IsList(b, n), \A i \in 1..n : b[i][1] = "leaf",
         Height(m) <= Height(n), ComputeMerkleRoot(a) = ComputeMerkleRoot(b)
  PROVE  m = n /\ a = b
<1> DEFINE x == Height(m)
           y == Height(n)
<1>1. x \in Nat /\ y \in Nat /\ x <= y
  BY HeightOK
<1>2. PICK f : LevelsOf(f, Pad(a), x) /\ ComputeMerkleRoot(a) = f[x][1]
  BY RootOfTree
<1>3. PICK g : LevelsOf(g, Pad(b), y) /\ ComputeMerkleRoot(b) = g[y][1]
  BY RootOfTree
<1>4. /\ IsList(Pad(a), Power(2, x))
      /\ \A i \in 1..Power(2, x) : Pad(a)[i] = IF i <= m THEN a[i] ELSE ZeroHash
  BY PadList
<1>5. /\ IsList(Pad(b), Power(2, y))
      /\ \A i \in 1..Power(2, y) : Pad(b)[i] = IF i <= n THEN b[i] ELSE ZeroHash
  BY PadList
<1>6. Power(2, x) \in Nat /\ Power(2, x) >= m /\ Power(2, y) \in Nat /\ Power(2, y) >= n
  BY HeightOK, PowerType
<1> HIDE DEF x, y
<1>7. /\ f[0] = Pad(a)
      /\ \A k \in 0..x : IsList(f[k], Power(2, x - k))
      /\ \A k \in 0..x : k # x => f[k + 1] = Merged(f[k])
  BY <1>1, <1>2, <1>4, LevelLengths
<1>8. /\ g[0] = Pad(b)
      /\ \A k \in 0..y : IsList(g[k], Power(2, y - k))
      /\ \A k \in 0..y : k # y => g[k + 1] = Merged(g[k])
  BY <1>1, <1>3, <1>5, LevelLengths
<1> DEFINE Good == {i \in 0..x : f[x - i] = g[y - i]}
<1>9. 0 \in Good
  <2>1. IsList(f[x], 1) /\ IsList(g[y], 1)
    <3>1. x \in 0..x /\ y \in 0..y /\ x - x = 0 /\ y - y = 0
      BY <1>1
    <3>2. Power(2, 0) = 1
      BY PowerRec
    <3>3. IsList(f[x], Power(2, x - x)) /\ IsList(g[y], Power(2, y - y))
      BY <1>7, <1>8, <3>1
    <3> QED
      BY <3>1, <3>2, <3>3
  <2>2. \A i \in 1..1 : f[x][i] = g[y][i]
    <3>1. f[x][1] = g[y][1]
      BY <1>2, <1>3, ComputeMerkleRoot(a) = ComputeMerkleRoot(b)
    <3>2. \A i \in 1..1 : i = 1
      OBVIOUS
    <3> QED
      BY <3>1, <3>2
  <2>3. f[x] = g[y]
    BY <2>1, <2>2, SameList
  <2> QED
    BY <1>1, <2>3
<1>10. ASSUME NEW i \in 0..x, i # x, i \in Good
       PROVE  i + 1 \in Good
  <2> DEFINE s == f[x - (i + 1)]
             t == g[y - (i + 1)]
             p == Power(2, i)
  <2>1. /\ i + 1 \in 0..x /\ i \in Nat
        /\ x - (i + 1) \in 0..x /\ x - (i + 1) # x /\ (x - (i + 1)) + 1 = x - i
        /\ y - (i + 1) \in 0..y /\ y - (i + 1) # y /\ (y - (i + 1)) + 1 = y - i
        /\ x - (x - (i + 1)) = i + 1 /\ y - (y - (i + 1)) = i + 1
    BY <1>1, <1>10
  <2>2. p \in Nat /\ Power(2, i + 1) = 2 * p
    BY <2>1, PowerRec, PowerType
  <2>3. IsList(s, 2 * p) /\ IsList(t, 2 * p)
    <3>1. IsList(s, Power(2, x - (x - (i + 1)))) /\ IsList(t, Power(2, y - (y - (i + 1))))
      BY <1>7, <1>8, <2>1
    <3> QED
      BY <2>1, <2>2, <3>1
  <2>4. Merged(s) = Merged(t)
    <3>1. f[x - i] = Merged(s) /\ g[y - i] = Merged(t)
      <4>1. f[(x - (i + 1)) + 1] = Merged(s) /\ g[(y - (i + 1)) + 1] = Merged(t)
        BY <1>7, <1>8, <2>1
      <4> QED
        BY <2>1, <4>1
    <3> QED
      BY <1>10, <3>1
  <2> HIDE DEF s, t, p
  <2>5. \A j \in 1..p : s[2 * j - 1] = t[2 * j - 1] /\ s[2 * j] = t[2 * j]
    <3> TAKE j \in 1..p
    <3>1. Hash2(s[2 * j - 1], s[2 * j]) = Hash2(t[2 * j - 1], t[2 * j])
      BY <2>2, <2>3, <2>4, MergedList, ZenonT(60)
    <3> QED
      BY <3>1 DEF Hash2
  <2>6. \A j \in 1..(2 * p) : s[j] = t[j]
    <3> TAKE j \in 1..(2 * p)
    <3>1. PICK h \in 1..p : j = 2 * h - 1 \/ j = 2 * h
      <4>1. (j + 1) \div 2 \in 1..p /\ (j = 2 * ((j + 1) \div 2) - 1 \/ j = 2 * ((j + 1) \div 2))
        BY <2>2
      <4> QED
        BY <4>1
    <3> QED
      BY <2>5, <3>1
  <2>7. s = t
    BY <2>3, <2>6, SameList
  <2> QED
    BY <2>1, <2>7 DEF s, t
<1>11. Pad(a) = g[y - x]
  <2>1. 0..x \subseteq Good
    <3> HIDE DEF Good
    <3> QED
      BY <1>1, <1>9, <1>10, CountUp
  <2>2. x \in Good /\ x - x = 0
    BY <1>1, <2>1
  <2> QED
    BY <1>7, <2>2
<1>12. Pad(a)[1][1] = "leaf"
  <2>1. 1 \in 1..Power(2, x) /\ 1 <= m
    BY <1>6
  <2> QED
    BY <1>4, <2>1
<1>13. x = y
  <2> SUFFICES ASSUME x # y
               PROVE  FALSE
    OBVIOUS
  <2> DEFINE k == (y - x) - 1
             p == Power(2, x)
  <2>1. k \in 0..y /\ k # y /\ k + 1 = y - x /\ y - k = x + 1
    BY <1>1
  <2>2. p \in Nat \ {0} /\ Power(2, x + 1) = 2 * p
    <3>1. p \in Nat \ {0}
      BY <1>1, PowerType
    <3>2. Power(2, x + 1) = 2 * Power(2, x)
      BY <1>1, PowerRec
    <3> QED
      BY <3>1, <3>2
  <2>3. IsList(g[k], 2 * p) /\ g[y - x] = Merged(g[k])
    <3>1. IsList(g[k], Power(2, y - k)) /\ g[k + 1] = Merged(g[k])
      BY <1>8, <2>1
    <3> QED
      BY <2>1, <2>2, <3>1
  <2> HIDE DEF k, p
  <2>4. g[y - x][1] = Hash2(g[k][1], g[k][2])
    <3>1. 1 \in 1..p
      BY <2>2
    <3>2. Merged(g[k])[1] = Hash2(g[k][2 * 1 - 1], g[k][2 * 1])
      BY <2>2, <2>3, <3>1, MergedList
    <3> QED
      BY <2>3, <3>2
  <2>5. g[y - x][1][1] = "node"
    BY <2>4 DEF Hash2
  <2> QED
    BY <1>11, <1>12, <2>5
<1>14. Pad(a) = Pad(b)
  BY <1>1, <1>8, <1>11, <1>13
<1>15. \A i \in 1..Power(2, x) :
         (IF i <= m THEN a[i] ELSE ZeroHash) = (IF i <= n THEN b[i] ELSE ZeroHash)
  BY <1>4, <1>5, <1>13, <1>14
<1>16. ZeroHash[1] # "leaf"
  BY DEF ZeroHash
<1>17. m = n
  <2>1. CASE m < n
    <3>1. n \in 1..Power(2, x) /\ ~(n <= m) /\ n \in 1..n
      BY <1>6, <1>13, <2>1
    <3>2. ZeroHash = b[n]
      BY <1>15, <3>1
    <3> QED
      BY <1>16, <3>1, <3>2
  <2>2. CASE n < m
    <3>1. m \in 1..Power(2, x) /\ ~(m <= n) /\ m \in 1..m
      BY <1>6, <2>2
    <3>2. ZeroHash = a[m]
      BY <1>15, <3>1
    <3> QED
      BY <1>16, <3>1, <3>2
  <2> QED
    BY <2>1, <2>2
<1>18. \A i \in 1..m : a[i] = b[i]
  BY <1>6, <1>15, <1>17
<1> QED
  BY <1>17, <1>18, SameList

\* One level of RootByHalves, given the level below it.
HalvesStep(below, leaves, d, k) ==
  [lo \in 1..(Power(2, d) - Power(2, k) + 1) |->
     IF k = 0 THEN IF lo <= Len(leaves) THEN leaves[lo] ELSE ZeroHash
     ELSE Hash2(below[lo], below[lo + Power(2, k - 1)])]

HalvesOf(f, leaves, d, m) == f = [k \in 0..m |-> HalvesStep(f[k - 1], leaves, d, k)]

\* The recursion of RootByHalves is one on the levels up to d.
LEMMA HalvesExist ==
  ASSUME NEW leaves, NEW d, d = Height(Len(leaves)), d \in Nat
  PROVE  \E f : HalvesOf(f, leaves, d, d) /\ RootByHalves(leaves) = f[d][1]
<1> DEFINE Good == {m \in 0..d : \E f : HalvesOf(f, leaves, d, m)}
<1>1. 0 \in Good
  <2> DEFINE g == [k \in 0..0 |-> HalvesStep(0, leaves, d, k)]
  <2>1. \A below : HalvesStep(below, leaves, d, 0) = HalvesStep(0, leaves, d, 0)
    BY DEF HalvesStep
  <2>2. \A k \in 0..0 : g[k] = HalvesStep(g[k - 1], leaves, d, k)
    <3>1. \A k \in 0..0 : k = 0
      OBVIOUS
    <3>2. g[0] = HalvesStep(0, leaves, d, 0)
      OBVIOUS
    <3> HIDE DEF g
    <3> QED
      BY <2>1, <3>1, <3>2
  <2>3. HalvesOf(g, leaves, d, 0)
    BY <2>2 DEF HalvesOf
  <2> HIDE DEF g
  <2> QED
    BY <2>3
<1>2. ASSUME NEW m \in 0..d, m # d, m \in Good
      PROVE  m + 1 \in Good
  <2>1. PICK f : HalvesOf(f, leaves, d, m)
    BY <1>2
  <2> DEFINE g == [k \in 0..(m + 1) |-> IF k = m + 1 THEN HalvesStep(f[m], leaves, d, m + 1) ELSE f[k]]
  <2>2. ASSUME NEW k \in 0..(m + 1)
        PROVE  g[k] = HalvesStep(g[k - 1], leaves, d, k)
    <3>1. CASE k = m + 1
      BY <3>1
    <3>2. CASE k \in 0..m /\ k # 0
      <4>1. g[k] = HalvesStep(f[k - 1], leaves, d, k)
        BY <2>1, <3>2 DEF HalvesOf
      <4>2. g[k - 1] = f[k - 1]
        BY <3>2
      <4> QED
        BY <4>1, <4>2
    <3>3. CASE k = 0
      <4>1. g[0] = HalvesStep(f[0 - 1], leaves, d, 0)
        BY <2>1 DEF HalvesOf
      <4>2. \A u, v : HalvesStep(u, leaves, d, 0) = HalvesStep(v, leaves, d, 0)
        BY DEF HalvesStep
      <4> HIDE DEF g
      <4> QED
        BY <3>3, <4>1, <4>2
    <3> QED
      BY <3>1, <3>2, <3>3
  <2>3. HalvesOf(g, leaves, d, m + 1)
    BY <2>2 DEF HalvesOf
  <2>4. m + 1 \in 0..d
    BY <1>2
  <2> HIDE DEF g
  <2> QED
    BY <2>3, <2>4
<1>3. d \in Good
  <2> HIDE DEF Good
  <2>1. 0..d \subseteq Good
    BY <1>1, <1>2, CountUp
  <2> QED
    BY <2>1
<1>4. \E f : HalvesOf(f, leaves, d, d)
  BY <1>3
<1>5. RootByHalves(leaves) = (CHOOSE f : HalvesOf(f, leaves, d, d))[d][1]
  BY d = Height(Len(leaves)) DEF RootByHalves, HalvesOf, HalvesStep
<1> QED
  BY <1>4, <1>5

\* A node of level k is the root over 2^k leaves: compute_merkle_root builds the
\* tree that RootByHalves describes from the root down.
LEMMA TreeByHalves ==
  ASSUME NEW leaves, NEW m \in Nat \ {0}, IsList(leaves, m)
  PROVE  ComputeMerkleRoot(leaves) = RootByHalves(leaves)
<1> DEFINE d == Height(m)
           P(k) == Power(2, k)
<1>1. Len(leaves) = m /\ d \in Nat
  <2>1. Len(leaves) = m
    BY ListLen
  <2>2. Height(m) \in 0..m
    BY HeightOK
  <2> QED
    BY <2>1, <2>2
<1>2. PICK f : LevelsOf(f, Pad(leaves), d) /\ ComputeMerkleRoot(leaves) = f[d][1]
  BY RootOfTree
<1>3. /\ IsList(Pad(leaves), P(d))
      /\ \A i \in 1..P(d) : Pad(leaves)[i] = IF i <= m THEN leaves[i] ELSE ZeroHash
  BY PadList
<1> HIDE DEF d
<1>4. PICK g : HalvesOf(g, leaves, d, d) /\ RootByHalves(leaves) = g[d][1]
  BY <1>1, HalvesExist DEF d
<1>5. /\ f[0] = Pad(leaves)
      /\ \A k \in 0..d : IsList(f[k], P(d - k))
      /\ \A k \in 0..d : k # d => f[k + 1] = Merged(f[k]) /\ P(d - k) = 2 * P(d - (k + 1))
  BY <1>1, <1>2, <1>3, LevelLengths
<1>6. \A k \in 0..d : /\ P(k) \in Nat \ {0} /\ P(d - k) \in Nat \ {0}
                      /\ P(d) = P(d - k) * P(k) /\ P(k + 1) = 2 * P(k)
  <2> TAKE k \in 0..d
  <2>1. k \in Nat /\ d - k \in Nat /\ (d - k) + k = d
    BY <1>1
  <2>2. Power(2, (d - k) + k) = Power(2, d - k) * Power(2, k) /\ Power(2, k + 1) = 2 * Power(2, k)
    BY <2>1, PowerSum, PowerRec
  <2>3. Power(2, k) \in Nat \ {0} /\ Power(2, d - k) \in Nat \ {0}
    BY <2>1, PowerType
  <2> QED
    BY <2>1, <2>2, <2>3
<1> HIDE DEF P
<1> DEFINE Good == {k \in 0..d : \A j \in 1..P(d - k) : f[k][j] = g[k][(j - 1) * P(k) + 1]}
<1>7. 0 \in Good
  <2>1. P(0) = 1 /\ d - 0 = d /\ P(d) \in Nat
    BY <1>1, <1>6, PowerRec DEF P
  <2>2. \A j \in 1..P(d) : g[0][j] = IF j <= m THEN leaves[j] ELSE ZeroHash
    <3>1. g[0] = HalvesStep(g[0 - 1], leaves, d, 0)
      BY <1>1, <1>4 DEF HalvesOf
    <3>2. P(d) - P(0) + 1 = P(d)
      BY <2>1
    <3>3. g[0] = [lo \in 1..P(d) |-> IF lo <= m THEN leaves[lo] ELSE ZeroHash]
      BY <1>1, <3>1, <3>2 DEF HalvesStep, P
    <3> QED
      BY <3>3
  <2>3. ASSUME NEW j \in 1..P(d)
        PROVE  f[0][j] = g[0][(j - 1) * P(0) + 1]
    <3>1. (j - 1) * P(0) + 1 = j
      BY <2>1
    <3> QED
      BY <1>3, <1>5, <2>2, <3>1
  <2> QED
    BY <1>1, <2>1, <2>3
<1>8. ASSUME NEW k \in 0..d, k # d, k \in Good
      PROVE  k + 1 \in Good
  <2> DEFINE p == P(k)
             q == P(d - (k + 1))
  <2>1. k + 1 \in 0..d /\ (k + 1) - 1 = k /\ k + 1 # 0
    BY <1>1, <1>8
  <2>2. /\ p \in Nat \ {0} /\ q \in Nat \ {0} /\ P(k + 1) = 2 * p /\ P(d - k) = 2 * q
        /\ P(d) = q * (2 * p)
    <3>1. P(d) = P(d - (k + 1)) * P(k + 1)
      BY <1>6, <2>1
    <3>2. q \in Nat \ {0} /\ p \in Nat \ {0} /\ P(k + 1) = 2 * p
      BY <1>6, <2>1
    <3>3. P(d - k) = 2 * q
      BY <1>5, <1>8
    <3> QED
      BY <3>1, <3>2, <3>3
  <2>3. f[k + 1] = Merged(f[k]) /\ IsList(f[k], 2 * q)
    <3>1. IsList(f[k], P(d - k)) /\ f[k + 1] = Merged(f[k])
      BY <1>5, <1>8
    <3> QED
      BY <2>2, <3>1
  <2>4. g[k + 1] = [lo \in 1..(P(d) - P(k + 1) + 1) |-> Hash2(g[k][lo], g[k][lo + p])]
    <3>1. g[k + 1] = HalvesStep(g[(k + 1) - 1], leaves, d, k + 1)
      BY <1>4, <2>1 DEF HalvesOf
    <3>2. HalvesStep(g[k], leaves, d, k + 1) =
            [lo \in 1..(P(d) - P(k + 1) + 1) |-> Hash2(g[k][lo], g[k][lo + Power(2, (k + 1) - 1)])]
      BY <2>1 DEF HalvesStep, P
    <3> QED
      BY <2>1, <3>1, <3>2 DEF P
  <2>5. \A j \in 1..(2 * q) : f[k][j] = g[k][(j - 1) * p + 1]
    BY <1>8, <2>2
  <2>6. ASSUME NEW j \in 1..q
        PROVE  f[k + 1][j] = g[k + 1][(j - 1) * P(k + 1) + 1]
    <3> DEFINE lo == (j - 1) * (2 * p) + 1
    <3>1. f[k + 1][j] = Hash2(f[k][2 * j - 1], f[k][2 * j])
      BY <2>2, <2>3, MergedList
    <3>2. 2 * j - 1 \in 1..(2 * q) /\ 2 * j \in 1..(2 * q)
      BY <2>2
    <3>3. f[k][2 * j - 1] = g[k][((2 * j - 1) - 1) * p + 1] /\ f[k][2 * j] = g[k][(2 * j - 1) * p + 1]
      BY <2>5, <3>2
    <3>4. ((2 * j - 1) - 1) * p + 1 = lo /\ (2 * j - 1) * p + 1 = lo + p
      <4>1. \A u \in Nat \ {0}, v \in Nat :
              /\ ((2 * u - 1) - 1) * v + 1 = (u - 1) * (2 * v) + 1
              /\ (2 * u - 1) * v + 1 = ((u - 1) * (2 * v) + 1) + v
        OBVIOUS
      <4> QED
        BY <2>2, <4>1
    <3>5. lo \in 1..(P(d) - P(k + 1) + 1)
      <4>1. \A u \in Nat \ {0}, v \in Nat, w \in Nat : u <= v =>
              /\ (u - 1) * w + 1 \in Nat /\ (u - 1) * w + 1 >= 1
              /\ (u - 1) * w + 1 <= v * w - w + 1
        <5> TAKE u \in Nat \ {0}, v \in Nat, w \in Nat
        <5> HAVE u <= v
        <5>1. PICK z \in Nat : v = u + z
          <6>1. v - u \in Nat /\ v = u + (v - u)
            OBVIOUS
          <6> QED
            BY <6>1
        <5>2. PICK t \in Nat : u = t + 1
          <6>1. u - 1 \in Nat /\ u = (u - 1) + 1
            OBVIOUS
          <6> QED
            BY <6>1
        <5>3. (u - 1) * w = t * w /\ v * w = t * w + w + z * w
          BY <5>1, <5>2
        <5>4. t * w \in Nat /\ z * w \in Nat
          OBVIOUS
        <5> HIDE DEF P
        <5> QED
          BY <5>3, <5>4
      <4>2. j \in Nat \ {0} /\ q \in Nat /\ j <= q /\ 2 * p \in Nat
        BY <2>2
      <4>3. lo \in Nat /\ lo >= 1 /\ lo <= q * (2 * p) - (2 * p) + 1
        BY <4>1, <4>2
      <4> HIDE DEF lo, p, q
      <4> QED
        BY <2>2, <4>3
    <3> HIDE DEF lo, p, q
    <3>6. g[k + 1][lo] = Hash2(g[k][lo], g[k][lo + p])
      BY <2>4, <3>5
    <3> QED
      BY <2>2, <3>1, <3>3, <3>4, <3>6 DEF lo
  <2> QED
    BY <2>1, <2>6
<1>9. d \in Good
  <2>1. 0..d \subseteq Good
    <3> HIDE DEF Good
    <3> QED
      BY <1>1, <1>7, <1>8, CountUp
  <2> QED
    BY <1>1, <2>1
<1>10. f[d][1] = g[d][1]
  <2>1. P(d - d) = 1 /\ P(d) \in Nat
    BY <1>1, <1>6, PowerRec DEF P
  <2>2. 1 \in 1..P(d - d) /\ (1 - 1) * P(d) + 1 = 1
    BY <2>1
  <2> QED
    BY <1>9, <2>2
<1> QED
  BY <1>2, <1>4, <1>10

\* compute_merkle_root on the leaves of any batch: bottom-up merging of the
\* padded leaves gives the root of the complete binary tree over them.
THEOREM RootOfAnyTree == Spec => []RootIsTreeRoot
<1>1. BatchesOK => RootIsTreeRoot
  <2> SUFFICES ASSUME BatchesOK, receipts # <<>>
               PROVE  LET leaves == [i \in DOMAIN receipts |-> LeafHash(<<i, receipts[i].weight>>)]
                      IN  ComputeMerkleRoot(leaves) = RootByHalves(leaves)
    BY DEF RootIsTreeRoot
  <2> DEFINE leaves == [i \in DOMAIN receipts |-> LeafHash(<<i, receipts[i].weight>>)]
  <2>1. Len(receipts) \in Nat \ {0} /\ DOMAIN receipts = 1..Len(receipts)
    BY DEF BatchesOK
  <2>2. IsList(leaves, Len(receipts))
    BY <2>1 DEF IsList
  <2> HIDE DEF leaves
  <2>3. ComputeMerkleRoot(leaves) = RootByHalves(leaves)
    BY <2>1, <2>2, TreeByHalves
  <2> QED
    BY <2>3 DEF leaves
<1> QED
  BY <1>1, BatchesOKAlways, PTL
-----------------------------------------------------------------------------
(***************************************************************************)
(* The bytes of an output.                                                 *)
(***************************************************************************)

\* to_le_bytes and from_le_bytes: a number that fits into the bytes is read
\* back from them.
LEMMA LittleEndianRead ==
  ASSUME NEW w \in Nat, NEW n \in Nat, n < Power(ByteBase, w)
  PROVE  /\ IsList(LittleEndian(n, w), w)
         /\ FromLittleEndian(LittleEndian(n, w)) = n
<1>1. ByteBase \in Nat \ {0}
  BY DistributionAssumption
<1> QED
  BY <1>1, DigitsRead DEF LittleEndian, FromLittleEndian

\* The layout of an output: root, total weight, number of entries, pool.
Fields(r, a, b, p) == <<r>> \o a \o b \o <<p>>

\* Every field of the output is at its place.
LEMMA Layout ==
  ASSUME NEW r, NEW a, IsList(a, 8), NEW b, IsList(b, 4), NEW p
  PROVE  LET s == Fields(r, a, b, p)
         IN  /\ IsList(s, OutputLength) /\ s[1] = r /\ s[14] = p
             /\ SubSeq(s, 2, 9) = a /\ SubSeq(s, 10, 13) = b
<1> DEFINE S == {r, p} \cup {a[i] : i \in 1..8} \cup {b[i] : i \in 1..4}
           c == <<r>> \o a
           d == c \o b
           s == d \o <<p>>
<1>1. <<r>> \in Seq(S) /\ Len(<<r>>) = 1 /\ <<r>>[1] = r /\ <<p>> \in Seq(S) /\ Len(<<p>>) = 1 /\ <<p>>[1] = p
  OBVIOUS
<1>2. a \in Seq(S) /\ Len(a) = 8 /\ b \in Seq(S) /\ Len(b) = 4
  <2>1. a \in Seq({a[i] : i \in 1..8}) /\ Len(a) = 8 /\ b \in Seq({b[i] : i \in 1..4}) /\ Len(b) = 4
    BY ListLen
  <2> QED
    BY <2>1
<1> HIDE DEF S
<1>3. /\ c \in Seq(S) /\ Len(c) = 9
      /\ c[1] = r /\ \A i \in 1..8 : c[i + 1] = a[i]
  <2>1. /\ c \in Seq(S) /\ Len(c) = Len(<<r>>) + Len(a)
        /\ \A i \in 1..(Len(<<r>>) + Len(a)) :
             c[i] = IF i <= Len(<<r>>) THEN <<r>>[i] ELSE a[i - Len(<<r>>)]
    BY <1>1, <1>2, ConcatProperties
  <2> HIDE DEF c
  <2>2. \A i \in 1..9 : c[i] = IF i <= 1 THEN <<r>>[i] ELSE a[i - 1]
    BY <1>1, <1>2, <2>1
  <2>3. \A i \in 1..8 : i + 1 \in 1..9 /\ ~(i + 1 <= 1) /\ (i + 1) - 1 = i
    OBVIOUS
  <2> QED
    BY <1>1, <1>2, <2>1, <2>2, <2>3
<1> HIDE DEF c
<1>4. /\ d \in Seq(S) /\ Len(d) = 13
      /\ \A i \in 1..9 : d[i] = c[i]
      /\ \A i \in 1..4 : d[i + 9] = b[i]
  <2>1. /\ d \in Seq(S) /\ Len(d) = Len(c) + Len(b)
        /\ \A i \in 1..(Len(c) + Len(b)) : d[i] = IF i <= Len(c) THEN c[i] ELSE b[i - Len(c)]
    BY <1>2, <1>3, ConcatProperties
  <2> HIDE DEF d
  <2>2. \A i \in 1..13 : d[i] = IF i <= 9 THEN c[i] ELSE b[i - 9]
    BY <1>2, <1>3, <2>1, SMTT(40)
  <2>3. \A i \in 1..4 : i + 9 \in 1..13 /\ ~(i + 9 <= 9) /\ (i + 9) - 9 = i
    OBVIOUS
  <2> QED
    BY <1>2, <1>3, <2>1, <2>2, <2>3
<1> HIDE DEF d
<1>5. /\ s \in Seq(S) /\ Len(s) = 14 /\ s[14] = p
      /\ \A i \in 1..13 : s[i] = d[i]
  <2>1. /\ s \in Seq(S) /\ Len(s) = Len(d) + Len(<<p>>)
        /\ \A i \in 1..(Len(d) + Len(<<p>>)) :
             s[i] = IF i <= Len(d) THEN d[i] ELSE <<p>>[i - Len(d)]
    BY <1>1, <1>4, ConcatProperties, ZenonT(60)
  <2> HIDE DEF s
  <2>2. \A i \in 1..14 : s[i] = IF i <= 13 THEN d[i] ELSE <<p>>[i - 13]
    BY <1>1, <1>4, <2>1
  <2>3. s[14] = <<p>>[14 - 13]
    BY <2>2
  <2> QED
    BY <1>1, <1>4, <2>1, <2>2, <2>3
<1> HIDE DEF s
<1>6. s[1] = r
  BY <1>3, <1>4, <1>5
<1>7. /\ \A i \in 1..8 : s[i + 1] = a[i]
      /\ \A i \in 1..4 : s[i + 9] = b[i]
  <2>1. \A i \in 1..8 : i + 1 \in 1..9 /\ i + 1 \in 1..13
    OBVIOUS
  <2>2. \A i \in 1..4 : i + 9 \in 1..13
    OBVIOUS
  <2> QED
    BY <1>3, <1>4, <1>5, <2>1, <2>2
<1>8. \A i \in 1..14 : s[i] \in S
  BY <1>5, LenProperties
<1>9. SubSeq(s, 2, 9) = a
  <2>1. \A i \in 2..9 : s[i] \in S
    BY <1>8
  <2>2. /\ SubSeq(s, 2, 9) \in Seq(S) /\ Len(SubSeq(s, 2, 9)) = 9 - 2 + 1
        /\ \A i \in 1..(9 - 2 + 1) : SubSeq(s, 2, 9)[i] = s[2 + i - 1]
    BY <2>1, SubSeqProperties
  <2>3. \A i \in 1..8 : 2 + i - 1 = i + 1 /\ i \in 1..(9 - 2 + 1)
    OBVIOUS
  <2>4. \A i \in 1..8 : SubSeq(s, 2, 9)[i] = a[i]
    BY <1>7, <2>2, <2>3
  <2> QED
    BY <1>2, <2>2, <2>4, SeqEqual
<1>10. SubSeq(s, 10, 13) = b
  <2>1. \A i \in 10..13 : s[i] \in S
    BY <1>8
  <2>2. /\ SubSeq(s, 10, 13) \in Seq(S) /\ Len(SubSeq(s, 10, 13)) = 13 - 10 + 1
        /\ \A i \in 1..(13 - 10 + 1) : SubSeq(s, 10, 13)[i] = s[10 + i - 1]
    BY <2>1, SubSeqProperties
  <2>3. \A i \in 1..4 : 10 + i - 1 = i + 9 /\ i \in 1..(13 - 10 + 1)
    OBVIOUS
  <2>4. \A i \in 1..4 : SubSeq(s, 10, 13)[i] = b[i]
    BY <1>7, <2>2, <2>3
  <2> QED
    BY <1>2, <2>2, <2>4, SeqEqual
<1>11. IsList(s, OutputLength)
  <2>1. DOMAIN s = 1..14 /\ s \in [1..14 -> S]
    BY <1>5, LenProperties
  <2> QED
    BY <2>1 DEF IsList, OutputLength
<1> QED
  BY <1>5, <1>6, <1>9, <1>10, <1>11 DEF Fields, s, d, c

\* A proof is a tag before the output.
LEMMA Prefixed ==
  ASSUME NEW tag, NEW s, NEW n, IsList(s, n)
  PROVE  /\ Len(<<tag>> \o s) = n + 1 /\ (<<tag>> \o s)[1] = tag
         /\ Tail(<<tag>> \o s) = s
<1> DEFINE S == {tag} \cup {s[i] : i \in 1..n}
           c == <<tag>> \o s
<1>1. n \in Nat /\ s \in Seq(S) /\ Len(s) = n
  <2>1. s \in Seq({s[i] : i \in 1..n}) /\ Len(s) = n /\ n \in Nat
    BY ListLen DEF IsList
  <2> QED
    BY <2>1
<1>2. <<tag>> \in Seq(S) /\ Len(<<tag>>) = 1 /\ <<tag>>[1] = tag
  OBVIOUS
<1> HIDE DEF S
<1>3. /\ c \in Seq(S) /\ Len(c) = n + 1
      /\ \A i \in 1..(n + 1) : c[i] = IF i <= 1 THEN <<tag>>[i] ELSE s[i - 1]
  <2>1. /\ c \in Seq(S) /\ Len(c) = Len(<<tag>>) + Len(s)
        /\ \A i \in 1..(Len(<<tag>>) + Len(s)) :
             c[i] = IF i <= Len(<<tag>>) THEN <<tag>>[i] ELSE s[i - Len(<<tag>>)]
    BY <1>1, <1>2, ConcatProperties
  <2>2. Len(<<tag>>) + Len(s) = n + 1
    BY <1>1, <1>2
  <2> HIDE DEF c
  <2> QED
    BY <1>1, <1>2, <2>1, <2>2
<1> HIDE DEF c
<1>4. c[1] = tag
  <2>1. 1 \in 1..(n + 1) /\ 1 <= 1
    BY <1>1
  <2> QED
    BY <1>2, <1>3, <2>1
<1>5. Tail(c) = s
  <2>1. c # <<>>
    BY <1>1, <1>3
  <2>2. /\ Tail(c) \in Seq(S) /\ Len(Tail(c)) = Len(c) - 1
        /\ \A i \in 1..Len(Tail(c)) : Tail(c)[i] = c[i + 1]
    BY <1>3, <2>1, HeadTailProperties
  <2>3. Len(Tail(c)) = n
    BY <1>1, <1>3, <2>2
  <2>4. \A i \in 1..n : i + 1 \in 1..(n + 1) /\ ~(i + 1 <= 1) /\ (i + 1) - 1 = i
    BY <1>1
  <2>5. \A i \in 1..n : c[i + 1] = s[i]
    BY <1>3, <2>4
  <2>6. \A i \in 1..n : Tail(c)[i] = s[i]
    BY <2>2, <2>3, <2>5
  <2> QED
    BY <1>1, <2>2, <2>3, <2>6, SeqEqual
<1> QED
  BY <1>3, <1>4, <1>5 DEF c

-----------------------------------------------------------------------------
(***************************************************************************)
(* What is proved and posted for a batch.                                  *)
(***************************************************************************)

\* MaxReceipts receipts weigh less than the 8 bytes of the total can hold.
LEMMA WeightFits ==
  ASSUME NEW rs \in Seq(Receipts), Len(rs) <= MaxReceipts, Len(rs) > 0
  PROVE  SumOver(WeightOf(rs), DOMAIN rs) < Power(ByteBase, 8)
<1> DEFINE M == MaxReceipts
           P == Power(ByteBase, 8)
           f == WeightOf(rs)
           n == Len(rs)
<1>1. n \in Nat /\ M \in Nat /\ n <= M /\ n > 0 /\ DOMAIN rs = 1..n
  BY DistributionAssumption
<1>2. P \in Nat
  BY DistributionAssumption, PowerType
<1>3. \A i \in 1..n : f[i] \in Nat /\ M * f[i] < P
  <2>1. \A i \in 1..n : rs[i] \in Receipts /\ f[i] = rs[i].weight
    BY <1>1 DEF WeightOf
  <2>2. \A r \in Receipts : r.weight \in Nat /\ M * r.weight < P
    BY DistributionAssumption
  <2> HIDE DEF f, n, M, P
  <2> QED
    BY <2>1, <2>2
<1> HIDE DEF M, P, f, n
<1> DEFINE s(k) == SumOver(f, 1..k)
           Good == {k \in 0..n : s(k) \in Nat /\ M * s(k) <= k * (P - 1)}
<1>4. 0 \in Good
  <2>1. s(0) = 0
    <3>1. 1..0 = {}
      OBVIOUS
    <3> QED
      BY <3>1, SumEmpty
  <2> QED
    BY <1>1, <1>2, <2>1
<1>5. ASSUME NEW k \in 0..n, k # n, k \in Good
      PROVE  k + 1 \in Good
  <2>1. k \in Nat /\ k + 1 \in 0..n /\ k + 1 \in 1..n
    BY <1>1, <1>5
  <2>2. IsFiniteSet(1..(k + 1))
    BY <2>1, FS_Interval
  <2>3. (1..(k + 1)) \ {k + 1} = 1..k /\ k + 1 \in 1..(k + 1) /\ 1..(k + 1) \subseteq 1..n
    BY <1>1, <2>1
  <2>4. \A i \in 1..(k + 1) : f[i] \in Nat
    BY <1>3, <2>3
  <2>5. s(k + 1) = f[k + 1] + SumOver(f, (1..(k + 1)) \ {k + 1})
    BY <2>2, <2>3, <2>4, SumRemove
  <2>6. s(k + 1) = f[k + 1] + s(k)
    BY <2>3, <2>5
  <2> HIDE DEF s
  <2>7. s(k) \in Nat /\ M * s(k) <= k * (P - 1) /\ f[k + 1] \in Nat /\ M * f[k + 1] <= P - 1
    BY <1>1, <1>2, <1>3, <1>5, <2>1
  <2>8. M * s(k + 1) = M * f[k + 1] + M * s(k) /\ (k + 1) * (P - 1) = k * (P - 1) + (P - 1)
    BY <1>1, <1>2, <2>1, <2>6, <2>7
  <2>9. M * f[k + 1] \in Int /\ M * s(k) \in Int /\ k * (P - 1) \in Int
    BY <1>1, <1>2, <2>1, <2>7
  <2>10. M * s(k + 1) <= (k + 1) * (P - 1) /\ s(k + 1) \in Nat
    BY <1>2, <2>6, <2>7, <2>8, <2>9
  <2> QED
    BY <2>1, <2>10
<1>6. n \in Good
  <2>1. 0..n \subseteq Good
    <3> HIDE DEF Good
    <3> QED
      BY <1>1, <1>4, <1>5, CountUp
  <2> QED
    BY <1>1, <2>1
<1> DEFINE t == s(n)
<1>7. t \in Nat /\ M * t <= n * (P - 1)
  BY <1>6
<1>8. t < P
  <2> SUFFICES ASSUME ~(t < P)
               PROVE  FALSE
    OBVIOUS
  <2> HIDE DEF t
  <2>1. PICK x \in Nat : t = P + x
    <3>1. t - P \in Nat /\ t = P + (t - P)
      BY <1>2, <1>7
    <3> QED
      BY <3>1
  <2>2. PICK y \in Nat : M = n + y
    <3>1. M - n \in Nat /\ M = n + (M - n)
      BY <1>1
    <3> QED
      BY <3>1
  <2>3. M * t = n * P + n * x + y * t
    BY <1>1, <1>2, <1>7, <2>1, <2>2
  <2>4. n * (P - 1) = n * P - n
    BY <1>1, <1>2
  <2>5. n * x \in Nat /\ y * t \in Nat /\ n * P \in Nat
    BY <1>1, <1>2, <1>7
  <2> QED
    BY <1>1, <1>7, <2>3, <2>4, <2>5
<1> QED
  BY <1>1, <1>8 DEF f, P

LeavesOf(e) == [i \in DOMAIN e |-> LeafHash(e[i])]

\* The entries of a batch that aggregate_receipts accepts.
LEMMA BatchEntries ==
  ASSUME NEW rs \in Seq(Receipts), Len(rs) <= MaxReceipts, Proved(rs)
  PROVE  LET w == Accumulate(rs)
             e == EntriesOf(w)
             n == Cardinality(DOMAIN w)
         IN  /\ n \in Nat \ {0} /\ n < Power(ByteBase, 4)
             /\ IsList(e, n) /\ Len(e) = n
             /\ IsList(LeavesOf(e), n) /\ \A i \in 1..n : LeavesOf(e)[i] = LeafHash(e[i])
             /\ Total(e) \in Nat /\ Total(e) < Power(ByteBase, 8)
             /\ w = [o \in DOMAIN w |-> w[o]]
             /\ DOMAIN w = {e[i][1] : i \in 1..n}
             /\ \A i \in 1..n : e[i][2] = w[e[i][1]]
<1> DEFINE w == Accumulate(rs)
           e == EntriesOf(w)
           D == DOMAIN w
           n == Cardinality(D)
<1>1. rs \in Seq(Receipt)
  BY ReceiptsTyped
<1>2. Len(rs) > 0 /\ Len(rs) \in Nat /\ DOMAIN rs = 1..Len(rs)
  BY <1>1, ProvedReceipts
<1>3. /\ w = [o \in DOMAIN w |-> w[o]]
      /\ D = {rs[i].operator : i \in DOMAIN rs}
      /\ IsFiniteSet(D) /\ D \subseteq Nat
      /\ \A o \in D : w[o] \in Nat
      /\ SumOver(w, D) = SumOver(WeightOf(rs), DOMAIN rs)
  BY <1>1, BatchWeights
<1> HIDE DEF w
<1>4. Total(e) = SumOver(w, D)
  BY <1>3, TotalOfEntries
<1>5. SumOver(w, D) \in Nat
  BY <1>3, SumNat
<1>6. SumOver(w, D) < Power(ByteBase, 8)
  BY <1>2, <1>3, WeightFits
<1>7. /\ n \in Nat /\ DOMAIN e = 1..n /\ e = [i \in 1..n |-> e[i]]
      /\ \A i \in 1..n : e[i] = <<e[i][1], w[e[i][1]]>> /\ e[i][1] \in D
      /\ \A o \in D : \E i \in 1..n : e[i][1] = o
  BY <1>3, EntriesList
<1>8. n <= Len(rs)
  <2> DEFINE S == 1..Len(rs)
             f == [i \in S |-> rs[i].operator]
  <2>1. IsFiniteSet(S) /\ Cardinality(S) = Len(rs)
    BY <1>2, FS_Interval
  <2>2. f \in Surjection(S, D)
    BY <1>2, <1>3 DEF Surjection
  <2> HIDE DEF S, f, D
  <2>3. Cardinality(D) <= Cardinality(S)
    BY <2>1, <2>2, FS_Surjection
  <2> QED
    BY <2>1, <2>3
<1>9. n # 0
  <2>1. rs[1].operator \in D
    <3>1. 1 \in DOMAIN rs
      BY <1>2
    <3> HIDE DEF D
    <3> QED
      BY <1>3, <3>1
  <2>2. PICK i \in 1..n : TRUE
    <3> HIDE DEF D, n, e
    <3> QED
      BY <1>7, <2>1
  <2> HIDE DEF n
  <2> QED
    BY <1>7, <2>2
<1>10. n < Power(ByteBase, 4)
  <2>1. MaxReceipts \in Nat /\ MaxReceipts < Power(ByteBase, 4) /\ Power(ByteBase, 4) \in Nat
    BY DistributionAssumption, PowerType
  <2> HIDE DEF n
  <2> QED
    BY <1>2, <1>7, <1>8, <2>1
<1> HIDE DEF e, n
<1>11. IsList(e, n)
  BY <1>7 DEF IsList
<1>12. Len(e) = n
  BY <1>11, ListLen
<1>13. IsList(LeavesOf(e), n) /\ \A i \in 1..n : LeavesOf(e)[i] = LeafHash(e[i])
  BY <1>7 DEF IsList, LeavesOf
<1>14. \A i \in 1..n : e[i][2] = w[e[i][1]]
  BY <1>7
<1>15. D = {e[i][1] : i \in 1..n}
  <2> HIDE DEF D
  <2> QED
    BY <1>7
<1> QED
  BY <1>3, <1>4, <1>5, <1>6, <1>7, <1>9, <1>10, <1>11, <1>12, <1>13, <1>14, <1>15 DEF e, n, w

\* The output of a batch survives its encoding: to_bytes and from_bytes, and
\* the slices the guest commits.
LEMMA OutputRead ==
  ASSUME NEW rs \in Seq(Receipts), Len(rs) <= MaxReceipts, Proved(rs), NEW pool
  PROVE  LET e == EntriesOf(Accumulate(rs))
             o == GuestLogic(e, pool)
         IN  /\ GuestCommit(e, pool) = ToBytes(o)
             /\ IsList(ToBytes(o), OutputLength)
             /\ ToBytes(o)[1] = o.root
             /\ FromBytes(ToBytes(o)) = o
<1> DEFINE w == Accumulate(rs)
           e == EntriesOf(w)
           o == GuestLogic(e, pool)
           a == LittleEndian(Total(e), 8)
           b == LittleEndian(Len(e), 4)
           r == ComputeMerkleRoot(LeavesOf(e))
           s == Fields(r, a, b, pool)
<1>1. /\ Len(e) \in Nat /\ Len(e) < Power(ByteBase, 4)
      /\ Total(e) \in Nat /\ Total(e) < Power(ByteBase, 8)
  BY BatchEntries
<1> HIDE DEF w, e
<1>2. IsList(a, 8) /\ FromLittleEndian(a) = Total(e)
  BY <1>1, LittleEndianRead
<1>3. IsList(b, 4) /\ FromLittleEndian(b) = Len(e)
  BY <1>1, LittleEndianRead
<1>4. o = [root |-> r, total_weight |-> Total(e), entry_count |-> Len(e), pool_id |-> pool]
  BY DEF GuestLogic, LeavesOf
<1> HIDE DEF o
<1>5. ToBytes(o) = s
  BY <1>4 DEF ToBytes, Fields
<1>6. GuestCommit(e, pool) = s
  BY DEF GuestCommit, LeavesOf, Fields
<1> HIDE DEF a, b, r
<1>7. /\ IsList(s, OutputLength) /\ s[1] = r /\ s[14] = pool
      /\ SubSeq(s, 2, 9) = a /\ SubSeq(s, 10, 13) = b
  <2>1. IsList(a, 8) /\ IsList(b, 4)
    BY <1>2, <1>3
  <2> QED
    BY <2>1, Layout
<1> HIDE DEF s
<1>8. FromBytes(s) = [root |-> r, total_weight |-> Total(e), entry_count |-> Len(e), pool_id |-> pool]
  BY <1>2, <1>3, <1>7 DEF FromBytes
<1>9. /\ GuestCommit(e, pool) = ToBytes(o) /\ IsList(ToBytes(o), OutputLength)
      /\ ToBytes(o)[1] = o.root /\ FromBytes(ToBytes(o)) = o
  BY <1>4, <1>5, <1>6, <1>7, <1>8
<1> QED
  BY <1>9 DEF o, e, w

\* The public inputs of a batch are its output, whoever proved it.
LEMMA PublicInputs ==
  ASSUME NEW rs \in Seq(Receipts), Len(rs) <= MaxReceipts, Proved(rs), NEW pool, NEW sp1
  PROVE  LET out == ToBytes(GuestLogic(EntriesOf(Accumulate(rs)), pool))
             proof == ProveBatch(rs, pool, sp1)
         IN  /\ proof.public_inputs = out
             /\ proof.proof_bytes = <<IF sp1 THEN "groth16" ELSE "magic">> \o out
<1> DEFINE e == EntriesOf(Accumulate(rs))
           out == ToBytes(GuestLogic(e, pool))
<1>1. GuestCommit(e, pool) = out
  BY OutputRead
<1>2. AggregateReceipts(rs) = e
  BY DEF AggregateReceipts
<1> HIDE DEF e, out
<1>3. /\ ProveBatch(rs, pool, sp1).public_inputs = out
      /\ ProveBatch(rs, pool, sp1).proof_bytes = <<IF sp1 THEN "groth16" ELSE "magic">> \o out
  BY <1>1, <1>2 DEF ProveBatch, out
<1> QED
  BY <1>3 DEF out, e

\* Two accepted batches with the same root give every operator the same weight.
LEMMA RootBinds ==
  ASSUME NEW rs \in Seq(Receipts), Len(rs) <= MaxReceipts, Proved(rs),
         NEW ts \in Seq(Receipts), Len(ts) <= MaxReceipts, Proved(ts), NEW pool,
         GuestLogic(EntriesOf(Accumulate(rs)), pool).root = GuestLogic(EntriesOf(Accumulate(ts)), pool).root
  PROVE  Accumulate(rs) = Accumulate(ts)
<1> DEFINE v == Accumulate(rs)
           d == EntriesOf(v)
           m == Cardinality(DOMAIN v)
           w == Accumulate(ts)
           e == EntriesOf(w)
           n == Cardinality(DOMAIN w)
<1>1. /\ m \in Nat \ {0} /\ IsList(LeavesOf(d), m) /\ \A i \in 1..m : LeavesOf(d)[i] = LeafHash(d[i])
      /\ v = [o \in DOMAIN v |-> v[o]] /\ DOMAIN v = {d[i][1] : i \in 1..m}
      /\ \A i \in 1..m : d[i][2] = v[d[i][1]]
  BY BatchEntries
<1>2. /\ n \in Nat \ {0} /\ IsList(LeavesOf(e), n) /\ \A i \in 1..n : LeavesOf(e)[i] = LeafHash(e[i])
      /\ w = [o \in DOMAIN w |-> w[o]] /\ DOMAIN w = {e[i][1] : i \in 1..n}
      /\ \A i \in 1..n : e[i][2] = w[e[i][1]]
  BY BatchEntries
<1>3. ComputeMerkleRoot(LeavesOf(d)) = ComputeMerkleRoot(LeavesOf(e))
  BY DEF GuestLogic, LeavesOf
<1> HIDE DEF v, w, d, e, m, n
<1>4. /\ \A i \in 1..m : LeavesOf(d)[i][1] = "leaf"
      /\ \A i \in 1..n : LeavesOf(e)[i][1] = "leaf"
  BY <1>1, <1>2 DEF LeafHash
<1>5. Height(m) \in Nat /\ Height(n) \in Nat
  BY <1>1, <1>2, HeightOK
<1>6. m = n /\ LeavesOf(d) = LeavesOf(e)
  <2>1. CASE Height(m) <= Height(n)
    BY <1>1, <1>2, <1>3, <1>4, <2>1, SameRoot
  <2>2. CASE Height(n) <= Height(m)
    <3>1. n = m /\ LeavesOf(e) = LeavesOf(d)
      BY <1>1, <1>2, <1>3, <1>4, <2>2, SameRoot
    <3> QED
      BY <3>1
  <2> QED
    BY <1>5, <2>1, <2>2
<1>7. \A i \in 1..m : d[i][1] = e[i][1] /\ d[i][2] = e[i][2]
  <2> TAKE i \in 1..m
  <2>1. LeafHash(d[i]) = LeafHash(e[i])
    BY <1>1, <1>2, <1>6
  <2> QED
    BY <2>1 DEF LeafHash
<1>8. DOMAIN v = DOMAIN w
  <2>1. DOMAIN w = {e[i][1] : i \in 1..m}
    BY <1>2, <1>6
  <2>2. \A o : o \in DOMAIN v <=> \E i \in 1..m : o = d[i][1]
    BY <1>1
  <2>3. \A o : o \in DOMAIN w <=> \E i \in 1..m : o = e[i][1]
    BY <2>1
  <2> QED
    <3>1. \A o : o \in DOMAIN v <=> o \in DOMAIN w
      BY <1>7, <2>2, <2>3
    <3> QED
      BY <3>1
<1>9. ASSUME NEW o \in DOMAIN v
      PROVE  v[o] = w[o]
  <2>1. PICK i \in 1..m : o = d[i][1]
    BY <1>1
  <2> QED
    BY <1>1, <1>2, <1>6, <1>7, <2>1, SMTT(40)
<1>10. v = w
  BY <1>1, <1>2, <1>8, <1>9
<1> QED
  BY <1>10 DEF v, w

\* The root commits to operators and weights, for batches of any receipts: the
\* order of the receipts does not matter, and padding a batch does not give it
\* the root of another although the number of entries is not hashed.
THEOREM RootsCommit == Spec => []RootCommits
<1>1. BatchesOK => RootCommits
  <2> SUFFICES ASSUME BatchesOK, Proved(receipts), Proved(other)
               PROVE  ProveBatch(receipts, Pool, FALSE).public_inputs[1] =
                        ProveBatch(other, Pool, FALSE).public_inputs[1]
                      <=> Accumulate(receipts) = Accumulate(other)
    BY DEF RootCommits
  <2> DEFINE Out(rs) == GuestLogic(EntriesOf(Accumulate(rs)), Pool)
  <2>1. /\ receipts \in Seq(Receipts) /\ Len(receipts) <= MaxReceipts
        /\ other \in Seq(Receipts) /\ Len(other) <= MaxReceipts
    BY DEF BatchesOK
  <2>2. /\ ProveBatch(receipts, Pool, FALSE).public_inputs = ToBytes(Out(receipts))
        /\ ProveBatch(other, Pool, FALSE).public_inputs = ToBytes(Out(other))
    BY <2>1, PublicInputs
  <2>3. ToBytes(Out(receipts))[1] = Out(receipts).root /\ ToBytes(Out(other))[1] = Out(other).root
    BY <2>1, OutputRead
  <2>4. Out(receipts).root = Out(other).root => Accumulate(receipts) = Accumulate(other)
    BY <2>1, RootBinds
  <2>5. Accumulate(receipts) = Accumulate(other) => Out(receipts).root = Out(other).root
    OBVIOUS
  <2> HIDE DEF Out
  <2> QED
    BY <2>2, <2>3, <2>4, <2>5
<1> QED
  BY <1>1, BatchesOKAlways, PTL

\* verify_batch accepts what prove_batch returns and reads the output of the
\* batch from it.
LEMMA ProofVerifies ==
  ASSUME NEW rs \in Seq(Receipts), Len(rs) <= MaxReceipts, Proved(rs), NEW pool, NEW sp1 \in BOOLEAN
  PROVE  VerifyBatch(ProveBatch(rs, pool, sp1), sp1) =
           [ok |-> GuestLogic(EntriesOf(Accumulate(rs)), pool)]
<1> DEFINE out == GuestLogic(EntriesOf(Accumulate(rs)), pool)
           bytes == ToBytes(out)
           proof == ProveBatch(rs, pool, sp1)
<1>1. /\ proof.public_inputs = bytes
      /\ proof.proof_bytes = <<IF sp1 THEN "groth16" ELSE "magic">> \o bytes
  BY PublicInputs
<1>2. IsList(bytes, OutputLength) /\ FromBytes(bytes) = out
  BY OutputRead
<1> HIDE DEF out, bytes, proof
<1>3. Len(bytes) = OutputLength
  BY <1>2, ListLen
<1>4. CASE sp1
  <2>1. Sp1Verify(proof) = [ok |-> FromBytes(bytes)]
    BY <1>1, <1>3 DEF Sp1Verify
  <2> QED
    BY <1>2, <1>4, <2>1 DEF VerifyBatch, proof, out
<1>5. CASE ~sp1
  <2>1. proof.proof_bytes = <<"magic">> \o bytes
    BY <1>1, <1>5
  <2>2. /\ Len(<<"magic">> \o bytes) = OutputLength + 1 /\ (<<"magic">> \o bytes)[1] = "magic"
        /\ Tail(<<"magic">> \o bytes) = bytes
    BY <1>2, Prefixed
  <2>3. /\ ~(Len(proof.proof_bytes) < 1 + OutputLength) /\ proof.proof_bytes[1] = "magic"
        /\ Tail(proof.proof_bytes) = proof.public_inputs
    BY <1>1, <2>1, <2>2 DEF OutputLength
  <2>4. MockVerify(proof) = [ok |-> FromBytes(proof.public_inputs)]
    BY <2>3 DEF MockVerify
  <2> QED
    BY <1>1, <1>2, <1>5, <2>4 DEF VerifyBatch, proof, out
<1> QED
  BY <1>4, <1>5

\* From the receipts to the transaction: for a batch of any receipts, the proof
\* that prove_batch returns verifies, to the output the guest computes; what is
\* posted carries that root and that total weight; and a mock proof verifies
\* with no public inputs of a batch with other weights.
THEOREM PostedProved == Spec => []PostedIsProved
<1>1. BatchesOK => PostedIsProved
  <2> SUFFICES ASSUME BatchesOK
               PROVE  PostedIsProved
    OBVIOUS
  <2>1. /\ receipts \in Seq(Receipts) /\ Len(receipts) <= MaxReceipts
        /\ other \in Seq(Receipts) /\ Len(other) <= MaxReceipts
    BY DEF BatchesOK
  <2>2. ASSUME Proved(receipts), NEW sp1 \in BOOLEAN
        PROVE  LET b == Batch(receipts, Pool, sp1)
                   tx == PostDistribution(b)
                   entries == EntriesOf(b.weights)
               IN  /\ VerifyBatch(b.proof, sp1) = [ok |-> GuestLogic(entries, Pool)]
                   /\ b.proof.public_inputs = GuestCommit(entries, Pool)
                   /\ tx.root = GuestLogic(entries, Pool).root
                   /\ tx.total_weight = FromBytes(tx.public_inputs).total_weight
    <3> DEFINE b == Batch(receipts, Pool, sp1)
               tx == PostDistribution(b)
               proof == ProveBatch(receipts, Pool, sp1)
               e == EntriesOf(Accumulate(receipts))
               out == GuestLogic(e, Pool)
    <3>1. VerifyBatch(proof, sp1) = [ok |-> out]
      BY <2>1, <2>2, ProofVerifies
    <3>2. proof.public_inputs = ToBytes(out)
      BY <2>1, <2>2, PublicInputs
    <3>3. /\ GuestCommit(e, Pool) = ToBytes(out) /\ ToBytes(out)[1] = out.root
          /\ FromBytes(ToBytes(out)) = out
      BY <2>1, <2>2, OutputRead
    <3>4. out.total_weight = Total(e)
      BY DEF GuestLogic
    <3>5. EntriesOf(b.weights) = e /\ b.proof = proof /\ b.total_weight = Total(e)
      BY DEF Batch
    <3> HIDE DEF b, e, out, proof
    <3>6. /\ tx.root = proof.public_inputs[1] /\ tx.total_weight = Total(e)
          /\ tx.public_inputs = proof.public_inputs
      BY <3>5 DEF PostDistribution
    <3> HIDE DEF tx
    <3>7. /\ VerifyBatch(b.proof, sp1) = [ok |-> out] /\ b.proof.public_inputs = GuestCommit(e, Pool)
          /\ tx.root = out.root /\ tx.total_weight = FromBytes(tx.public_inputs).total_weight
      BY <3>1, <3>2, <3>3, <3>4, <3>5, <3>6
    <3> QED
      BY <3>5, <3>7 DEF tx, b, out
  <2>3. ProofBindsInputs
    <3> DEFINE Out(rs) == GuestLogic(EntriesOf(Accumulate(rs)), Pool)
               mixed == [proof_bytes |-> ProveBatch(receipts, Pool, FALSE).proof_bytes,
                         public_inputs |-> ProveBatch(other, Pool, FALSE).public_inputs]
    <3> SUFFICES ASSUME Proved(receipts), Proved(other), "ok" \in DOMAIN VerifyBatch(mixed, FALSE)
                 PROVE  Accumulate(receipts) = Accumulate(other)
      BY DEF ProofBindsInputs
    <3>1. /\ ProveBatch(receipts, Pool, FALSE).proof_bytes = <<"magic">> \o ToBytes(Out(receipts))
          /\ ProveBatch(other, Pool, FALSE).public_inputs = ToBytes(Out(other))
      BY <2>1, PublicInputs
    <3>2. IsList(ToBytes(Out(receipts)), OutputLength)
      BY <2>1, OutputRead
    <3>3. ToBytes(Out(receipts))[1] = Out(receipts).root /\ ToBytes(Out(other))[1] = Out(other).root
      BY <2>1, OutputRead
    <3>4. Out(receipts).root = Out(other).root => Accumulate(receipts) = Accumulate(other)
      BY <2>1, RootBinds
    <3>0. "ok" \in DOMAIN VerifyBatch(mixed, FALSE)
      OBVIOUS
    <3> HIDE DEF Out
    <3>5. /\ mixed.proof_bytes = <<"magic">> \o ToBytes(Out(receipts))
          /\ mixed.public_inputs = ToBytes(Out(other))
      BY <3>1
    <3> HIDE DEF mixed
    <3>6. Tail(mixed.proof_bytes) = ToBytes(Out(receipts))
      BY <3>2, <3>5, Prefixed
    <3>7. Tail(mixed.proof_bytes) = mixed.public_inputs
      <4> SUFFICES ASSUME Tail(mixed.proof_bytes) # mixed.public_inputs
                   PROVE  FALSE
        OBVIOUS
      <4>1. \E x : MockVerify(mixed) = [error |-> x]
        BY DEF MockVerify
      <4>2. VerifyBatch(mixed, FALSE) = MockVerify(mixed)
        BY DEF VerifyBatch
      <4>3. DOMAIN MockVerify(mixed) = {"error"}
        BY <4>1
      <4>4. "ok" \in DOMAIN MockVerify(mixed)
        BY <3>0, <4>2
      <4> QED
        BY <4>3, <4>4
    <3> QED
      BY <3>3, <3>4, <3>5, <3>6, <3>7
  <2> QED
    BY <2>2, <2>3 DEF PostedIsProved
<1> QED
  BY <1>1, BatchesOKAlways, PTL
=============================================================================
