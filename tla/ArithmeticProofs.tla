-------------------------- MODULE ArithmeticProofs ---------------------------
(***************************************************************************)
(* Proofs about numbers: how calculate_fee and                             *)
(* calculate_proportional_payout split amounts (settlement/src/fee.rs),    *)
(* what sums over finite sets are, how sorted keys are numbered, and that  *)
(* a number is read back from its digits.  The proofs about the components *)
(* rest on these facts.                                                    *)
(*                                                                         *)
(* Induction is stated for sets of subsets (SubsetInduction) and sets of   *)
(* numbers (CountUp), not for predicates, so that first-order provers can  *)
(* use it.                                                                 *)
(***************************************************************************)
EXTENDS Fee, SortedKeys, Numerals, FiniteSetTheorems, WellFoundedInduction, TLAPS

-----------------------------------------------------------------------------
\* Division by the denominator rounds down.
LEMMA DivDown ==
  ASSUME NEW n \in Nat, NEW d \in Nat, d > 0
  PROVE  /\ n \div d \in Nat
         /\ (n \div d) * d <= n
         /\ n < (n \div d) * d + d
  OBVIOUS

\* A factor on both sides of a product can be dropped.
LEMMA CancelFactor ==
  ASSUME NEW a \in Nat, NEW b \in Nat, NEW d \in Nat, d > 0, a * d <= b * d
  PROVE  a <= b
<1>1. CASE a <= b
  BY <1>1
<1>2. CASE a >= b + 1
  <2>1. a * d >= (b + 1) * d
    BY <1>2
  <2>2. (b + 1) * d = b * d + d
    OBVIOUS
  <2> QED
    BY <2>1, <2>2
<1> QED
  BY <1>1, <1>2

\* calculate_fee splits an amount: nothing is lost or created, and the fee is
\* at most half of it, even when the multiplication saturates.
THEOREM FeeSplits ==
  ASSUME NEW amount \in U64, NEW bps \in 0..MaxProtocolFeeBps
  PROVE  LET r == CalculateFee(amount, bps)
         IN  /\ r.fee \in U64 /\ r.payout \in U64
             /\ r.fee + r.payout = amount
             /\ 2 * r.fee <= amount
<1> DEFINE m == SaturatingMul(amount, bps)
           f == m \div BpsDenominator
<1>1. amount \in Nat /\ bps \in Nat /\ bps <= 5000 /\ amount <= U64Max /\ U64Max \in Nat
  BY FeeAssumption DEF U64, MaxProtocolFeeBps
<1>2. amount * bps \in Nat /\ amount * bps <= amount * 5000
  BY <1>1
<1>3. m \in Nat /\ m <= amount * 5000
  BY <1>1, <1>2 DEF SaturatingMul
<1>4. f \in Nat /\ f * 10000 <= m
  <2> HIDE DEF m
  <2> QED
    BY <1>3, DivDown DEF BpsDenominator
<1>5. f * 10000 <= amount * 5000
  <2> HIDE DEF m, f
  <2> QED
    BY <1>1, <1>3, <1>4
<1>6. 2 * f <= amount
  <2> HIDE DEF f
  <2> QED
    BY <1>1, <1>4, <1>5
<1>7. CalculateFee(amount, bps) = [fee |-> f, payout |-> SaturatingSub(amount, f)]
  BY DEF CalculateFee
<1>8. SaturatingSub(amount, f) = amount - f
  <2> HIDE DEF f
  <2> QED
    BY <1>1, <1>4, <1>6 DEF SaturatingSub
<1> HIDE DEF f, m
<1> QED
  BY <1>1, <1>4, <1>6, <1>7, <1>8 DEF U64

\* An operator whose weight is part of the total never draws more than the
\* pool's balance (calculate_proportional_payout).
THEOREM PayoutWithinBalance ==
  ASSUME NEW balance \in U64, NEW total \in Nat, NEW weight \in 0..total,
         NEW bps \in 0..MaxProtocolFeeBps
  PROVE  LET r == CalculateProportionalPayout(balance, weight, total, bps)
         IN  r.fee + r.payout <= balance
<1> DEFINE s == Share(balance, weight, total)
<1>1. balance \in Nat /\ weight \in Nat /\ balance <= U64Max /\ U64Max \in Nat
  BY FeeAssumption DEF U64
<1>2. CASE total = 0 \/ weight = 0 \/ balance = 0
  BY <1>1, <1>2 DEF CalculateProportionalPayout
<1>3. CASE ~(total = 0 \/ weight = 0 \/ balance = 0)
  <2> DEFINE p == balance * weight
             q == p \div total
  <2>1. total \in Nat /\ total > 0 /\ weight <= total
    BY <1>3
  <2>2. p \in Nat /\ p <= balance * total
    BY <1>1, <2>1
  <2>3. q \in Nat /\ q * total <= p
    <3> HIDE DEF p
    <3> QED
      BY <2>1, <2>2, DivDown
  <2>4. q <= balance
    <3> HIDE DEF q
    <3>1. q * total <= balance * total
      <4> HIDE DEF p
      <4>1. balance * total \in Nat /\ q * total \in Nat
        BY <1>1, <2>1, <2>3
      <4> QED
        BY <2>2, <2>3, <4>1
    <3> QED
      BY <1>1, <2>1, <2>3, <3>1, CancelFactor
  <2>5. s \in U64 /\ s <= balance
    <3>1. s = IF q > U64Max THEN U64Max ELSE q
      BY DEF Share
    <3> HIDE DEF q, s
    <3> QED
      BY <1>1, <2>3, <2>4, <3>1 DEF U64
  <2>6. CalculateProportionalPayout(balance, weight, total, bps) = CalculateFee(s, bps)
    BY <1>3 DEF CalculateProportionalPayout
  <2> HIDE DEF s
  <2>7. CalculateFee(s, bps).fee + CalculateFee(s, bps).payout = s
    BY <2>5, FeeSplits
  <2> QED
    BY <2>5, <2>6, <2>7
<1> QED
  BY <1>2, <1>3

-----------------------------------------------------------------------------
\* The sum of what w gives to the elements of S.
SumOver(w, S) == MapThenSumSet(LAMBDA x : w[x], S)

-----------------------------------------------------------------------------
\* A set of natural numbers that is not empty has a least element.
LEMMA LeastNumber ==
  ASSUME NEW T, T \subseteq Nat, T # {}
  PROVE  \E x \in T : \A y \in T : ~(y < x)
<1> DEFINE R == OpToRel(<, Nat)
<1>1. IsWellFoundedOn(R, Nat)
  BY NatLessThanWellFounded
<1>2. \A x, y \in Nat : y < x => <<y, x>> \in R
  BY DEF OpToRel
<1> HIDE DEF R
<1>3. PICK x \in T : \A y \in T : ~(<<y, x>> \in R)
  BY <1>1, WFMin
<1> QED
  BY <1>2, <1>3

\* Induction from 0 up to a number.
LEMMA CountUp ==
  ASSUME NEW n \in Nat, NEW Good, 0 \in Good,
         \A i \in 0..n : i # n /\ i \in Good => i + 1 \in Good
  PROVE  0..n \subseteq Good
<1> DEFINE Bad == {i \in 0..n : i \notin Good}
<1> SUFFICES ASSUME Bad # {}
             PROVE  FALSE
  OBVIOUS
<1>1. PICK x \in Bad : \A y \in Bad : ~(y < x)
  <2>1. Bad \subseteq Nat
    OBVIOUS
  <2> HIDE DEF Bad
  <2> QED
    BY <2>1, LeastNumber
<1>2. x - 1 \in 0..n /\ x - 1 # n /\ x - 1 \notin Bad
  BY <1>1
<1> QED
  BY <1>2

\* Induction over the subsets of a finite set, from smaller to larger ones.
LEMMA SubsetInduction ==
  ASSUME NEW S, IsFiniteSet(S), NEW Good,
         \A s \in SUBSET S : (\A x \in s : s \ {x} \in Good) => s \in Good
  PROVE  SUBSET S \subseteq Good
<1> SUFFICES ASSUME NEW bad \in SUBSET S, bad \notin Good
             PROVE  FALSE
  OBVIOUS
<1> DEFINE Sizes == {n \in Nat : \E s \in SUBSET S : s \notin Good /\ Cardinality(s) = n}
<1>1. \A s \in SUBSET S : IsFiniteSet(s) /\ Cardinality(s) \in Nat
  BY FS_Subset, FS_CardinalityType
<1>2. Cardinality(bad) \in Sizes
  BY <1>1
<1>3. PICK n \in Sizes : \A m \in Sizes : ~(m < n)
  <2>1. Sizes \subseteq Nat /\ Sizes # {}
    BY <1>2
  <2> HIDE DEF Sizes
  <2> QED
    BY <2>1, LeastNumber
<1>4. PICK s \in SUBSET S : s \notin Good /\ Cardinality(s) = n
  OBVIOUS
<1>5. ASSUME NEW x \in s
      PROVE  s \ {x} \in Good
  <2>1. s \ {x} \in SUBSET S /\ Cardinality(s \ {x}) = n - 1 /\ Cardinality(s \ {x}) \in Nat
    BY <1>1, <1>4, FS_RemoveElement
  <2>2. n - 1 < n
    OBVIOUS
  <2> QED
    BY <1>3, <2>1, <2>2
<1> QED
  BY <1>4, <1>5

-----------------------------------------------------------------------------
(***************************************************************************)
(* The recursion behind MapThenSumSet has a solution, and all solutions    *)
(* agree.                                                                  *)
(***************************************************************************)
Chosen(s) == CHOOSE x \in s : TRUE

\* f sums w on the subsets of S, one chosen element after the other.
Adds(f, w, S) ==
  f = [s \in SUBSET S |-> IF s = {} THEN 0 ELSE w[Chosen(s)] + f[s \ {Chosen(s)}]]

\* The same for a family of sets.
AddsOn(f, w, F) ==
  \A s \in F : f[s] = IF s = {} THEN 0 ELSE w[Chosen(s)] + f[s \ {Chosen(s)}]

LEMMA ChosenIn ==
  ASSUME NEW s, s # {}
  PROVE  Chosen(s) \in s
BY DEF Chosen

\* The definition of MapThenSumSet, with the choice named.
LEMMA SumIsAdding ==
  ASSUME NEW w, NEW S
  PROVE  SumOver(w, S) = (CHOOSE f : Adds(f, w, S))[S]
BY DEF SumOver, MapThenSumSet, MapThenFoldSet, Adds, Chosen

\* A function that sums exists on all subsets with at most n elements, for
\* every n, and so on all subsets.
Small(S, n) == {s \in SUBSET S : Cardinality(s) <= n}

LEMMA AddingUpTo ==
  ASSUME NEW S, IsFiniteSet(S), NEW w
  PROVE  \A n \in Nat : \E f : AddsOn(f, w, Small(S, n))
<1> DEFINE Bad == {n \in Nat : ~ \E f : AddsOn(f, w, Small(S, n))}
<1>1. \A s \in SUBSET S : IsFiniteSet(s) /\ Cardinality(s) \in Nat
  BY FS_Subset, FS_CardinalityType
<1>2. ASSUME NEW s \in SUBSET S, s # {}
      PROVE  Cardinality(s \ {Chosen(s)}) = Cardinality(s) - 1 /\ Cardinality(s) # 0
  BY <1>1, <1>2, ChosenIn, FS_RemoveElement, FS_EmptySet
<1> SUFFICES ASSUME Bad # {}
             PROVE  FALSE
  OBVIOUS
<1>3. PICK n \in Bad : \A m \in Bad : ~(m < n)
  <2>1. Bad \subseteq Nat
    OBVIOUS
  <2> HIDE DEF Bad
  <2> QED
    BY <2>1, LeastNumber
<1>4. CASE n = 0
  <2>1. ASSUME NEW s \in Small(S, 0)
        PROVE  s = {}
    <3>1. s \in SUBSET S /\ Cardinality(s) <= 0
      BY DEF Small
    <3>2. Cardinality(s) = 0
      BY <1>1, <3>1
    <3> QED
      BY <1>2, <3>1, <3>2
  <2>2. AddsOn([s \in {{}} |-> 0], w, Small(S, 0))
    BY <2>1 DEF AddsOn
  <2> QED
    BY <1>4, <2>2
<1>5. CASE n # 0
  <2>1. n - 1 \in Nat /\ n - 1 < n
    BY <1>5
  <2>2. PICK g : AddsOn(g, w, Small(S, n - 1))
    BY <1>3, <2>1
  <2> DEFINE f == [s \in Small(S, n) |->
                     IF s = {} THEN 0 ELSE w[Chosen(s)] + g[s \ {Chosen(s)}]]
  <2>3. ASSUME NEW s \in Small(S, n), s # {}
        PROVE  s \ {Chosen(s)} \in Small(S, n - 1)
    BY <1>1, <1>2, <2>1, <2>3 DEF Small
  <2>4. ASSUME NEW s \in Small(S, n - 1)
        PROVE  s \in Small(S, n) /\ f[s] = g[s]
    <3>1. s \in SUBSET S /\ Cardinality(s) <= n - 1
      BY DEF Small
    <3>2. Cardinality(s) <= n
      BY <1>1, <2>1, <3>1
    <3>3. s \in Small(S, n)
      BY <3>1, <3>2 DEF Small
    <3>4. g[s] = IF s = {} THEN 0 ELSE w[Chosen(s)] + g[s \ {Chosen(s)}]
      BY <2>2 DEF AddsOn
    <3> QED
      BY <3>3, <3>4
  <2>5. AddsOn(f, w, Small(S, n))
    BY <2>3, <2>4 DEF AddsOn
  <2> QED
    BY <2>5
<1> QED
  BY <1>4, <1>5

LEMMA AddingExists ==
  ASSUME NEW S, IsFiniteSet(S), NEW w
  PROVE  \E f : Adds(f, w, S)
<1>1. Cardinality(S) \in Nat
  BY FS_CardinalityType
<1>2. Small(S, Cardinality(S)) = SUBSET S
  BY FS_Subset DEF Small
<1>3. PICK g : AddsOn(g, w, SUBSET S)
  BY <1>1, <1>2, AddingUpTo, SMTT(40)
<1> DEFINE f == [s \in SUBSET S |-> g[s]]
<1>4. ASSUME NEW s \in SUBSET S
      PROVE  f[s] = IF s = {} THEN 0 ELSE w[Chosen(s)] + f[s \ {Chosen(s)}]
  BY <1>3 DEF AddsOn
<1>5. f = [s \in SUBSET S |-> IF s = {} THEN 0 ELSE w[Chosen(s)] + f[s \ {Chosen(s)}]]
  BY <1>4
<1> QED
  BY <1>5 DEF Adds

\* What is summed for a set does not depend on the larger set it is part of.
LEMMA AddingAgrees ==
  ASSUME NEW S, IsFiniteSet(S), NEW w, NEW f, NEW g, NEW T \in SUBSET S,
         Adds(f, w, S), Adds(g, w, T)
  PROVE  f[T] = g[T]
<1> DEFINE Good == {s \in SUBSET T : f[s] = g[s]}
<1>1. IsFiniteSet(T)
  BY FS_Subset
<1>2. ASSUME NEW s \in SUBSET T, \A x \in s : s \ {x} \in Good
      PROVE  s \in Good
  <2>1. f[s] = IF s = {} THEN 0 ELSE w[Chosen(s)] + f[s \ {Chosen(s)}]
    BY DEF Adds
  <2>2. g[s] = IF s = {} THEN 0 ELSE w[Chosen(s)] + g[s \ {Chosen(s)}]
    BY DEF Adds
  <2> QED
    BY <1>2, <2>1, <2>2, ChosenIn
<1>3. SUBSET T \subseteq Good
  <2> HIDE DEF Good
  <2> QED
    BY <1>1, <1>2, SubsetInduction
<1> QED
  BY <1>3

-----------------------------------------------------------------------------
(***************************************************************************)
(* What a sum is.                                                          *)
(***************************************************************************)
LEMMA SumEmpty ==
  ASSUME NEW w
  PROVE  SumOver(w, {}) = 0
<1>1. PICK f : Adds(f, w, {}) /\ SumOver(w, {}) = f[{}]
  BY SumIsAdding, AddingExists, FS_EmptySet
<1> QED
  BY <1>1 DEF Adds

LEMMA SumChosen ==
  ASSUME NEW S, IsFiniteSet(S), S # {}, NEW w
  PROVE  SumOver(w, S) = w[Chosen(S)] + SumOver(w, S \ {Chosen(S)})
<1> DEFINE T == S \ {Chosen(S)}
<1>1. IsFiniteSet(T) /\ T \in SUBSET S
  BY FS_Subset
<1>2. PICK f : Adds(f, w, S) /\ SumOver(w, S) = f[S]
  BY SumIsAdding, AddingExists
<1>3. PICK g : Adds(g, w, T) /\ SumOver(w, T) = g[T]
  BY <1>1, SumIsAdding, AddingExists
<1>4. f[T] = g[T]
  BY <1>1, <1>2, <1>3, AddingAgrees
<1>5. f[S] = w[Chosen(S)] + f[T]
  <2>1. S \in SUBSET S
    OBVIOUS
  <2> QED
    BY <1>2, <2>1 DEF Adds
<1> QED
  BY <1>2, <1>3, <1>4, <1>5

LEMMA SumNat ==
  ASSUME NEW S, IsFiniteSet(S), NEW w, \A x \in S : w[x] \in Nat
  PROVE  SumOver(w, S) \in Nat
<1> DEFINE Good == {s \in SUBSET S : SumOver(w, s) \in Nat}
<1>1. ASSUME NEW s \in SUBSET S, \A x \in s : s \ {x} \in Good
      PROVE  s \in Good
  <2>1. CASE s = {}
    BY <2>1, SumEmpty
  <2>2. CASE s # {}
    <3>1. IsFiniteSet(s) /\ Chosen(s) \in s
      BY <2>2, ChosenIn, FS_Subset
    <3>2. SumOver(w, s \ {Chosen(s)}) \in Nat
      BY <1>1, <3>1
    <3>3. w[Chosen(s)] + SumOver(w, s \ {Chosen(s)}) \in Nat
      BY <3>1, <3>2
    <3> QED
      BY <2>2, <3>1, <3>3, SumChosen
  <2> QED
    BY <2>1, <2>2
<1>2. SUBSET S \subseteq Good
  <2> HIDE DEF Good
  <2> QED
    BY <1>1, SubsetInduction
<1> QED
  BY <1>2

\* Any element can be added last.
LEMMA SumRemove ==
  ASSUME NEW S, IsFiniteSet(S), NEW w, \A x \in S : w[x] \in Nat, NEW x \in S
  PROVE  SumOver(w, S) = w[x] + SumOver(w, S \ {x})
<1> DEFINE Good == {s \in SUBSET S : \A y \in s : SumOver(w, s) = w[y] + SumOver(w, s \ {y})}
<1>1. ASSUME NEW s \in SUBSET S, \A y \in s : s \ {y} \in Good
      PROVE  s \in Good
  <2> SUFFICES ASSUME NEW y \in s
               PROVE  SumOver(w, s) = w[y] + SumOver(w, s \ {y})
    OBVIOUS
  <2> DEFINE c == Chosen(s)
  <2>1. IsFiniteSet(s) /\ c \in s /\ SumOver(w, s) = w[c] + SumOver(w, s \ {c})
    BY FS_Subset, SumChosen, ChosenIn
  <2>2. CASE y = c
    BY <2>1, <2>2
  <2>3. CASE y # c
    <3>1. SumOver(w, s \ {c}) = w[y] + SumOver(w, (s \ {c}) \ {y})
      BY <1>1, <2>1, <2>3
    <3>2. SumOver(w, s \ {y}) = w[c] + SumOver(w, (s \ {y}) \ {c})
      BY <1>1, <2>1, <2>3
    <3>3. (s \ {c}) \ {y} = (s \ {y}) \ {c}
      OBVIOUS
    <3>4. SumOver(w, (s \ {c}) \ {y}) \in Nat
      BY FS_Subset, SumNat
    <3>5. w[y] \in Nat /\ w[c] \in Nat
      BY <2>1
    <3> HIDE DEF c
    <3> QED
      BY <2>1, <3>1, <3>2, <3>3, <3>4, <3>5
  <2> QED
    BY <2>2, <2>3
<1>2. SUBSET S \subseteq Good
  <2> HIDE DEF Good
  <2> QED
    BY <1>1, SubsetInduction
<1> QED
  BY <1>2

\* A larger share of each, a larger sum: c times the one bounds d times the
\* other as soon as it does so for every element.
LEMMA SumScaled ==
  ASSUME NEW S, IsFiniteSet(S), NEW v, NEW w, NEW c \in Nat, NEW d \in Nat,
         \A x \in S : v[x] \in Nat /\ w[x] \in Nat /\ c * v[x] <= d * w[x]
  PROVE  c * SumOver(v, S) <= d * SumOver(w, S)
<1> DEFINE Good == {s \in SUBSET S : c * SumOver(v, s) <= d * SumOver(w, s)}
<1>1. ASSUME NEW s \in SUBSET S, \A x \in s : s \ {x} \in Good
      PROVE  s \in Good
  <2>1. CASE s = {}
    BY <2>1, SumEmpty
  <2>2. CASE s # {}
    <3> DEFINE x == Chosen(s)
               t == s \ {x}
    <3>1. x \in s /\ IsFiniteSet(s) /\ IsFiniteSet(t)
      BY <2>2, ChosenIn, FS_Subset
    <3>2. SumOver(v, s) = v[x] + SumOver(v, t) /\ SumOver(w, s) = w[x] + SumOver(w, t)
      BY <2>2, <3>1, SumChosen
    <3>3. SumOver(v, t) \in Nat /\ SumOver(w, t) \in Nat
      BY <3>1, SumNat
    <3>4. c * SumOver(v, t) <= d * SumOver(w, t) /\ c * v[x] <= d * w[x]
      BY <1>1, <3>1
    <3>5. v[x] \in Nat /\ w[x] \in Nat
      BY <3>1
    <3>6. \A p, q, r, u \in Nat : c * p <= d * q /\ c * r <= d * u => c * (r + p) <= d * (u + q)
      OBVIOUS
    <3> HIDE DEF x, t
    <3>7. c * (v[x] + SumOver(v, t)) <= d * (w[x] + SumOver(w, t))
      BY <3>3, <3>4, <3>5, <3>6
    <3> QED
      BY <3>2, <3>7
  <2> QED
    BY <2>1, <2>2
<1>2. SUBSET S \subseteq Good
  <2> HIDE DEF Good
  <2> QED
    BY <1>1, SubsetInduction
<1> QED
  BY <1>2

\* Sums of the same numbers are the same.
LEMMA SumSame ==
  ASSUME NEW S, IsFiniteSet(S), NEW v, NEW w, \A x \in S : v[x] = w[x]
  PROVE  SumOver(v, S) = SumOver(w, S)
<1> DEFINE Good == {s \in SUBSET S : SumOver(v, s) = SumOver(w, s)}
<1>1. ASSUME NEW s \in SUBSET S, \A x \in s : s \ {x} \in Good
      PROVE  s \in Good
  <2>1. CASE s = {}
    BY <2>1, SumEmpty
  <2>2. CASE s # {}
    <3>1. IsFiniteSet(s) /\ Chosen(s) \in s
      BY <2>2, ChosenIn, FS_Subset
    <3> QED
      BY <1>1, <2>2, <3>1, SumChosen
  <2> QED
    BY <2>1, <2>2
<1>2. SUBSET S \subseteq Good
  <2> HIDE DEF Good
  <2> QED
    BY <1>1, SubsetInduction
<1> QED
  BY <1>2

\* One summand changes: the rest of the sum stays.
LEMMA SumChanged ==
  ASSUME NEW S, IsFiniteSet(S), NEW v, NEW w, NEW x \in S,
         \A y \in S : v[y] \in Nat /\ w[y] \in Nat,
         \A y \in S : y # x => v[y] = w[y]
  PROVE  SumOver(w, S) + v[x] = SumOver(v, S) + w[x]
<1>1. IsFiniteSet(S \ {x})
  BY FS_Subset
<1>2. SumOver(w, S) = w[x] + SumOver(w, S \ {x})
  BY SumRemove
<1>3. SumOver(v, S) = v[x] + SumOver(v, S \ {x})
  BY SumRemove
<1>4. SumOver(w, S \ {x}) = SumOver(v, S \ {x})
  BY <1>1, SumSame
<1>5. SumOver(v, S \ {x}) \in Nat
  BY <1>1, SumNat
<1> QED
  BY <1>2, <1>3, <1>4, <1>5

\* A part of a sum is at most the sum.
LEMMA SumPart ==
  ASSUME NEW S, IsFiniteSet(S), NEW w, \A x \in S : w[x] \in Nat, NEW T \in SUBSET S
  PROVE  SumOver(w, T) <= SumOver(w, S)
<1> DEFINE Good == {s \in SUBSET S : T \subseteq s => SumOver(w, T) <= SumOver(w, s)}
<1>0. IsFiniteSet(T) /\ SumOver(w, T) \in Nat
  BY FS_Subset, SumNat
<1>1. ASSUME NEW s \in SUBSET S, \A x \in s : s \ {x} \in Good
      PROVE  s \in Good
  <2> SUFFICES ASSUME T \subseteq s
               PROVE  SumOver(w, T) <= SumOver(w, s)
    OBVIOUS
  <2>1. CASE T = s
    BY <1>0, <2>1
  <2>2. CASE T # s
    <3>1. PICK x \in s : x \notin T
      BY <2>2
    <3>2. SumOver(w, T) <= SumOver(w, s \ {x})
      BY <1>1, <3>1
    <3>3. IsFiniteSet(s) /\ IsFiniteSet(s \ {x})
      BY FS_Subset
    <3>4. SumOver(w, s) = w[x] + SumOver(w, s \ {x})
      BY <3>3, SumRemove
    <3>5. SumOver(w, s \ {x}) \in Nat /\ w[x] \in Nat
      BY <3>3, SumNat
    <3> QED
      BY <1>0, <3>2, <3>4, <3>5
  <2> QED
    BY <2>1, <2>2
<1>2. SUBSET S \subseteq Good
  <2> HIDE DEF Good
  <2> QED
    BY <1>1, SubsetInduction
<1> QED
  BY <1>2

\* The sizes of disjoint parts of a finite set add up to no more than its own.
LEMMA SumOfParts ==
  ASSUME NEW S, IsFiniteSet(S), NEW U, IsFiniteSet(U), NEW part, NEW w,
         \A x \in S : part[x] \subseteq U /\ w[x] = Cardinality(part[x]),
         \A x, y \in S : x = y \/ part[x] \cap part[y] = {}
  PROVE  SumOver(w, S) <= Cardinality(U)
<1> DEFINE Joined(s) == {u \in U : \E x \in s : u \in part[x]}
           Good == {s \in SUBSET S : SumOver(w, s) = Cardinality(Joined(s))}
<1>0. \A x \in S : IsFiniteSet(part[x]) /\ w[x] \in Nat
  BY FS_Subset, FS_CardinalityType
<1>1. ASSUME NEW s \in SUBSET S, \A x \in s : s \ {x} \in Good
      PROVE  s \in Good
  <2>1. CASE s = {}
    <3>1. Joined(s) = {}
      BY <2>1
    <3> QED
      BY <2>1, <3>1, SumEmpty, FS_EmptySet
  <2>2. CASE s # {}
    <3>1. PICK x \in s : TRUE
      BY <2>2
    <3> DEFINE t == s \ {x}
    <3>2. IsFiniteSet(s) /\ IsFiniteSet(Joined(t))
      BY FS_Subset
    <3>3. SumOver(w, s) = w[x] + SumOver(w, t)
      BY <1>0, <3>2, SumRemove
    <3>4. SumOver(w, t) = Cardinality(Joined(t))
      BY <1>1
    <3>5. Joined(s) = part[x] \cup Joined(t) /\ part[x] \cap Joined(t) = {}
      OBVIOUS
    <3>6. Cardinality(Joined(s)) = Cardinality(part[x]) + Cardinality(Joined(t)) - 0
      <4> DEFINE a == part[x]
                 b == Joined(t)
      <4>1. IsFiniteSet(a) /\ IsFiniteSet(b) /\ Joined(s) = a \cup b /\ a \cap b = {}
        BY <1>0, <3>2, <3>5
      <4> HIDE DEF Joined, a, b
      <4>2. Cardinality(a \cup b) = Cardinality(a) + Cardinality(b) - Cardinality(a \cap b)
        BY <4>1, FS_Union
      <4>3. Cardinality(a \cap b) = 0
        BY <4>1, FS_EmptySet
      <4> QED
        BY <4>1, <4>2, <4>3 DEF a, b
    <3>7. Cardinality(part[x]) \in Nat /\ Cardinality(Joined(t)) \in Nat
      BY <1>0, <3>2, FS_CardinalityType
    <3> QED
      BY <3>3, <3>4, <3>6, <3>7
  <2> QED
    BY <2>1, <2>2
<1>2. SUBSET S \subseteq Good
  <2> HIDE DEF Good
  <2> QED
    BY <1>1, SubsetInduction
<1>3. Joined(S) \in SUBSET U
  OBVIOUS
<1>4. Cardinality(Joined(S)) <= Cardinality(U)
  <2> HIDE DEF Joined
  <2> QED
    BY <1>3, FS_Subset
<1>5. SumOver(w, S) = Cardinality(Joined(S))
  BY <1>2
<1> QED
  BY <1>4, <1>5

\* A sum may be taken along a renaming of its terms.
LEMMA SumRenamed ==
  ASSUME NEW S, IsFiniteSet(S), NEW T, NEW f \in [S -> T], \A x, y \in S : f[x] = f[y] => x = y,
         \A z \in T : \E x \in S : f[x] = z,
         NEW v, NEW w, \A x \in S : v[x] \in Nat /\ v[x] = w[f[x]]
  PROVE  SumOver(v, S) = SumOver(w, T)
<1> DEFINE Img(s) == {f[x] : x \in s}
           Good == {s \in SUBSET S : IsFiniteSet(Img(s)) /\ SumOver(v, s) = SumOver(w, Img(s))}
<1>1. ASSUME NEW s \in SUBSET S, \A x \in s : s \ {x} \in Good
      PROVE  s \in Good
  <2>1. CASE s = {}
    <3>1. Img(s) = {}
      BY <2>1
    <3> QED
      BY <2>1, <3>1, SumEmpty, FS_EmptySet
  <2>2. CASE s # {}
    <3>1. PICK x \in s : TRUE
      BY <2>2
    <3> DEFINE t == s \ {x}
    <3>2. t \in Good
      BY <1>1
    <3>3. /\ Img(s) = Img(t) \cup {f[x]} /\ f[x] \in Img(s) /\ Img(s) \ {f[x]} = Img(t)
          /\ \A z \in Img(s) : w[z] \in Nat
      OBVIOUS
    <3>4. IsFiniteSet(Img(s)) /\ IsFiniteSet(s)
      <4>1. IsFiniteSet(s)
        BY FS_Subset
      <4>2. IsFiniteSet(Img(t)) /\ Img(s) = Img(t) \cup {f[x]}
        BY <3>2, <3>3
      <4>3. IsFiniteSet(Img(t) \cup {f[x]})
        <5> DEFINE I == Img(t)
        <5> HIDE DEF I
        <5>1. IsFiniteSet(I)
          BY <4>2 DEF I
        <5>2. IsFiniteSet(I \cup {f[x]})
          BY <5>1, FS_AddElement
        <5> QED
          BY <5>2 DEF I
      <4> HIDE DEF Img
      <4> QED
        BY <4>1, <4>2, <4>3
    <3>5. SumOver(v, s) = v[x] + SumOver(v, t)
      BY <3>4, SumRemove
    <3>6. SumOver(w, Img(s)) = w[f[x]] + SumOver(w, Img(t))
      <4> DEFINE I == Img(s)
      <4>1. /\ IsFiniteSet(I) /\ f[x] \in I /\ I \ {f[x]} = Img(t)
            /\ \A z \in I : w[z] \in Nat
        BY <3>3, <3>4
      <4> HIDE DEF I, Img
      <4>2. SumOver(w, I) = w[f[x]] + SumOver(w, I \ {f[x]})
        BY <4>1, SumRemove
      <4> QED
        BY <4>1, <4>2 DEF I
    <3>7. SumOver(v, t) = SumOver(w, Img(t)) /\ v[x] = w[f[x]]
      BY <3>2
    <3> QED
      BY <3>4, <3>5, <3>6, <3>7
  <2> QED
    BY <2>1, <2>2
<1>2. SUBSET S \subseteq Good
  <2> HIDE DEF Good
  <2> QED
    BY <1>1, SubsetInduction
<1>3. Img(S) = T
  OBVIOUS
<1>4. SumOver(v, S) = SumOver(w, Img(S))
  BY <1>2
<1> QED
  BY <1>3, <1>4

\* As SumScaled, with a sum that is not empty and strict inequalities.
LEMMA SumScaledStrictly ==
  ASSUME NEW S, IsFiniteSet(S), S # {}, NEW v, NEW w, NEW c \in Nat, NEW d \in Nat,
         \A x \in S : v[x] \in Nat /\ w[x] \in Nat /\ c * v[x] < d * w[x]
  PROVE  c * SumOver(v, S) < d * SumOver(w, S)
<1>1. PICK x \in S : TRUE
  OBVIOUS
<1> DEFINE T == S \ {x}
           a == SumOver(v, T)
           b == SumOver(w, T)
<1>2. IsFiniteSet(T) /\ \A y \in T : c * v[y] <= d * w[y]
  <2>1. \A y \in T : c * v[y] \in Nat /\ d * w[y] \in Nat
    OBVIOUS
  <2>2. \A y \in T : c * v[y] < d * w[y]
    OBVIOUS
  <2>3. \A m, n \in Nat : m < n => m <= n
    OBVIOUS
  <2> QED
    BY <2>1, <2>2, <2>3, FS_Subset
<1>3. c * a <= d * b /\ a \in Nat /\ b \in Nat
  <2> HIDE DEF T
  <2>1. \A y \in T : v[y] \in Nat /\ w[y] \in Nat
    BY DEF T
  <2> QED
    BY <1>2, <2>1, SumScaled, SumNat
<1>4. SumOver(v, S) = v[x] + a /\ SumOver(w, S) = w[x] + b
  BY SumRemove
<1> HIDE DEF a, b
<1>5. c * (v[x] + a) = c * v[x] + c * a /\ d * (w[x] + b) = d * w[x] + d * b
  BY <1>3
<1>6. c * v[x] < d * w[x] /\ c * v[x] \in Nat /\ d * w[x] \in Nat /\ c * a \in Nat /\ d * b \in Nat
  BY <1>3
<1>7. c * (v[x] + a) < d * (w[x] + b)
  BY <1>3, <1>5, <1>6
<1> QED
  BY <1>4, <1>7

\* Adding one to every term adds the number of terms.
LEMMA SumPlusOne ==
  ASSUME NEW S, IsFiniteSet(S), NEW v, NEW w, \A x \in S : v[x] \in Nat /\ w[x] = v[x] + 1
  PROVE  SumOver(w, S) = SumOver(v, S) + Cardinality(S)
<1> DEFINE Good == {s \in SUBSET S : SumOver(w, s) = SumOver(v, s) + Cardinality(s)}
<1>1. ASSUME NEW s \in SUBSET S, \A x \in s : s \ {x} \in Good
      PROVE  s \in Good
  <2>1. CASE s = {}
    BY <2>1, SumEmpty, FS_EmptySet
  <2>2. CASE s # {}
    <3>1. PICK x \in s : TRUE
      BY <2>2
    <3> DEFINE t == s \ {x}
    <3>2. SumOver(w, t) = SumOver(v, t) + Cardinality(t)
      BY <1>1
    <3>3. IsFiniteSet(s) /\ IsFiniteSet(t)
      BY FS_Subset
    <3>4. SumOver(v, s) = v[x] + SumOver(v, t) /\ SumOver(w, s) = w[x] + SumOver(w, t)
      BY <3>3, SumRemove
    <3>5. SumOver(v, t) \in Nat
      BY <3>3, SumNat
    <3>6. Cardinality(t) = Cardinality(s) - 1 /\ Cardinality(s) \in Nat
      BY <3>3, FS_RemoveElement, FS_CardinalityType
    <3> QED
      BY <3>2, <3>4, <3>5, <3>6
  <2> QED
    BY <2>1, <2>2
<1>2. SUBSET S \subseteq Good
  <2> HIDE DEF Good
  <2> QED
    BY <1>1, SubsetInduction
<1> QED
  BY <1>2

-----------------------------------------------------------------------------
(***************************************************************************)
(* What a claim takes out of a pool, and what all claims take together.    *)
(***************************************************************************)
Drawn(balance, weight, total) ==
  IF total = 0 \/ weight = 0 \/ balance = 0 THEN 0 ELSE Share(balance, weight, total)

\* calculate_fee of any amount, also of one that is no u64.
LEMMA FeeSplitsAny ==
  ASSUME NEW amount \in Nat, NEW bps \in 0..MaxProtocolFeeBps
  PROVE  LET r == CalculateFee(amount, bps)
         IN  r.fee \in Nat /\ r.payout \in Nat /\ r.fee + r.payout = amount
<1> DEFINE m == SaturatingMul(amount, bps)
           f == m \div BpsDenominator
<1>1. bps \in Nat /\ bps <= 5000 /\ U64Max \in Nat
  BY FeeAssumption DEF MaxProtocolFeeBps
<1>2. amount * bps \in Nat /\ amount * bps <= amount * 5000
  BY <1>1
<1>3. m \in Nat /\ m <= amount * 5000
  BY <1>1, <1>2 DEF SaturatingMul
<1>4. f \in Nat /\ f * 10000 <= m
  <2> HIDE DEF m
  <2> QED
    BY <1>3, DivDown DEF BpsDenominator
<1>5. f <= amount
  <2> HIDE DEF m, f
  <2> QED
    BY <1>3, <1>4
<1>6. CalculateFee(amount, bps) = [fee |-> f, payout |-> SaturatingSub(amount, f)]
  BY DEF CalculateFee
<1> HIDE DEF f, m
<1>7. SaturatingSub(amount, f) = amount - f
  BY <1>4, <1>5 DEF SaturatingSub
<1> QED
  BY <1>4, <1>5, <1>6, <1>7

\* The share of a pool is at most in proportion to the weight.
LEMMA DrawnInProportion ==
  ASSUME NEW balance \in Nat, NEW weight \in Nat, NEW total \in Nat
  PROVE  /\ Drawn(balance, weight, total) \in Nat
         /\ total * Drawn(balance, weight, total) <= balance * weight
<1>1. CASE total = 0 \/ weight = 0 \/ balance = 0
  <2>1. balance * weight \in Nat
    OBVIOUS
  <2> QED
    BY <1>1, <2>1 DEF Drawn
<1>2. CASE ~(total = 0 \/ weight = 0 \/ balance = 0)
  <2> DEFINE p == balance * weight
             q == p \div total
  <2>1. p \in Nat /\ total > 0
    BY <1>2
  <2>2. q \in Nat /\ q * total <= p
    <3> HIDE DEF p
    <3> QED
      BY <2>1, DivDown
  <2>3. Drawn(balance, weight, total) = IF q > U64Max THEN U64Max ELSE q
    BY <1>2 DEF Drawn, Share
  <2> DEFINE d == Drawn(balance, weight, total)
  <2>4. d \in Nat /\ d <= q
    <3> HIDE DEF q
    <3> QED
      BY <2>2, <2>3, FeeAssumption
  <2> HIDE DEF q, d
  <2>5. total * d <= total * q /\ total * q = q * total
    BY <2>2, <2>4
  <2>6. total * d \in Int /\ total * q \in Int
    BY <2>2, <2>4
  <2>7. total * d <= p
    <3> HIDE DEF p
    <3> QED
      BY <2>1, <2>2, <2>5, <2>6
  <2> QED
    BY <2>4, <2>7 DEF d
<1> QED
  BY <1>1, <1>2

\* A claim takes its share, split into the fee and the payout.
LEMMA ClaimDraws ==
  ASSUME NEW balance \in Nat, NEW weight \in Nat, NEW total \in Nat,
         NEW bps \in 0..MaxProtocolFeeBps
  PROVE  LET r == CalculateProportionalPayout(balance, weight, total, bps)
         IN  /\ r.fee \in Nat /\ r.payout \in Nat
             /\ r.fee + r.payout = Drawn(balance, weight, total)
<1>1. CASE total = 0 \/ weight = 0 \/ balance = 0
  BY <1>1 DEF Drawn, CalculateProportionalPayout
<1>2. CASE ~(total = 0 \/ weight = 0 \/ balance = 0)
  <2> DEFINE s == Share(balance, weight, total)
  <2>1. /\ CalculateProportionalPayout(balance, weight, total, bps) = CalculateFee(s, bps)
        /\ Drawn(balance, weight, total) = s
    BY <1>2 DEF Drawn, CalculateProportionalPayout
  <2>2. s \in Nat
    BY <2>1, DrawnInProportion
  <2> HIDE DEF s
  <2> QED
    BY <2>1, <2>2, FeeSplitsAny
<1> QED
  BY <1>1, <1>2

\* calculate_proportional_payout for all operators of a distribution: with any
\* number of operators and any weights, the payouts and fees together never
\* take more than the pool held when the distribution was posted.
THEOREM PayoutsTogether ==
  ASSUME NEW balance \in Nat, NEW S, IsFiniteSet(S), NEW w, \A o \in S : w[o] \in Nat,
         NEW draws, \A o \in S : draws[o] = Drawn(balance, w[o], SumOver(w, S))
  PROVE  SumOver(draws, S) <= balance
<1> DEFINE total == SumOver(w, S)
           sum == SumOver(draws, S)
<1>1. total \in Nat
  BY SumNat
<1>2. \A o \in S : draws[o] \in Nat /\ total * draws[o] <= balance * w[o]
  <2> HIDE DEF total
  <2>1. \A o \in S : draws[o] = Drawn(balance, w[o], total)
    BY DEF total
  <2> QED
    BY <1>1, <2>1, DrawnInProportion
<1>3. sum \in Nat
  BY <1>2, SumNat
<1>4. total * sum <= balance * total
  <2>1. total * SumOver(draws, S) <= balance * SumOver(w, S)
    <3> HIDE DEF total
    <3> QED
      BY <1>1, <1>2, SumScaled
  <2> QED
    BY <2>1
<1>5. CASE total = 0
  <2>1. \A o \in S : draws[o] = 0
    BY <1>5 DEF Drawn
  <2>2. 1 * SumOver(draws, S) <= 0 * SumOver(w, S)
    <3>1. \A o \in S : draws[o] \in Nat /\ w[o] \in Nat /\ 1 * draws[o] <= 0 * w[o]
      BY <2>1
    <3> QED
      BY <3>1, SumScaled
  <2> HIDE DEF total, sum
  <2>3. sum <= 0
    BY <1>1, <1>3, <2>2 DEF total, sum
  <2> QED
    BY <1>3, <2>3 DEF sum
<1>6. CASE total # 0
  <2> HIDE DEF total, sum
  <2>1. sum * total <= balance * total /\ total > 0
    BY <1>1, <1>3, <1>4, <1>6
  <2>2. sum <= balance
    BY <1>1, <1>3, <2>1, CancelFactor
  <2> QED
    BY <2>2 DEF sum
<1> QED
  BY <1>5, <1>6

\* Rounding takes less than one unit from a claim.
LEMMA DrawnRounded ==
  ASSUME NEW balance \in U64, NEW total \in Nat, total > 0, NEW weight \in 0..total
  PROVE  balance * weight < total * (Drawn(balance, weight, total) + 1)
<1>0. balance \in Nat /\ balance <= U64Max /\ U64Max \in Nat /\ weight \in Nat /\ weight <= total
  BY FeeAssumption DEF U64
<1>1. CASE weight = 0 \/ balance = 0
  <2>1. balance * weight = 0 /\ Drawn(balance, weight, total) = 0
    BY <1>0, <1>1 DEF Drawn
  <2> QED
    BY <2>1
<1>2. CASE ~(weight = 0 \/ balance = 0)
  <2> DEFINE p == balance * weight
             q == p \div total
  <2>1. p \in Nat
    BY <1>0
  <2>2. q \in Nat /\ q * total <= p /\ p < q * total + total
    <3> HIDE DEF p
    <3> QED
      BY <2>1, DivDown
  <2>3. p <= balance * total /\ balance * total \in Nat
    BY <1>0
  <2>4. q <= balance
    <3>1. q * total <= balance * total
      <4>1. q * total \in Nat
        BY <2>2
      <4> HIDE DEF p, q
      <4> QED
        BY <2>1, <2>2, <2>3, <4>1
    <3> HIDE DEF p, q
    <3> QED
      BY <1>0, <2>2, <3>1, CancelFactor
  <2>5. Drawn(balance, weight, total) = q
    <3>1. ~(q > U64Max)
      <4> HIDE DEF q
      <4> QED
        BY <1>0, <2>2, <2>4
    <3> QED
      BY <1>2, <3>1 DEF Drawn, Share
  <2>6. total * (q + 1) = q * total + total
    <3> HIDE DEF q
    <3> QED
      BY <2>2
  <2> QED
    BY <2>2, <2>5, <2>6
<1> QED
  BY <1>1, <1>2

\* calculate_proportional_payout for all operators of a distribution: rounding
\* leaves less than one unit per operator behind.
THEOREM LittleIsLeft ==
  ASSUME NEW balance \in U64, NEW S, IsFiniteSet(S), S # {}, NEW w, \A o \in S : w[o] \in Nat \ {0},
         NEW draws, \A o \in S : draws[o] = Drawn(balance, w[o], SumOver(w, S))
  PROVE  balance - SumOver(draws, S) < Cardinality(S)
<1> DEFINE total == SumOver(w, S)
           n == Cardinality(S)
           more == [o \in S |-> draws[o] + 1]
<1>1. total \in Nat /\ n \in Nat /\ balance \in Nat
  BY SumNat, FS_CardinalityType, FeeAssumption DEF U64
<1>2. ASSUME NEW o \in S
      PROVE  w[o] \in 0..total /\ total > 0
  <2>1. SumOver(w, S) = w[o] + SumOver(w, S \ {o})
    BY SumRemove
  <2>2. IsFiniteSet(S \ {o}) /\ \A y \in S \ {o} : w[y] \in Nat
    BY FS_Subset
  <2>3. SumOver(w, S \ {o}) \in Nat
    BY <2>2, SumNat
  <2> QED
    BY <2>1, <2>3
<1>3. ASSUME NEW o \in S
      PROVE  draws[o] \in Nat /\ balance * w[o] < total * more[o]
  <2> HIDE DEF total
  <2>1. draws[o] = Drawn(balance, w[o], total)
    BY DEF total
  <2> QED
    BY <1>1, <1>2, <2>1, DrawnInProportion, DrawnRounded
<1>4. balance * SumOver(w, S) < total * SumOver(more, S)
  <2>1. \A o \in S : w[o] \in Nat /\ more[o] \in Nat /\ balance * w[o] < total * more[o]
    BY <1>3
  <2> HIDE DEF total, more
  <2> QED
    BY <1>1, <2>1, SumScaledStrictly
<1>5. SumOver(more, S) = SumOver(draws, S) + n
  <2>1. \A o \in S : draws[o] \in Nat /\ more[o] = draws[o] + 1
    BY <1>3
  <2> HIDE DEF more
  <2> QED
    BY <2>1, SumPlusOne
<1>6. SumOver(draws, S) \in Nat
  BY <1>3, SumNat
<1> DEFINE sum == SumOver(draws, S)
           m == sum + n
<1>7. balance * total < total * m /\ m \in Nat
  BY <1>1, <1>4, <1>5, <1>6
<1>8. balance < m
  <2> HIDE DEF total, m
  <2> SUFFICES ASSUME m <= balance
               PROVE  FALSE
    BY <1>1, <1>7
  <2>1. total * m <= total * balance
    BY <1>1, <1>7
  <2>2. total * balance = balance * total /\ total * m \in Nat /\ balance * total \in Nat
    BY <1>1, <1>7
  <2> QED
    BY <1>7, <2>1, <2>2
<1> HIDE DEF sum, n
<1>9. balance - sum < n
  BY <1>1, <1>6, <1>8 DEF sum
<1> QED
  BY <1>9 DEF sum, n

-----------------------------------------------------------------------------
(***************************************************************************)
(* The order of keys.                                                      *)
(***************************************************************************)

\* A larger key has a larger rank, and ranks count from zero.
LEMMA RankOrder ==
  ASSUME NEW S, IsFiniteSet(S), S \subseteq Nat, NEW x \in S
  PROVE  /\ Rank(S, x) \in 0..(Cardinality(S) - 1)
         /\ \A y \in S : x < y => Rank(S, x) < Rank(S, y)
<1> DEFINE below(z) == {y \in S : y < z}
<1>1. Cardinality(S) \in Nat
  BY FS_CardinalityType
<1>2. \A z \in S : IsFiniteSet(below(z)) /\ Cardinality(below(z)) \in Nat
  BY FS_Subset, FS_CardinalityType
<1>3. Cardinality(below(x)) < Cardinality(S)
  <2>1. below(x) \subseteq S /\ below(x) # S
    OBVIOUS
  <2> HIDE DEF below
  <2>2. Cardinality(below(x)) <= Cardinality(S) /\ Cardinality(below(x)) # Cardinality(S)
    BY <2>1, FS_Subset
  <2> QED
    BY <1>1, <1>2, <2>2
<1>4. ASSUME NEW y \in S, x < y
      PROVE  Cardinality(below(x)) < Cardinality(below(y))
  <2>1. below(x) \subseteq below(y) /\ below(x) # below(y)
    <3>1. \A z \in S : z < x => z < y
      BY <1>4
    <3>2. x \in below(y) /\ x \notin below(x)
      BY <1>4
    <3> QED
      BY <3>1, <3>2
  <2>2. IsFiniteSet(below(y))
    BY <1>2
  <2> HIDE DEF below
  <2>3. Cardinality(below(x)) <= Cardinality(below(y)) /\ Cardinality(below(x)) # Cardinality(below(y))
    BY <2>1, <2>2, FS_Subset
  <2> QED
    BY <1>2, <2>3
<1>5. \A z \in S : Rank(S, z) = Cardinality(below(z))
  BY DEF Rank
<1> HIDE DEF below
<1> QED
  BY <1>1, <1>2, <1>3, <1>4, <1>5

\* Every rank is taken.
LEMMA RankTaken ==
  ASSUME NEW S, IsFiniteSet(S), S \subseteq Nat
  PROVE  \A k \in 0..(Cardinality(S) - 1) : \E x \in S : Rank(S, x) = k
<1> DEFINE Good == {s \in SUBSET S : \A k \in 0..(Cardinality(s) - 1) : \E x \in s : Rank(s, x) = k}
<1>1. ASSUME NEW s \in SUBSET S, \A x \in s : s \ {x} \in Good
      PROVE  s \in Good
  <2> SUFFICES ASSUME NEW k \in 0..(Cardinality(s) - 1)
               PROVE  \E x \in s : Rank(s, x) = k
    OBVIOUS
  <2>1. IsFiniteSet(s) /\ Cardinality(s) \in Nat
    BY FS_Subset, FS_CardinalityType
  <2>2. s # {}
    BY <2>1, FS_EmptySet
  <2>3. PICK m \in s : \A y \in s : ~(y < m)
    BY <2>2, LeastNumber
  <2> DEFINE t == s \ {m}
  <2>4. CASE k = 0
    <3>1. {y \in s : y < m} = {}
      BY <2>3
    <3>2. Rank(s, m) = 0
      BY <3>1, FS_EmptySet DEF Rank
    <3> QED
      BY <2>4, <3>2
  <2>5. CASE k # 0
    <3>1. Cardinality(t) = Cardinality(s) - 1
      BY <2>1, FS_RemoveElement
    <3>2. k - 1 \in 0..(Cardinality(t) - 1)
      <4> HIDE DEF t
      <4> QED
        BY <2>1, <2>5, <3>1
    <3>3. t \in Good
      BY <1>1
    <3>4. PICK x \in t : Rank(t, x) = k - 1
      BY <3>2, <3>3
    <3> DEFINE low == {y \in t : y < x}
    <3>5. IsFiniteSet(low) /\ Cardinality(low) = k - 1
      BY <2>1, <3>4, FS_Subset DEF Rank
    <3>6. {y \in s : y < x} = low \cup {m} /\ m \notin low
      <4>1. m < x
        BY <2>3, <3>4
      <4> QED
        BY <4>1
    <3> HIDE DEF low
    <3>7. Cardinality(low \cup {m}) = (k - 1) + 1
      BY <3>5, <3>6, FS_AddElement
    <3>8. (k - 1) + 1 = k
      OBVIOUS
    <3> QED
      BY <3>4, <3>6, <3>7, <3>8 DEF Rank
  <2> QED
    BY <2>4, <2>5
<1>2. SUBSET S \subseteq Good
  <2> HIDE DEF Good
  <2> QED
    BY <1>1, SubsetInduction
<1> QED
  BY <1>2

\* A BTreeMap lists each of its keys once, in ascending order.
LEMMA AscendingLists ==
  ASSUME NEW S, IsFiniteSet(S), S \subseteq Nat
  PROVE  /\ Cardinality(S) \in Nat
         /\ Ascending(S) \in [1..Cardinality(S) -> S]
         /\ \A x \in S : \E i \in 1..Cardinality(S) : Ascending(S)[i] = x
         /\ \A i, j \in 1..Cardinality(S) : i < j => Ascending(S)[i] < Ascending(S)[j]
<1> DEFINE n == Cardinality(S)
           a == Ascending(S)
<1>1. n \in Nat
  BY FS_CardinalityType
<1> HIDE DEF n
<1>2. ASSUME NEW i \in 1..n
      PROVE  a[i] \in S /\ Rank(S, a[i]) = i - 1
  <2>1. i - 1 \in 0..(n - 1)
    BY <1>1
  <2>2. \E x \in S : Rank(S, x) = i - 1
    BY <2>1, RankTaken DEF n
  <2>3. a[i] = CHOOSE x \in S : Rank(S, x) = i - 1
    BY DEF Ascending, n
  <2> HIDE DEF a
  <2> QED
    BY <2>2, <2>3
<1>3. a \in [1..n -> S]
  <2>1. a = [i \in 1..n |-> a[i]]
    BY DEF Ascending, n
  <2> HIDE DEF a
  <2> QED
    BY <1>2, <2>1
<1> HIDE DEF a
<1>4. \A x, y \in S : Rank(S, x) = Rank(S, y) => x = y
  <2> SUFFICES ASSUME NEW x \in S, NEW y \in S, Rank(S, x) = Rank(S, y), x # y
               PROVE  FALSE
    OBVIOUS
  <2>1. x < y \/ y < x
    OBVIOUS
  <2>2. Rank(S, x) \in 0..(n - 1)
    BY RankOrder DEF n
  <2>3. Rank(S, x) < Rank(S, y) \/ Rank(S, y) < Rank(S, x)
    BY <2>1, RankOrder
  <2> QED
    BY <1>1, <2>2, <2>3
<1>5. ASSUME NEW x \in S
      PROVE  \E i \in 1..n : a[i] = x
  <2>1. Rank(S, x) \in 0..(n - 1)
    BY RankOrder DEF n
  <2> DEFINE i == Rank(S, x) + 1
  <2>2. i \in 1..n /\ i - 1 = Rank(S, x)
    BY <1>1, <2>1
  <2> HIDE DEF i
  <2> QED
    BY <1>2, <1>4, <2>2
<1>6. ASSUME NEW i \in 1..n, NEW j \in 1..n, i < j
      PROVE  a[i] < a[j]
  <2>1. a[i] \in S /\ a[j] \in S /\ Rank(S, a[i]) = i - 1 /\ Rank(S, a[j]) = j - 1
    BY <1>2
  <2>2. ~(a[j] < a[i])
    <3> SUFFICES ASSUME a[j] < a[i]
                 PROVE  FALSE
      OBVIOUS
    <3>1. Rank(S, a[j]) < Rank(S, a[i])
      BY <2>1, RankOrder
    <3> QED
      BY <1>6, <2>1, <3>1
  <2>3. a[i] # a[j]
    BY <1>6, <2>1
  <2>4. a[i] \in Nat /\ a[j] \in Nat
    BY <2>1
  <2> QED
    BY <2>2, <2>3, <2>4
<1> QED
  BY <1>1, <1>3, <1>5, <1>6 DEF n, a

-----------------------------------------------------------------------------
(***************************************************************************)
(* Powers.                                                                 *)
(***************************************************************************)

Powers(f, b, n) == f = [k \in 0..n |-> IF k = 0 THEN 1 ELSE b * f[k - 1]]

\* What a table of powers says does not depend on its length.
LEMMA PowersAgree ==
  ASSUME NEW b, NEW m \in Nat, NEW n \in Nat, m <= n, NEW f, Powers(f, b, m), NEW g, Powers(g, b, n)
  PROVE  \A k \in 0..m : f[k] = g[k]
<1> DEFINE Good == {k \in 0..m : f[k] = g[k]}
<1>1. 0 \in Good
  BY DEF Powers
<1>2. ASSUME NEW k \in 0..m, k # m, k \in Good
      PROVE  k + 1 \in Good
  <2>1. k + 1 \in 0..m /\ k + 1 \in 0..n /\ k + 1 # 0 /\ (k + 1) - 1 = k
    BY <1>2
  <2>2. f[k + 1] = b * f[k] /\ g[k + 1] = b * g[k]
    <3>1. f[k + 1] = b * f[(k + 1) - 1] /\ g[k + 1] = b * g[(k + 1) - 1]
      BY <2>1 DEF Powers
    <3> QED
      BY <2>1, <3>1
  <2> QED
    BY <1>2, <2>1, <2>2
<1> HIDE DEF Good
<1>3. 0..m \subseteq Good
  BY <1>1, <1>2, CountUp
<1> QED
  BY <1>3 DEF Good

\* The recursion of Power is one on the numbers up to n.
LEMMA PowersExist ==
  ASSUME NEW b, NEW n \in Nat
  PROVE  \E f : Powers(f, b, n) /\ Power(b, n) = f[n]
<1> DEFINE Good == {m \in 0..n : \E f : Powers(f, b, m)}
<1>1. 0 \in Good
  <2>1. Powers([k \in 0..0 |-> 1], b, 0)
    BY DEF Powers
  <2> QED
    BY <2>1
<1>2. ASSUME NEW m \in 0..n, m # n, m \in Good
      PROVE  m + 1 \in Good
  <2>1. PICK f : Powers(f, b, m)
    BY <1>2
  <2> DEFINE g == [k \in 0..(m + 1) |-> IF k = m + 1 THEN b * f[m] ELSE f[k]]
  <2>2. ASSUME NEW k \in 0..(m + 1)
        PROVE  g[k] = IF k = 0 THEN 1 ELSE b * g[k - 1]
    <3>1. CASE k = m + 1
      BY <3>1
    <3>2. CASE k \in 0..m
      <4>1. g[k] = IF k = 0 THEN 1 ELSE b * f[k - 1]
        BY <2>1, <3>2 DEF Powers
      <4>2. k # 0 => g[k - 1] = f[k - 1]
        BY <3>2
      <4> QED
        BY <4>1, <4>2
    <3> QED
      BY <3>1, <3>2
  <2>3. Powers(g, b, m + 1)
    BY <2>2 DEF Powers
  <2>4. m + 1 \in 0..n
    BY <1>2
  <2> HIDE DEF g
  <2> QED
    BY <2>3, <2>4
<1>3. n \in Good
  <2> HIDE DEF Good
  <2>1. 0..n \subseteq Good
    BY <1>1, <1>2, CountUp
  <2> QED
    BY <2>1
<1>4. \E f : Powers(f, b, n)
  BY <1>3
<1>5. Power(b, n) = (CHOOSE f : Powers(f, b, n))[n]
  BY DEF Power, Powers
<1> QED
  BY <1>4, <1>5

\* The recursion Power stands for.
LEMMA PowerRec ==
  ASSUME NEW b
  PROVE  /\ Power(b, 0) = 1
         /\ \A n \in Nat : Power(b, n + 1) = b * Power(b, n)
<1>1. Power(b, 0) = 1
  <2>1. PICK f : Powers(f, b, 0) /\ Power(b, 0) = f[0]
    BY PowersExist
  <2> QED
    BY <2>1 DEF Powers
<1>2. ASSUME NEW n \in Nat
      PROVE  Power(b, n + 1) = b * Power(b, n)
  <2>1. PICK f : Powers(f, b, n) /\ Power(b, n) = f[n]
    BY PowersExist
  <2>2. PICK g : Powers(g, b, n + 1) /\ Power(b, n + 1) = g[n + 1]
    BY PowersExist
  <2>3. f[n] = g[n]
    BY <2>1, <2>2, PowersAgree
  <2>4. g[n + 1] = b * g[(n + 1) - 1]
    BY <2>2 DEF Powers
  <2> QED
    BY <2>1, <2>2, <2>3, <2>4
<1> QED
  BY <1>1, <1>2

\* Powers are positive numbers.
LEMMA PowerType ==
  ASSUME NEW b \in Nat \ {0}, NEW n \in Nat
  PROVE  Power(b, n) \in Nat \ {0}
<1> DEFINE Good == {k \in 0..n : Power(b, k) \in Nat \ {0}}
<1>1. 0 \in Good
  BY PowerRec
<1>2. ASSUME NEW k \in 0..n, k # n, k \in Good
      PROVE  k + 1 \in Good
  <2>1. Power(b, k + 1) = b * Power(b, k)
    <3>1. k \in Nat
      OBVIOUS
    <3> HIDE DEF Good
    <3> QED
      BY <3>1, PowerRec
  <2>2. \A x, y \in Nat \ {0} : x * y \in Nat \ {0}
    OBVIOUS
  <2>3. Power(b, k + 1) \in Nat \ {0}
    BY <1>2, <2>1, <2>2
  <2> QED
    BY <1>2, <2>3
<1> HIDE DEF Good
<1>3. 0..n \subseteq Good
  BY <1>1, <1>2, CountUp
<1> QED
  BY <1>3 DEF Good

\* 2^(k + m) = 2^k * 2^m.
LEMMA PowerSum ==
  ASSUME NEW m \in Nat, NEW n \in Nat
  PROVE  Power(2, m + n) = Power(2, m) * Power(2, n)
<1> DEFINE Good == {k \in 0..n : Power(2, m + k) = Power(2, m) * Power(2, k)}
<1>1. 0 \in Good
  BY PowerRec, PowerType
<1>2. ASSUME NEW k \in 0..n, k # n, k \in Good
      PROVE  k + 1 \in Good
  <2>1. Power(2, k + 1) = 2 * Power(2, k)
    BY PowerRec
  <2>2. Power(2, m + (k + 1)) = 2 * Power(2, m + k)
    <3>1. m + (k + 1) = (m + k) + 1 /\ m + k \in Nat
      OBVIOUS
    <3> QED
      BY <3>1, PowerRec
  <2>3. \A x, y \in Nat : 2 * (x * y) = x * (2 * y)
    OBVIOUS
  <2>4. Power(2, m) \in Nat /\ Power(2, k) \in Nat
    BY PowerType
  <2>5. Power(2, m + (k + 1)) = Power(2, m) * Power(2, k + 1)
    BY <1>2, <2>1, <2>2, <2>3, <2>4
  <2> QED
    BY <1>2, <2>5
<1> HIDE DEF Good
<1>3. 0..n \subseteq Good
  BY <1>1, <1>2, CountUp
<1> QED
  BY <1>3 DEF Good

-----------------------------------------------------------------------------
(***************************************************************************)
(* Lists and digits.                                                       *)
(***************************************************************************)

\* s is a list of n elements.
IsList(s, n) == n \in Nat /\ s = [i \in 1..n |-> s[i]]

\* The length of a list.
LEMMA ListLen ==
  ASSUME NEW s, NEW n, IsList(s, n)
  PROVE  Len(s) = n /\ DOMAIN s = 1..n /\ s \in Seq({s[i] : i \in 1..n})
<1> DEFINE S == {s[i] : i \in 1..n}
<1>1. n \in Nat /\ s \in [1..n -> S]
  BY DEF IsList
<1>2. s \in Seq(S)
  BY <1>1
<1>3. DOMAIN s = 1..n /\ DOMAIN s = 1..Len(s) /\ Len(s) \in Nat
  BY <1>1, <1>2
<1>4. Len(s) = n
  BY <1>1, <1>3
<1> QED
  BY <1>2, <1>3, <1>4

\* Lists with the same elements are equal.
LEMMA SameList ==
  ASSUME NEW s, NEW t, NEW n, IsList(s, n), IsList(t, n), \A i \in 1..n : s[i] = t[i]
  PROVE  s = t
BY DEF IsList

\* Dividing by b * p is dividing by p, then by b.
LEMMA DivTwice ==
  ASSUME NEW n \in Nat, NEW p \in Nat \ {0}, NEW b \in Nat \ {0}
  PROVE  n \div (b * p) = (n \div p) \div b
<1> DEFINE q == n \div p
           r == n % p
           u == q \div b
           v == q % b
<1>1. q \in Nat /\ r \in Nat /\ n = p * q + r /\ r < p
  OBVIOUS
<1> HIDE DEF q, r
<1>2. u \in Nat /\ v \in Nat /\ q = b * u + v /\ v < b
  BY <1>1
<1> HIDE DEF u, v
<1>3. b * p \in Nat \ {0}
  OBVIOUS
<1>4. n = (b * p) * u + (p * v + r)
  <2>1. p * q = (b * p) * u + p * v
    BY <1>1, <1>2
  <2> HIDE DEF q, r
  <2> QED
    BY <1>1, <1>2, <2>1
<1>5. p * v + r \in Nat /\ p * v + r < b * p
  <2>1. PICK w \in Nat : b = v + 1 + w
    <3>1. b - v - 1 \in Nat /\ b = v + 1 + (b - v - 1)
      BY <1>2
    <3> QED
      BY <3>1
  <2>2. b * p = p * v + p + w * p
    BY <1>2, <2>1
  <2>3. p * v \in Nat /\ w * p \in Nat
    BY <1>2
  <2> QED
    BY <1>1, <2>2, <2>3
<1>6. n \div (b * p) = u
  <2>1. \A d \in Nat \ {0} : \A x, y \in Nat : y < d => (d * x + y) \div d = x
    <3> TAKE d \in Nat \ {0}
    <3> TAKE x, y \in Nat
    <3> HAVE y < d
    <3> DEFINE z == (d * x + y) \div d
               t == (d * x + y) % d
    <3>1. z \in Nat /\ t \in Nat /\ d * x + y = d * z + t /\ t < d
      <4>1. d * x + y \in Nat
        OBVIOUS
      <4> QED
        BY <4>1
    <3> HIDE DEF z, t
    <3>2. ~(x < z)
      <4> SUFFICES ASSUME x < z
                   PROVE  FALSE
        OBVIOUS
      <4>1. PICK e \in Nat : z = x + 1 + e
        <5>1. z - x - 1 \in Nat /\ z = x + 1 + (z - x - 1)
          BY <3>1
        <5> QED
          BY <5>1
      <4>2. d * z = d * x + d + d * e /\ d * e \in Nat /\ d * x \in Nat
        BY <4>1
      <4> QED
        BY <3>1, <4>2
    <3>3. ~(z < x)
      <4> SUFFICES ASSUME z < x
                   PROVE  FALSE
        OBVIOUS
      <4>1. PICK e \in Nat : x = z + 1 + e
        <5>1. x - z - 1 \in Nat /\ x = z + 1 + (x - z - 1)
          BY <3>1
        <5> QED
          BY <5>1
      <4>2. d * x = d * z + d + d * e /\ d * e \in Nat /\ d * z \in Nat
        BY <3>1, <4>1
      <4> QED
        BY <3>1, <4>2
    <3>4. z = x
      BY <3>1, <3>2, <3>3
    <3> QED
      BY <3>4 DEF z
  <2> QED
    BY <1>2, <1>3, <1>4, <1>5, <2>1
<1> QED
  BY <1>6 DEF u, q

\* to_le_bytes and from_le_bytes: a number that fits into the bytes is read
\* back from them.
LEMMA DigitsRead ==
  ASSUME NEW B \in Nat \ {0}, NEW w \in Nat, NEW n \in Nat, n < Power(B, w)
  PROVE  /\ IsList(Digits(n, B, w), w)
         /\ \A i \in 1..w : Digits(n, B, w)[i] \in 0..(B - 1)
         /\ ValueOf(Digits(n, B, w), B) = n
<1> DEFINE P(k) == Power(B, k)
           bytes == Digits(n, B, w)
           value == [i \in 1..w |-> bytes[i] * P(i - 1)]
<1>1. B \in Nat \ {0}
  OBVIOUS
<1>2. IsList(bytes, w) /\ \A i \in 1..w : bytes[i] = (n \div P(i - 1)) % B
  BY DEF IsList, Digits
<1>3. ValueOf(bytes, B) = SumOver(value, 1..w)
  BY <1>2 DEF ValueOf, SumOver, Digits
<1>4. \A k \in Nat : P(k) \in Nat \ {0} /\ P(k + 1) = B * P(k)
  BY <1>1, PowerType, PowerRec
<1>5. ASSUME NEW i \in 1..w
      PROVE  value[i] = ((n \div P(i - 1)) % B) * P(i - 1) /\ value[i] \in Nat
  <2>1. value[i] = ((n \div P(i - 1)) % B) * P(i - 1)
    BY <1>2
  <2>2. P(i - 1) \in Nat \ {0}
    <3>1. i - 1 \in Nat
      OBVIOUS
    <3> HIDE DEF P
    <3> QED
      BY <1>4, <3>1
  <2>3. \A x, y \in Nat \ {0} : (n \div x) % y \in Nat /\ ((n \div x) % y) * x \in Nat
    OBVIOUS
  <2> HIDE DEF value, P
  <2> QED
    BY <1>1, <2>1, <2>2, <2>3
<1> HIDE DEF value, bytes, P
<1> DEFINE Good == {k \in 0..w : /\ SumOver(value, 1..k) \in Nat
                                 /\ n = SumOver(value, 1..k) + P(k) * (n \div P(k))}
<1>6. 0 \in Good
  <2>1. 1..0 = {} /\ P(0) = 1
    BY PowerRec DEF P
  <2>2. SumOver(value, 1..0) = 0
    BY <2>1, SumEmpty
  <2>3. n \div 1 = n
    OBVIOUS
  <2> QED
    BY <2>1, <2>2, <2>3
<1>7. ASSUME NEW k \in 0..w, k # w, k \in Good
      PROVE  k + 1 \in Good
  <2> DEFINE s == SumOver(value, 1..k)
             t == SumOver(value, 1..(k + 1))
             p == P(k)
             q == n \div p
  <2>1. k + 1 \in 1..w /\ k + 1 \in 0..w /\ (k + 1) - 1 = k /\ k \in Nat
    BY <1>7
  <2>2. p \in Nat \ {0} /\ P(k + 1) = B * p
    BY <1>4, <2>1
  <2>3. s \in Nat /\ n = s + p * q /\ q \in Nat
    <3>1. s \in Nat /\ n = s + p * q
      BY <1>7
    <3>2. \A x \in Nat \ {0} : n \div x \in Nat
      OBVIOUS
    <3> HIDE DEF p, s, Good
    <3> QED
      BY <2>2, <3>1, <3>2
  <2>4. t = value[k + 1] + s /\ t \in Nat
    <3>1. IsFiniteSet(1..(k + 1)) /\ (1..(k + 1)) \ {k + 1} = 1..k /\ k + 1 \in 1..(k + 1)
      <4>1. IsFiniteSet(1..(k + 1))
        BY <2>1, FS_Interval
      <4>2. (1..(k + 1)) \ {k + 1} = 1..k /\ k + 1 \in 1..(k + 1)
        BY <2>1
      <4> QED
        BY <4>1, <4>2
    <3>2. \A i \in 1..(k + 1) : value[i] \in Nat
      <4>1. 1..(k + 1) \subseteq 1..w
        BY <2>1
      <4> QED
        BY <1>5, <4>1
    <3>3. t = value[k + 1] + SumOver(value, (1..(k + 1)) \ {k + 1})
      BY <3>1, <3>2, SumRemove
    <3>4. t \in Nat
      BY <3>1, <3>2, SumNat
    <3> QED
      BY <3>1, <3>3, <3>4
  <2>5. value[k + 1] = (q % B) * p
    <3>1. value[k + 1] = ((n \div P((k + 1) - 1)) % B) * P((k + 1) - 1)
      BY <1>5, <2>1
    <3> QED
      BY <2>1, <3>1
  <2>6. n \div P(k + 1) = q \div B
    BY <1>1, <2>2, DivTwice
  <2> HIDE DEF s, t, p, q
  <2>7. n = t + P(k + 1) * (n \div P(k + 1))
    <3>1. q = B * (q \div B) + (q % B) /\ q \div B \in Nat /\ q % B \in Nat
      BY <1>1, <2>3
    <3>2. \A x, y, z, b \in Nat : x = b * y + z => p * x = z * p + (b * p) * y
      BY <2>2
    <3>3. p * q = (q % B) * p + (B * p) * (q \div B)
      BY <1>1, <2>3, <3>1, <3>2
    <3>4. (q % B) * p \in Nat /\ (B * p) * (q \div B) \in Nat
      BY <1>1, <2>2, <3>1
    <3> QED
      BY <2>2, <2>3, <2>4, <2>5, <2>6, <3>3, <3>4
  <2> QED
    BY <2>1, <2>4, <2>7 DEF t
<1>8. w \in Good
  <2>1. 0..w \subseteq Good
    <3> HIDE DEF Good
    <3> QED
      BY <1>6, <1>7, CountUp
  <2> QED
    BY <2>1
<1>9. n \div P(w) = 0 /\ P(w) \in Nat \ {0}
  <2>1. P(w) \in Nat \ {0} /\ n < P(w)
    <3>1. n < Power(B, w)
      OBVIOUS
    <3> QED
      BY <1>4, <3>1 DEF P
  <2>2. \A x \in Nat \ {0} : n < x => n \div x = 0
    <3> TAKE x \in Nat \ {0}
    <3> HAVE n < x
    <3> DEFINE z == n \div x
               t == n % x
    <3>1. z \in Nat /\ t \in Nat /\ n = x * z + t
      OBVIOUS
    <3> HIDE DEF z, t
    <3>2. z = 0
      <4> SUFFICES ASSUME z # 0
                   PROVE  FALSE
        OBVIOUS
      <4>1. PICK e \in Nat : z = e + 1
        <5>1. z - 1 \in Nat /\ z = (z - 1) + 1
          BY <3>1
        <5> QED
          BY <5>1
      <4>2. x * z = x * e + x /\ x * e \in Nat
        BY <4>1
      <4> QED
        BY <3>1, <4>2
    <3> QED
      BY <3>2 DEF z
  <2> QED
    BY <2>1, <2>2
<1>10. SumOver(value, 1..w) = n
  BY <1>8, <1>9
<1>11. \A i \in 1..w : bytes[i] \in 0..(B - 1)
  <2> TAKE i \in 1..w
  <2>1. i - 1 \in Nat
    OBVIOUS
  <2>2. P(i - 1) \in Nat \ {0}
    BY <1>4, <2>1
  <2>3. \A x \in Nat \ {0} : (n \div x) % B \in 0..(B - 1)
    OBVIOUS
  <2> QED
    BY <1>2, <2>2, <2>3
<1> QED
  BY <1>2, <1>3, <1>10, <1>11 DEF bytes
=============================================================================
