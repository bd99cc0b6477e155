-------------------------- MODULE SettlementProofs --------------------------
(***************************************************************************)
(* What a sale earns (Money, Rates), and how what it earned is settled and *)
(* paid (Settlement), for every value of the constants.                    *)
(***************************************************************************)
EXTENDS Settlement, Rates, FiniteSetTheorems, TLAPS

----------------------------------------------------------------------------
(* Money and rates, for all amounts, rates and tiers.                      *)

\* What the whole part of a quotient leaves.
LEMMA Quotient ==
  ASSUME NEW n \in Nat, NEW d \in Nat \ {0}
  PROVE  /\ n \div d \in Nat
         /\ (n \div d) * d <= n /\ n < (n \div d) * d + d
         /\ (n \div d) * d \in Nat
  OBVIOUS

LEMMA HalfEvenCases ==
  ASSUME NEW n \in Nat, NEW d \in Nat \ {0}
  PROVE  LET q == n \div d  r == n - q * d
         IN  /\ q \in Nat /\ r \in Nat /\ r < d
             /\ \/ DivideHalfEven(n, d) = q /\ 2 * r <= d
                \/ DivideHalfEven(n, d) = q + 1 /\ 2 * r >= d
<1> DEFINE q == n \div d
           r == n - q * d
<1>1. q \in Nat /\ q * d \in Nat /\ r \in Nat /\ r < d
  BY Quotient
<1>2. DivideHalfEven(n, d) = IF 2 * r > d \/ (2 * r = d /\ q % 2 = 1) THEN q + 1 ELSE q
  BY DEF DivideHalfEven
<1> HIDE DEF q, r
<1>3. \/ DivideHalfEven(n, d) = q /\ 2 * r <= d
      \/ DivideHalfEven(n, d) = q + 1 /\ 2 * r >= d
  BY <1>1, <1>2
<1> QED
  BY <1>1, <1>3 DEF q, r

\* The result is within half a unit of the exact quotient (money.ts:22-34).
THEOREM HalfEvenIsNearest ==
  ASSUME NEW n \in Nat, NEW d \in Nat \ {0}
  PROVE  LET q == DivideHalfEven(n, d)
         IN  q \in Nat /\ 2 * (n - q * d) <= d /\ 2 * (q * d - n) <= d
<1> DEFINE w == n \div d
           p == w * d
<1>1. /\ w \in Nat /\ p \in Nat /\ n - p \in Nat /\ n - p < d
      /\ \/ DivideHalfEven(n, d) = w /\ 2 * (n - p) <= d
         \/ DivideHalfEven(n, d) = w + 1 /\ 2 * (n - p) >= d
  BY HalfEvenCases, Quotient
<1>2. (w + 1) * d = p + d
  BY <1>1
<1> HIDE DEF p
<1>3. CASE DivideHalfEven(n, d) = w /\ 2 * (n - p) <= d
  BY <1>1, <1>3 DEF p
<1>4. CASE DivideHalfEven(n, d) = w + 1 /\ 2 * (n - p) >= d
  BY <1>1, <1>2, <1>4
<1> QED
  BY <1>1, <1>3, <1>4

\* More is never rounded to less.
LEMMA HalfEvenMonotone ==
  ASSUME NEW m \in Nat, NEW n \in Nat, m <= n, NEW d \in Nat \ {0}
  PROVE  DivideHalfEven(m, d) <= DivideHalfEven(n, d)
<1> DEFINE v == m \div d
           w == n \div d
<1>1. /\ v \in Nat /\ w \in Nat /\ v * d \in Nat /\ w * d \in Nat
      /\ m - v * d \in Nat /\ m - v * d < d /\ n - w * d \in Nat /\ n - w * d < d
      /\ DivideHalfEven(m, d) = v \/ DivideHalfEven(m, d) = v + 1
      /\ DivideHalfEven(n, d) = w \/ DivideHalfEven(n, d) = w + 1
  BY HalfEvenCases, Quotient
<1>2. DivideHalfEven(m, d) = IF 2 * (m - v * d) > d \/ (2 * (m - v * d) = d /\ v % 2 = 1)
                             THEN v + 1 ELSE v
  BY DEF DivideHalfEven
<1>3. DivideHalfEven(n, d) = IF 2 * (n - w * d) > d \/ (2 * (n - w * d) = d /\ w % 2 = 1)
                             THEN w + 1 ELSE w
  BY DEF DivideHalfEven
<1> HIDE DEF v, w
<1>4. CASE v = w
  BY <1>1, <1>2, <1>3, <1>4
<1>5. CASE v + 1 <= w
  BY <1>1, <1>5
<1>6. CASE w + 1 <= v
  <2>1. (w + 1) * d <= v * d /\ (w + 1) * d = w * d + d
    BY <1>1, <1>6
  <2> QED
    BY <1>1, <2>1
<1> QED
  BY <1>1, <1>4, <1>5, <1>6

\* A whole number of units is what it is.
LEMMA HalfEvenExact ==
  ASSUME NEW q \in Nat, NEW d \in Nat \ {0}
  PROVE  DivideHalfEven(q * d, d) = q
<1>1. q * d \in Nat /\ (q * d) \div d = q
  OBVIOUS
<1> QED
  BY <1>1 DEF DivideHalfEven

LEMMA NatProduct ==
  ASSUME NEW a \in Nat, NEW b \in Nat, NEW c \in Nat, b <= c
  PROVE  a * b \in Nat /\ a * c \in Nat /\ a * b <= a * c /\ b * a = a * b
  OBVIOUS

LEMMA ProportionMonotone ==
  ASSUME NEW a \in Nat, NEW b \in Nat, NEW c \in Nat, b <= c, NEW d \in Nat \ {0}
  PROVE  Proportion(a, b, d) <= Proportion(a, c, d)
  BY NatProduct, HalfEvenMonotone DEF Proportion

\* A percentage of at most the whole never comes to more than its basis
\* (commissions.ts:69-90; the services take no rate above 10000).
THEOREM CommissionWithinBasis ==
  ASSUME NEW base \in Nat, NEW bps \in 0..10000
  PROVE  ComputeCommission(base, Percentage(bps)) \in 0..base
<1>1. ComputeCommission(base, Percentage(bps)) = Proportion(base, bps, 10000)
  BY DEF ComputeCommission, Percentage
<1>2. Proportion(base, bps, 10000) <= Proportion(base, 10000, 10000)
  <2>1. bps \in Nat /\ bps <= 10000 /\ 10000 \in Nat /\ 10000 \in Nat \ {0}
    OBVIOUS
  <2> QED
    BY <2>1, ProportionMonotone
<1>3. Proportion(base, 10000, 10000) = base
  BY HalfEvenExact DEF Proportion
<1>4. Proportion(base, bps, 10000) \in Nat
  BY NatProduct, HalfEvenIsNearest DEF Proportion
<1> QED
  BY <1>1, <1>2, <1>3, <1>4

\* On the same terms a larger sale never earns less.
THEOREM LargerSaleEarnsNoLess ==
  ASSUME NEW less \in Nat, NEW more \in Nat, less <= more, NEW bps \in Nat, NEW minor \in Nat,
         NEW rate \in {Percentage(bps), Fixed(minor)}
  PROVE  ComputeCommission(less, rate) <= ComputeCommission(more, rate)
<1>1. CASE rate = Percentage(bps)
  <2>1. less * bps = bps * less /\ more * bps = bps * more
    BY NatProduct
  <2>2. Proportion(bps, less, 10000) <= Proportion(bps, more, 10000)
    BY ProportionMonotone
  <2> QED
    BY <1>1, <2>1, <2>2 DEF ComputeCommission, Percentage, Proportion
<1>2. CASE rate = Fixed(minor)
  BY <1>2 DEF ComputeCommission, Fixed
<1> QED
  BY <1>1, <1>2

\* The share of a commission that a refunded sale keeps (conversions.ts:231-236): all of it while
\* nothing is refunded, none when all is, and a further refund never raises it, so that
\* reduceCommissionRow, which ignores a raise (commissions.ts:287), sets what the refund says.
THEOREM RefundsOnlyReduce ==
  ASSUME NEW original \in Nat, NEW amount \in Nat \ {0},
         NEW before \in 0..amount, NEW after \in 0..amount, before <= after
  PROVE  /\ Proportion(original, amount - after, amount)
              <= Proportion(original, amount - before, amount)
         /\ Proportion(original, amount, amount) = original
         /\ Proportion(original, 0, amount) = 0
<1>1. Proportion(original, amount - after, amount) <= Proportion(original, amount - before, amount)
  BY ProportionMonotone
<1>2. Proportion(original, amount, amount) = original
  BY HalfEvenExact DEF Proportion
<1>3. DivideHalfEven(0 * amount, amount) = 0
  BY HalfEvenExact
<1>4. original * 0 = 0 /\ 0 * amount = 0
  OBVIOUS
<1> QED
  BY <1>1, <1>2, <1>3, <1>4 DEF Proportion

\* Better figures never lead to a lower threshold, and a group's terms stay whatever the figures
\* are (tiers.ts:154-182).
THEOREM BetterNeverLowers ==
  ASSUME NEW tiers, NEW groups, NEW figure, NEW better,
         \A t \in tiers : t.threshold \in Nat /\ t.priority \in Nat
                          /\ figure[t] \in Int /\ better[t] \in Int /\ figure[t] <= better[t],
         NEW t \in ResolveTier(tiers, groups, figure),
         NEW u \in ResolveTier(tiers, groups, better)
  PROVE  \/ t.kind = "group" /\ u.kind = "group"
         \/ t.kind = "performance" /\ u.kind = "performance" /\ t.threshold <= u.threshold
<1> DEFINE mine == {s \in tiers : s.kind = "group" /\ s.group \in groups}
<1>1. CASE mine # {}
  BY <1>1 DEF ResolveTier
<1>2. CASE mine = {}
  <2>1. t \in tiers /\ t.kind = "performance" /\ figure[t] >= t.threshold
    BY <1>2 DEF ResolveTier
  <2>2. /\ u \in tiers /\ u.kind = "performance"
        /\ \A s \in tiers : s.kind = "performance" /\ better[s] >= s.threshold
                            => s.threshold < u.threshold \/ s.threshold = u.threshold
    BY <1>2 DEF ResolveTier
  <2>3. better[t] >= t.threshold
    BY <2>1
  <2> QED
    BY <2>1, <2>2, <2>3
<1> QED
  BY <1>1, <1>2

\* A share of a natural amount is a natural.
LEMMA ProportionNat ==
  ASSUME NEW a \in Nat, NEW part \in Nat, NEW whole \in Nat \ {0}
  PROVE  Proportion(a, part, whole) \in Nat
<1>1. a * part \in Nat
  OBVIOUS
<1> QED
  BY <1>1, HalfEvenIsNearest DEF Proportion

----------------------------------------------------------------------------
(* Sums over a finite set.                                                 *)

\* A non-empty set of naturals has a least member.
LEMMA LeastNumber ==
  ASSUME NEW T \in SUBSET Nat, T # {}
  PROVE  \E n \in T : \A m \in T : n <= m
<1>1. PICK n \in T : \A m \in T : ~ (<<m, n>> \in OpToRel(<, Nat))
  BY NatLessThanWellFounded, WFMin
<1>2. \A m \in T : m < n => <<m, n>> \in OpToRel(<, Nat)
  BY DEF OpToRel
<1>3. \A m \in T : ~(m < n)
  BY <1>1, <1>2
<1> QED
  BY <1>3

\* A non-empty set of subsets has a member that is in it with none of its points removed.
LEMMA SmallestSubset ==
  ASSUME NEW S, IsFiniteSet(S), NEW P \in SUBSET SUBSET S, P # {}
  PROVE  \E s \in P : \A x \in s : s \ {x} \notin P
<1>1. \A s \in P : IsFiniteSet(s) /\ Cardinality(s) \in Nat
  BY FS_Subset, FS_CardinalityType
<1>2. PICK n \in {Cardinality(s) : s \in P} : \A s \in P : n <= Cardinality(s)
  <2> DEFINE T == {Cardinality(s) : s \in P}
  <2>1. T \in SUBSET Nat /\ T # {}
    BY <1>1
  <2>2. \E n \in T : \A m \in T : n <= m
    <3> HIDE DEF T
    <3> QED
      BY <2>1, LeastNumber
  <2> QED
    BY <2>2
<1>3. PICK s \in P : n = Cardinality(s)
  BY <1>2
<1>4. \A x \in s : Cardinality(s \ {x}) = Cardinality(s) - 1
  BY <1>1, <1>3, FS_RemoveElement
<1> QED
  BY <1>1, <1>2, <1>3, <1>4

\* The point at which the recursion of SumFunctionOnSet takes a set apart.
Point(s) == CHOOSE x \in s : TRUE

LEMMA PointIn ==
  ASSUME NEW s, s # {}
  PROVE  Point(s) \in s
BY DEF Point

\* That recursion, on the sets of a family.
Sums(g, f, Family) ==
  g = [s \in Family |-> IF s = {} THEN 0 ELSE f[Point(s)] + g[s \ {Point(s)}]]

\* It can be followed down from every finite set.
LEMMA SumsExist ==
  ASSUME NEW f, NEW S, IsFiniteSet(S)
  PROVE  \E g : Sums(g, f, SUBSET S)
<1> DEFINE Small(n) == {s \in SUBSET S : Cardinality(s) <= n}
           T == {n \in Nat : ~\E g : Sums(g, f, Small(n))}
<1>1. \A s \in SUBSET S : IsFiniteSet(s) /\ Cardinality(s) \in Nat
  BY FS_Subset, FS_CardinalityType
<1>2. T = {}
  <2> SUFFICES ASSUME T # {} PROVE FALSE
    OBVIOUS
  <2>1. PICK n \in T : \A m \in T : n <= m
    <3>1. T \in SUBSET Nat
      OBVIOUS
    <3> HIDE DEF T
    <3> QED
      BY <3>1, LeastNumber
  <2>2. CASE n = 0
    <3> DEFINE g == [s \in Small(0) |-> 0]
    <3>1. \A s \in Small(0) : s = {}
      BY <1>1, FS_EmptySet
    <3>2. Sums(g, f, Small(0))
      BY <3>1 DEF Sums
    <3> QED
      BY <2>1, <2>2, <3>2
  <2>3. CASE n # 0
    <3>1. n \in Nat /\ n - 1 \in Nat /\ n - 1 \notin T
      <4>1. n \in Nat /\ n - 1 \in Nat /\ ~(n <= n - 1)
        BY <2>1, <2>3
      <4> HIDE DEF T
      <4> QED
        BY <2>1, <4>1
    <3>2. PICK g : Sums(g, f, Small(n - 1))
      BY <3>1
    <3> DEFINE h == [s \in Small(n) |->
                       IF s = {} THEN 0 ELSE f[Point(s)] + g[s \ {Point(s)}]]
    <3>3. ASSUME NEW s \in Small(n), s # {}
          PROVE  h[s \ {Point(s)}] = g[s \ {Point(s)}]
      <4> DEFINE t == s \ {Point(s)}
      <4>1. Cardinality(t) = Cardinality(s) - 1
        BY <1>1, <3>3, PointIn, FS_RemoveElement
      <4>2. t \in Small(n - 1) /\ t \in Small(n)
        BY <1>1, <3>1, <4>1
      <4>3. g[t] = IF t = {} THEN 0 ELSE f[Point(t)] + g[t \ {Point(t)}]
        <5> HIDE DEF t, Small
        <5> QED
          BY <3>2, <4>2 DEF Sums
      <4> QED
        BY <4>2, <4>3
    <3>4. h = [s \in Small(n) |-> IF s = {} THEN 0 ELSE f[Point(s)] + h[s \ {Point(s)}]]
      <4>1. \A s \in Small(n) :
              h[s] = IF s = {} THEN 0 ELSE f[Point(s)] + h[s \ {Point(s)}]
        BY <3>3
      <4> DEFINE hh == [s \in Small(n) |-> IF s = {} THEN 0 ELSE f[Point(s)] + h[s \ {Point(s)}]]
      <4> QED
        BY <4>1
    <3>5. Sums(h, f, Small(n))
      BY <3>4 DEF Sums
    <3> QED
      BY <2>1, <3>5
  <2> QED
    BY <2>2, <2>3
<1>3. Cardinality(S) \in Nat /\ Small(Cardinality(S)) = SUBSET S
  BY FS_Subset, FS_CardinalityType
<1> QED
  BY <1>2, <1>3

\* SumFunctionOnSet follows it.
LEMMA SumIsSums ==
  ASSUME NEW f, NEW S, IsFiniteSet(S)
  PROVE  \E g : Sums(g, f, SUBSET S) /\ SumFunctionOnSet(f, S) = g[S]
<1> DEFINE iter == CHOOSE g : Sums(g, f, SUBSET S)
<1>1. Sums(iter, f, SUBSET S)
  BY SumsExist
<1>2. SumFunctionOnSet(f, S) = iter[S]
  BY DEF SumFunctionOnSet, FoldFunctionOnSet, MapThenFoldSet, Sums, Point
<1> HIDE DEF iter
<1> QED
  BY <1>1, <1>2

\* A sum is a number, nothing sums up to zero, and any point may be counted first.
LEMMA SumOneFirst ==
  ASSUME NEW S, IsFiniteSet(S), NEW f, \A x \in S : f[x] \in Int
  PROVE  /\ SumFunctionOnSet(f, {}) = 0
         /\ \A T \in SUBSET S :
              /\ SumFunctionOnSet(f, T) \in Int
              /\ \A x \in T : SumFunctionOnSet(f, T) = f[x] + SumFunctionOnSet(f, T \ {x})
<1>1. PICK g : Sums(g, f, SUBSET S)
  BY SumsExist
<1>a. \A s \in SUBSET S : g[s] = IF s = {} THEN 0 ELSE f[Point(s)] + g[s \ {Point(s)}]
  BY <1>1 DEF Sums
<1>2. ASSUME NEW T \in SUBSET S
      PROVE  SumFunctionOnSet(f, T) = g[T]
  <2>1. IsFiniteSet(T)
    BY FS_Subset
  <2>2. PICK t : Sums(t, f, SUBSET T) /\ SumFunctionOnSet(f, T) = t[T]
    BY <2>1, SumIsSums
  <2>3. \A s \in SUBSET T : t[s] = IF s = {} THEN 0 ELSE f[Point(s)] + t[s \ {Point(s)}]
    BY <2>2 DEF Sums
  <2> DEFINE P == {s \in SUBSET T : t[s] # g[s]}
  <2>4. P = {}
    <3> SUFFICES ASSUME P # {} PROVE FALSE
      OBVIOUS
    <3>1. PICK s \in P : \A x \in s : s \ {x} \notin P
      <4>1. P \in SUBSET SUBSET T
        OBVIOUS
      <4> HIDE DEF P
      <4> QED
        BY <2>1, <4>1, SmallestSubset
    <3>2. s # {}
      BY <1>a, <2>3
    <3>3. t[s \ {Point(s)}] = g[s \ {Point(s)}]
      BY <3>1, <3>2, PointIn
    <3> QED
      BY <1>a, <2>3, <3>2, <3>3
  <2> QED
    BY <2>2, <2>4
<1>3. \A s \in SUBSET S : g[s] \in Int
  <2> DEFINE P == {s \in SUBSET S : g[s] \notin Int}
  <2> SUFFICES ASSUME P # {} PROVE FALSE
    OBVIOUS
  <2>1. PICK s \in P : \A x \in s : s \ {x} \notin P
    <3>1. P \in SUBSET SUBSET S
      OBVIOUS
    <3> HIDE DEF P
    <3> QED
      BY <3>1, SmallestSubset
  <2>2. s \in SUBSET S /\ g[s] \notin Int
    BY <2>1
  <2>3. s # {}
    BY <1>a, <2>2
  <2>4. Point(s) \in s /\ g[s \ {Point(s)}] \in Int
    BY <2>1, <2>3, PointIn
  <2>5. g[s] = f[Point(s)] + g[s \ {Point(s)}]
    BY <1>a, <2>2, <2>3
  <2>6. f[Point(s)] \in Int
    BY <2>2, <2>4
  <2> QED
    BY <2>2, <2>4, <2>5, <2>6
<1>4. \A s \in SUBSET S : \A x \in s : g[s] = f[x] + g[s \ {x}]
  <2> DEFINE P == {s \in SUBSET S : \E x \in s : g[s] # f[x] + g[s \ {x}]}
  <2> SUFFICES ASSUME P # {} PROVE FALSE
    OBVIOUS
  <2>1. PICK s \in P : \A x \in s : s \ {x} \notin P
    <3>1. P \in SUBSET SUBSET S
      OBVIOUS
    <3> HIDE DEF P
    <3> QED
      BY <3>1, SmallestSubset
  <2>2. PICK x \in s : g[s] # f[x] + g[s \ {x}]
    OBVIOUS
  <2> DEFINE c == Point(s)
  <2>3. c \in s /\ g[s] = f[c] + g[s \ {c}] /\ c # x
    BY <1>a, <2>2, PointIn
  <2> HIDE DEF c
  <2>4. g[s \ {c}] = f[x] + g[(s \ {c}) \ {x}]
    BY <2>1, <2>3
  <2>5. g[s \ {x}] = f[c] + g[(s \ {x}) \ {c}]
    BY <2>1, <2>3
  <2>6. (s \ {c}) \ {x} = (s \ {x}) \ {c}
    OBVIOUS
  <2>7. /\ f[x] \in Int /\ f[c] \in Int
        /\ (s \ {x}) \ {c} \in SUBSET S
    BY <2>2, <2>3
  <2> DEFINE rest == g[(s \ {x}) \ {c}]
  <2>8. rest \in Int
    BY <1>3, <2>7
  <2>9. g[s] = f[c] + (f[x] + rest) /\ g[s \ {x}] = f[c] + rest
    BY <2>3, <2>4, <2>5, <2>6
  <2> HIDE DEF rest
  <2> QED
    BY <2>2, <2>7, <2>8, <2>9
<1>5. SumFunctionOnSet(f, {}) = 0
  BY <1>2, <1>a
<1>6. \A T \in SUBSET S : \A x \in T : T \ {x} \in SUBSET S
  OBVIOUS
<1> QED
  BY <1>2, <1>3, <1>4, <1>5, <1>6

\* Larger terms sum up to no less.
LEMMA SumMonotone ==
  ASSUME NEW T, IsFiniteSet(T), NEW f, NEW g,
         \A x \in T : f[x] \in Int /\ g[x] \in Int /\ f[x] <= g[x]
  PROVE  SumFunctionOnSet(f, T) <= SumFunctionOnSet(g, T)
<1> DEFINE P == {s \in SUBSET T : ~(SumFunctionOnSet(f, s) <= SumFunctionOnSet(g, s))}
<1> SUFFICES ASSUME P # {} PROVE FALSE
  OBVIOUS
<1>1. PICK s \in P : \A x \in s : s \ {x} \notin P
  <2>1. P \in SUBSET SUBSET T
    OBVIOUS
  <2> HIDE DEF P
  <2> QED
    BY <2>1, SmallestSubset
<1>2. s \in SUBSET T /\ ~(SumFunctionOnSet(f, s) <= SumFunctionOnSet(g, s))
  BY <1>1
<1>3. /\ SumFunctionOnSet(f, {}) = 0
      /\ \A x \in s : /\ SumFunctionOnSet(f, s) = f[x] + SumFunctionOnSet(f, s \ {x})
                     /\ SumFunctionOnSet(f, s \ {x}) \in Int
  <2>1. \A x \in T : f[x] \in Int
    OBVIOUS
  <2>2. \A x \in s : s \ {x} \in SUBSET T
    BY <1>2
  <2> HIDE DEF P
  <2> QED
    BY <1>2, <2>1, <2>2, SumOneFirst
<1>4. /\ SumFunctionOnSet(g, {}) = 0
      /\ \A x \in s : /\ SumFunctionOnSet(g, s) = g[x] + SumFunctionOnSet(g, s \ {x})
                     /\ SumFunctionOnSet(g, s \ {x}) \in Int
  <2>1. \A x \in T : g[x] \in Int
    OBVIOUS
  <2>2. \A x \in s : s \ {x} \in SUBSET T
    BY <1>2
  <2> HIDE DEF P
  <2> QED
    BY <1>2, <2>1, <2>2, SumOneFirst
<1>5. PICK x \in s : TRUE
  <2>1. s # {}
    <3>1. SUFFICES ASSUME s = {} PROVE SumFunctionOnSet(f, s) <= SumFunctionOnSet(g, s)
      BY <1>2
    <3>2. SumFunctionOnSet(f, s) = 0 /\ SumFunctionOnSet(g, s) = 0
      BY <1>3, <1>4, <3>1
    <3> QED
      BY <3>2
  <2> QED
    BY <2>1
<1>6. SumFunctionOnSet(f, s \ {x}) <= SumFunctionOnSet(g, s \ {x})
  BY <1>1, <1>2, <1>5
<1>7. f[x] \in Int /\ g[x] \in Int /\ f[x] <= g[x]
  BY <1>2, <1>5
<1> DEFINE F == SumFunctionOnSet(f, s \ {x})
           G == SumFunctionOnSet(g, s \ {x})
<1>8. F \in Int /\ G \in Int /\ F <= G
  BY <1>3, <1>4, <1>5, <1>6
<1>9. SumFunctionOnSet(f, s) = f[x] + F /\ SumFunctionOnSet(g, s) = g[x] + G
  BY <1>3, <1>4, <1>5
<1> HIDE DEF F, G, P
<1>10. f[x] + F <= g[x] + G
  BY <1>7, <1>8
<1> QED
  BY <1>2, <1>9, <1>10

\* Terms that are not negative only add.
LEMMA SumGrows ==
  ASSUME NEW T, IsFiniteSet(T), NEW f, \A x \in T : f[x] \in Nat, NEW S \in SUBSET T
  PROVE  SumFunctionOnSet(f, S) <= SumFunctionOnSet(f, T)
<1> DEFINE P == {s \in SUBSET T :
                   S \subseteq s /\ ~(SumFunctionOnSet(f, S) <= SumFunctionOnSet(f, s))}
<1>1. \A s \in SUBSET T :
        /\ SumFunctionOnSet(f, s) \in Int
        /\ \A x \in s : SumFunctionOnSet(f, s) = f[x] + SumFunctionOnSet(f, s \ {x})
  <2>1. \A x \in T : f[x] \in Int
    OBVIOUS
  <2>2. ASSUME NEW s \in SUBSET T, NEW x \in s
        PROVE  SumFunctionOnSet(f, s) = f[x] + SumFunctionOnSet(f, s \ {x})
    BY <2>1, SumOneFirst
  <2>3. ASSUME NEW s \in SUBSET T PROVE SumFunctionOnSet(f, s) \in Int
    BY <2>1, SumOneFirst
  <2> QED
    BY <2>2, <2>3
<1> SUFFICES ASSUME P # {} PROVE FALSE
  OBVIOUS
<1>2. PICK s \in P : \A x \in s : s \ {x} \notin P
  <2>1. P \in SUBSET SUBSET T
    OBVIOUS
  <2> HIDE DEF P
  <2> QED
    BY <2>1, SmallestSubset
<1>3. s \in SUBSET T /\ S \subseteq s /\ ~(SumFunctionOnSet(f, S) <= SumFunctionOnSet(f, s))
  BY <1>2
<1>4. PICK x \in s : x \notin S
  <2>1. S # s
    BY <1>1, <1>3
  <2> QED
    BY <1>3, <2>1
<1>5. SumFunctionOnSet(f, S) <= SumFunctionOnSet(f, s \ {x})
  BY <1>2, <1>3, <1>4
<1>6. SumFunctionOnSet(f, s) = f[x] + SumFunctionOnSet(f, s \ {x}) /\ f[x] \in Nat
      /\ SumFunctionOnSet(f, s \ {x}) \in Int /\ SumFunctionOnSet(f, S) \in Int
  BY <1>1, <1>3
<1> HIDE DEF P
<1> QED
  BY <1>3, <1>5, <1>6

\* More sales never make worse figures.
LEMMA MoreSalesPerform ==
  ASSUME NEW more, IsFiniteSet(more), NEW sales \in SUBSET more,
         \A s \in more : s.amount - s.refunded \in Nat,
         NEW tier, NEW at, NEW self
  PROVE  /\ Performance(tier, sales, at, self) \in Int /\ Performance(tier, more, at, self) \in Int
         /\ Performance(tier, sales, at, self) <= Performance(tier, more, at, self)
<1> DEFINE few == Counted(sales, at, tier.days, self)
           many == Counted(more, at, tier.days, self)
           left(S) == [s \in S |-> s.amount - s.refunded]
<1>1. few \in SUBSET many /\ many \in SUBSET more /\ IsFiniteSet(many) /\ IsFiniteSet(few)
  <2>1. few \in SUBSET many /\ many \in SUBSET more
    BY DEF Counted
  <2> HIDE DEF few, many
  <2> QED
    BY <2>1, FS_Subset
<1>2. /\ \A s \in few : left(few)[s] \in Nat /\ left(few)[s] = left(many)[s]
      /\ \A s \in many : left(many)[s] \in Nat
  BY <1>1
<1>3. Cardinality(few) \in Int /\ Cardinality(many) \in Int /\ Cardinality(few) <= Cardinality(many)
  <2> HIDE DEF few, many
  <2> QED
    BY <1>1, FS_Subset, FS_CardinalityType
<1>4. /\ SumFunctionOnSet(left(few), few) \in Int /\ SumFunctionOnSet(left(many), many) \in Int
      /\ SumFunctionOnSet(left(few), few) <= SumFunctionOnSet(left(many), many)
  <2> DEFINE f == left(few)
             g == left(many)
  <2>1. (\A s \in few : f[s] \in Int /\ g[s] \in Int /\ f[s] <= g[s]) /\ \A s \in many : g[s] \in Int
    BY <1>1, <1>2
  <2>2. \A s \in many : g[s] \in Nat
    BY <1>2
  <2> HIDE DEF f, g, few, many
  <2>3. SumFunctionOnSet(f, few) \in Int /\ SumFunctionOnSet(g, many) \in Int
        /\ SumFunctionOnSet(g, few) \in Int
    BY <1>1, <2>1, SumOneFirst
  <2>4. SumFunctionOnSet(f, few) <= SumFunctionOnSet(g, few)
    BY <1>1, <2>1, SumMonotone
  <2>5. SumFunctionOnSet(g, few) <= SumFunctionOnSet(g, many)
    BY <1>1, <2>2, SumGrows
  <2>6. SumFunctionOnSet(f, few) <= SumFunctionOnSet(g, many)
    BY <2>3, <2>4, <2>5
  <2> QED
    BY <2>3, <2>6 DEF f, g
<1>5. /\ Performance(tier, sales, at, self) =
           IF tier.metric = "revenue" THEN SumFunctionOnSet(left(few), few) ELSE Cardinality(few)
      /\ Performance(tier, more, at, self) =
           IF tier.metric = "revenue" THEN SumFunctionOnSet(left(many), many) ELSE Cardinality(many)
  BY DEF Performance
<1> HIDE DEF left, few, many
<1> QED
  BY <1>3, <1>4, <1>5

\* One more sale never costs an affiliate its tier: the terms it gets by more sales are those of a
\* threshold that is no lower, or of its group (performanceBefore, resolveTier in tiers.ts).
THEOREM MoreSalesNeverLower ==
  ASSUME NEW more, IsFiniteSet(more), NEW sales \in SUBSET more,
         \A s \in more : s.amount - s.refunded \in Nat,
         NEW tiers, NEW groups, NEW at, NEW self,
         \A t \in tiers : t.threshold \in Nat /\ t.priority \in Nat,
         NEW t \in ResolveTier(tiers, groups, [p \in tiers |-> Performance(p, sales, at, self)]),
         NEW u \in ResolveTier(tiers, groups, [p \in tiers |-> Performance(p, more, at, self)])
  PROVE  \/ t.kind = "group" /\ u.kind = "group"
         \/ t.kind = "performance" /\ u.kind = "performance" /\ t.threshold <= u.threshold
<1> DEFINE figure == [p \in tiers |-> Performance(p, sales, at, self)]
           better == [p \in tiers |-> Performance(p, more, at, self)]
<1>1. \A p \in tiers : /\ Performance(p, sales, at, self) \in Int
                       /\ Performance(p, more, at, self) \in Int
                       /\ Performance(p, sales, at, self) <= Performance(p, more, at, self)
  BY MoreSalesPerform
<1>2. \A p \in tiers : p.threshold \in Nat /\ p.priority \in Nat
                       /\ figure[p] \in Int /\ better[p] \in Int /\ figure[p] <= better[p]
  BY <1>1
<1>3. t \in ResolveTier(tiers, groups, figure) /\ u \in ResolveTier(tiers, groups, better)
  OBVIOUS
<1> HIDE DEF figure, better
<1> QED
  BY <1>2, <1>3, BetterNeverLowers

----------------------------------------------------------------------------
(* Type correctness.                                                       *)

\* A new ledger row keeps the type of the table.
LEMMA WriteEntryType ==
  ASSUME TypeOK, NEW a \in Affiliates \cup {Null}, NEW k \in CommissionIds \cup {NoCommission},
         NEW amount \in Int, NEW type \in {"adjustment", "clawback"},
         WriteEntry(type, a, k, amount)
  PROVE  entries' \in [EntryIds -> EntryRow]
BY DEF WriteEntry, TypeOK, EntryRow, NoPayout

\* Reversing a commission row keeps the types of the commissions and of the ledger.
LEMMA ReverseRowType ==
  ASSUME TypeOK, NEW k \in CommissionIds, NEW to \in CommissionStatus,
         ReverseCommissionRow(k, to)
  PROVE  /\ commissions' \in [CommissionIds -> CommissionRow]
         /\ credited' \in [CommissionIds -> Int]
         /\ entries' \in [EntryIds -> EntryRow]
<1>1. CASE UNCHANGED <<commissions, credited, entries>>
  BY <1>1 DEF TypeOK
<1>2. CASE Clawback(k, commissions[k].amount)
  <2>1. commissions[k].affiliate \in Affiliates \cup {Null} /\ -commissions[k].amount \in Int
    BY DEF TypeOK, CommissionRow
  <2>2. entries' \in [EntryIds -> EntryRow]
    BY <1>2, <2>1, WriteEntryType DEF Clawback
  <2> QED
    BY <1>2, <2>2 DEF Clawback, TypeOK
<1>3. CASE CloseRow(k, to)
  <2>1. /\ commissions[k] \in CommissionRow
        /\ [commissions[k] EXCEPT !.status = to, !.amount = 0] \in CommissionRow
    BY DEF TypeOK, CommissionRow
  <2>2. commissions' \in [CommissionIds -> CommissionRow]
    BY <1>3, <2>1 DEF CloseRow, TypeOK
  <2>3. commissions[k].amount \in Int /\ credited[k] \in Int
    BY DEF TypeOK, CommissionRow
  <2>4. credited' \in [CommissionIds -> Int]
    BY <1>3, <2>3 DEF CloseRow, TypeOK
  <2> QED
    BY <1>3, <2>2, <2>4 DEF CloseRow, TypeOK
<1> QED
  BY <1>1, <1>2, <1>3 DEF ReverseCommissionRow

\* So does reducing it.
LEMMA ReduceRowType ==
  ASSUME TypeOK, NEW k \in CommissionIds, NEW n \in Nat, ReduceCommissionRow(k, n)
  PROVE  /\ commissions' \in [CommissionIds -> CommissionRow]
         /\ credited' \in [CommissionIds -> Int]
         /\ entries' \in [EntryIds -> EntryRow]
<1>1. commissions[k] \in CommissionRow /\ credited[k] \in Int
  BY DEF TypeOK
<1>2. /\ commissions[k].amount \in Nat
      /\ commissions[k].affiliate \in Affiliates \cup {Null}
  BY <1>1 DEF CommissionRow
<1>3. CASE UNCHANGED <<commissions, credited, entries>>
  BY <1>3 DEF TypeOK
<1>4. CASE ReverseCommissionRow(k, "reversed")
  BY <1>4, ReverseRowType DEF CommissionStatus
<1>5. CASE Clawback(k, commissions[k].amount - n)
  <2>1. -(commissions[k].amount - n) \in Int
    BY <1>2
  <2>2. entries' \in [EntryIds -> EntryRow]
    BY <1>2, <1>5, <2>1, WriteEntryType DEF Clawback
  <2> QED
    BY <1>5, <2>2 DEF Clawback, TypeOK
<1>6. CASE ShrinkRow(k, n)
  <2>1. [commissions[k] EXCEPT !.amount = n] \in CommissionRow
    BY <1>1 DEF CommissionRow
  <2>2. commissions' = [commissions EXCEPT ![k] = [commissions[k] EXCEPT !.amount = n]]
    BY <1>6 DEF ShrinkRow
  <2>3. credited' = [credited EXCEPT ![k] = credited[k] + n - commissions[k].amount]
    BY <1>6 DEF ShrinkRow
  <2> QED
    BY <1>1, <1>2, <1>6, <2>1, <2>2, <2>3 DEF ShrinkRow, TypeOK
<1> QED
  BY <1>3, <1>4, <1>5, <1>6 DEF ReduceCommissionRow

\* Approving the pending sales of some orders keeps the type of the conversions.
LEMMA SoldType ==
  ASSUME TypeOK, NEW orders
  PROVE  /\ Sold(orders) \in [Orders -> ConversionRow]
         /\ \A o \in Orders : Sold(orders)[o].refunded <= Sold(orders)[o].amount
<1> SUFFICES ASSUME NEW o \in Orders
             PROVE  /\ Sold(orders)[o] \in ConversionRow
                    /\ Sold(orders)[o].refunded <= Sold(orders)[o].amount
  BY DEF Sold
<1>1. conversions[o] \in ConversionRow /\ conversions[o].refunded <= conversions[o].amount
  BY DEF TypeOK
<1> DEFINE c == conversions[o]
<1>2. /\ [c EXCEPT !.status = "approved"] \in ConversionRow
      /\ [c EXCEPT !.status = "approved"].refunded <= [c EXCEPT !.status = "approved"].amount
  BY <1>1 DEF ConversionRow, ConversionStatus
<1> QED
  BY <1>1, <1>2 DEF Sold

\* A conversion row rewritten with a status and a dispute of its type keeps the table's type.
LEMMA ConversionRewriteType ==
  ASSUME TypeOK, NEW o \in Orders, NEW s \in ConversionStatus \cup {"absent"},
         NEW d \in {"none", "approved", "other"},
         conversions' = [conversions EXCEPT ![o] = [@ EXCEPT !.status = s, !.dispute = d]]
  PROVE  /\ conversions' \in [Orders -> ConversionRow]
         /\ \A x \in Orders : conversions'[x].refunded <= conversions'[x].amount
<1>1. /\ conversions[o] \in ConversionRow
      /\ conversions[o].refunded <= conversions[o].amount
  BY DEF TypeOK
<1> DEFINE row == [conversions[o] EXCEPT !.status = s, !.dispute = d]
<1>2. /\ row \in ConversionRow
      /\ row.refunded <= row.amount
  BY <1>1 DEF ConversionRow
<1>3. conversions' = [conversions EXCEPT ![o] = row]
  OBVIOUS
<1> HIDE DEF row
<1> QED
  BY <1>2, <1>3 DEF TypeOK

\* So does a status alone.
LEMMA ConversionStatusType ==
  ASSUME TypeOK, NEW o \in Orders, NEW s \in ConversionStatus,
         conversions' = [conversions EXCEPT ![o].status = s]
  PROVE  /\ conversions' \in [Orders -> ConversionRow]
         /\ \A x \in Orders : conversions'[x].refunded <= conversions'[x].amount
<1>1. /\ conversions[o] \in ConversionRow
      /\ conversions[o].refunded <= conversions[o].amount
  BY DEF TypeOK
<1> DEFINE row == [conversions[o] EXCEPT !.status = s]
<1>2. /\ row \in ConversionRow
      /\ row.refunded <= row.amount
  BY <1>1 DEF ConversionRow
<1>3. conversions' = [conversions EXCEPT ![o] = row]
  OBVIOUS
<1> HIDE DEF row
<1> QED
  BY <1>2, <1>3 DEF TypeOK

\* Recording a sale keeps the types.
LEMMA RecordType ==
  ASSUME ConstantsOK, TypeOK, NEW o \in Orders, NEW a \in Affiliates, NEW amount \in SaleAmounts,
         NEW earned \in Earnings, NEW test \in TestModes,
         RecordConversion(o, a, amount, earned, test)
  PROVE  TypeOK'
<1>1. amount \in Nat /\ earned \in Nat /\ test \in BOOLEAN
  BY DEF ConstantsOK
<1> DEFINE row == [status |-> "pending", amount |-> amount, refunded |-> 0, dispute |-> "none"]
<1>2. row \in ConversionRow /\ row.refunded <= row.amount
  BY <1>1 DEF ConversionRow, ConversionStatus
<1>3. conversions' = [conversions EXCEPT ![o] = row]
  BY DEF RecordConversion
<1>4. /\ conversions' \in [Orders -> ConversionRow]
      /\ \A x \in Orders : conversions'[x].refunded <= conversions'[x].amount
  <2> HIDE DEF row
  <2>1. conversions \in [Orders -> ConversionRow]
    BY DEF TypeOK
  <2>2. ASSUME NEW x \in Orders
        PROVE  conversions'[x].refunded <= conversions'[x].amount
    <3>1. conversions[x].refunded <= conversions[x].amount
      BY DEF TypeOK
    <3>2. CASE x = o
      BY <1>2, <1>3, <2>1, <3>2
    <3>3. CASE x # o
      BY <1>3, <2>1, <3>1, <3>3
    <3> QED
      BY <3>2, <3>3
  <2> QED
    BY <1>2, <1>3, <2>1, <2>2
<1>5. NewCommission(o, a, earned, test) \in CommissionRow
  BY <1>1 DEF NewCommission, CommissionRow, CommissionStatus, NoPayout
<1>6. PICK k \in CommissionIds :
        /\ commissions' = [commissions EXCEPT ![k] = NewCommission(o, a, earned, test)]
        /\ credited' = [credited EXCEPT ![k] = earned]
  BY DEF RecordConversion
<1>7. /\ commissions' \in [CommissionIds -> CommissionRow]
      /\ credited' \in [CommissionIds -> Int]
  BY <1>1, <1>5, <1>6 DEF TypeOK
<1> QED
  BY <1>4, <1>7 DEF TypeOK, RecordConversion

\* What a refund may do to the commission of the sale, whatever the policy.
LEMMA RefundCases ==
  ASSUME TypeOK, NEW o \in Orders, NEW refund \in Refundable(o), NEW policy \in Policies,
         RefundConversion(o, refund, policy)
  PROVE  \/ \E k \in CommissionIds : ReverseCommissionRow(k, "reversed")
         \/ \E k \in CommissionIds, n \in Nat : ReduceCommissionRow(k, n)
         \/ UNCHANGED <<commissions, credited, entries>>
<1> DEFINE total == conversions[o].refunded + refund
<1>1. /\ conversions[o].amount \in Nat
      /\ conversions[o].refunded \in Nat
  BY DEF TypeOK, ConversionRow
<1>2. total \in Nat
  BY <1>1 DEF Refundable
<1>3. PICK k \in CommissionIds :
        \/ ReverseCommissionRow(k, "reversed")
        \/ /\ total < conversions[o].amount
           /\ ReduceCommissionRow(k, Proportion(commissions[k].original,
                                               conversions[o].amount - total,
                                               conversions[o].amount))
        \/ UNCHANGED <<commissions, credited, entries>>
  BY DEF RefundConversion
<1>4. CASE /\ total < conversions[o].amount
           /\ ReduceCommissionRow(k, Proportion(commissions[k].original,
                                               conversions[o].amount - total,
                                               conversions[o].amount))
  <2>1. /\ commissions[k].original \in Nat
        /\ conversions[o].amount - total \in Nat
        /\ conversions[o].amount \in Nat \ {0}
    BY <1>1, <1>2, <1>4 DEF TypeOK, CommissionRow
  <2> QED
    BY <1>4, <2>1, ProportionNat
<1> QED
  BY <1>3, <1>4

\* A refund keeps the types, and never gives back more than the sale.
LEMMA RefundType ==
  ASSUME TypeOK, NEW o \in Orders, NEW refund \in Refundable(o), NEW policy \in Policies,
         RefundConversion(o, refund, policy)
  PROVE  TypeOK'
<1> DEFINE total == conversions[o].refunded + refund
           row == [conversions[o] EXCEPT !.status = "refunded", !.refunded = total]
<1>1. /\ conversions \in [Orders -> ConversionRow]
      /\ conversions[o] \in ConversionRow
      /\ conversions[o].amount \in Nat
      /\ conversions[o].refunded \in Nat
      /\ conversions[o].refunded <= conversions[o].amount
  BY DEF TypeOK, ConversionRow
<1>2. refund \in Nat /\ refund <= conversions[o].amount - conversions[o].refunded
  BY <1>1 DEF Refundable
<1>3. total \in Nat /\ total <= conversions[o].amount
  BY <1>1, <1>2
<1>4. row \in ConversionRow /\ row.refunded <= row.amount
  <2> HIDE DEF total
  <2> QED
    BY <1>1, <1>3 DEF ConversionRow, ConversionStatus
<1>5. conversions' = [conversions EXCEPT ![o] = row]
  BY DEF RefundConversion
<1>6. /\ conversions' \in [Orders -> ConversionRow]
      /\ \A x \in Orders : conversions'[x].refunded <= conversions'[x].amount
  <2> HIDE DEF row
  <2>1. ASSUME NEW x \in Orders
        PROVE  conversions'[x].refunded <= conversions'[x].amount
    <3>1. conversions[x].refunded <= conversions[x].amount
      BY DEF TypeOK
    <3> QED
      BY <1>1, <1>4, <1>5, <3>1
  <2> QED
    BY <1>1, <1>4, <1>5, <2>1
<1>7. /\ commissions' \in [CommissionIds -> CommissionRow]
      /\ credited' \in [CommissionIds -> Int]
      /\ entries' \in [EntryIds -> EntryRow]
  <2>1. CASE UNCHANGED <<commissions, credited, entries>>
    BY <2>1 DEF TypeOK
  <2> QED
    BY <2>1, RefundCases, ReverseRowType, ReduceRowType DEF CommissionStatus
<1> QED
  BY <1>6, <1>7 DEF TypeOK, RefundConversion

\* A cancellation keeps the types.
LEMMA CancelType ==
  ASSUME TypeOK, NEW o \in Orders, NEW d \in {"none", "approved", "other"}, CancelInto(o, d)
  PROVE  TypeOK'
<1>1. /\ conversions' \in [Orders -> ConversionRow]
      /\ \A x \in Orders : conversions'[x].refunded <= conversions'[x].amount
  BY ConversionRewriteType DEF CancelInto, ConversionStatus
<1>2. PICK k \in CommissionIds : ReverseCommissionRow(k, "void")
  BY DEF CancelInto
<1>3. /\ commissions' \in [CommissionIds -> CommissionRow]
      /\ credited' \in [CommissionIds -> Int]
      /\ entries' \in [EntryIds -> EntryRow]
  BY <1>2, ReverseRowType DEF CommissionStatus
<1> QED
  BY <1>1, <1>3 DEF TypeOK, CancelInto

\* A reattribution keeps the types.
LEMMA ReattributeType ==
  ASSUME ConstantsOK, TypeOK, NEW o \in Orders, NEW a \in Affiliates \cup {Null},
         NEW earned \in Earnings, NEW test \in TestModes,
         NEW s \in ConversionStatus \cup {"absent"}, NEW d \in {"none", "approved", "other"},
         ReattributeInto(o, a, earned, test, s, d)
  PROVE  TypeOK'
<1>1. /\ conversions' \in [Orders -> ConversionRow]
      /\ \A x \in Orders : conversions'[x].refunded <= conversions'[x].amount
  BY ConversionRewriteType DEF ReattributeInto
<1>2. earned \in Nat /\ test \in BOOLEAN
  BY DEF ConstantsOK
<1>3. NewCommission(o, a, earned, test) \in CommissionRow
  BY <1>2 DEF NewCommission, CommissionRow, CommissionStatus, NoPayout
<1>4. \A k \in CommissionIds : commissions[k] \in CommissionRow /\ credited[k] \in Int
  BY DEF TypeOK
<1>5. \A k \in CommissionIds :
        [commissions[k] EXCEPT !.status = "void", !.amount = 0] \in CommissionRow
  BY <1>4 DEF CommissionRow, CommissionStatus
<1>6. \A k \in CommissionIds : Voided(k) \in CommissionRow
  BY <1>4, <1>5 DEF Voided
<1>7. \A k \in CommissionIds : credited[k] + Voided(k).amount - commissions[k].amount \in Int
  BY <1>4, <1>6 DEF CommissionRow
<1>8. PICK k \in CommissionIds :
        IF a = Null
        THEN /\ commissions' = [commissions EXCEPT ![k] = Voided(k)]
             /\ credited' = [credited EXCEPT ![k] = @ + Voided(k).amount - commissions[k].amount]
        ELSE \E n \in CommissionIds :
               /\ FreshCommission(n)
               /\ commissions' = [commissions EXCEPT ![k] = Voided(k),
                                                    ![n] = NewCommission(o, a, earned, test)]
               /\ credited' = [credited EXCEPT ![k] = @ + Voided(k).amount - commissions[k].amount,
                                              ![n] = earned]
  BY Zenon DEF ReattributeInto
<1>9. CASE a = Null
  <2> QED
    BY <1>1, <1>6, <1>7, <1>8, <1>9 DEF TypeOK, ReattributeInto
<1>10. CASE a # Null
  <2> DEFINE old == Voided(k)
             new == NewCommission(o, a, earned, test)
             sum == credited[k] + Voided(k).amount - commissions[k].amount
  <2>1. PICK n \in CommissionIds :
          /\ commissions' = [commissions EXCEPT ![k] = old, ![n] = new]
          /\ credited' = [credited EXCEPT ![k] = sum, ![n] = earned]
    BY <1>8, <1>10
  <2>2. old \in CommissionRow /\ new \in CommissionRow /\ sum \in Int
    BY <1>3, <1>6, <1>7
  <2> HIDE DEF old, new, sum
  <2>3. /\ commissions' \in [CommissionIds -> CommissionRow]
        /\ credited' \in [CommissionIds -> Int]
    BY <1>2, <2>1, <2>2 DEF TypeOK
  <2> QED
    BY <1>1, <2>3 DEF TypeOK, ReattributeInto
<1> QED
  BY <1>9, <1>10

\* Every call on a sale keeps the types.
LEMMA SaleType ==
  ASSUME ConstantsOK, TypeOK, NEW o \in Orders, SaleStep(o)
  PROVE  TypeOK'
<1>1. conversions[o] \in ConversionRow
  BY DEF TypeOK
<1>2. ASSUME NEW to \in {"approved", "disputed"}, SetConversion(o, to),
             UNCHANGED <<commissions, credited, entries, payouts>>
      PROVE  TypeOK'
  <2>1. /\ conversions' \in [Orders -> ConversionRow]
        /\ \A x \in Orders : conversions'[x].refunded <= conversions'[x].amount
    BY <1>2, ConversionStatusType DEF SetConversion, ConversionStatus
  <2> QED
    BY <1>2, <2>1 DEF TypeOK
<1>3. CASE \E a \in Affiliates, amount \in SaleAmounts, earned \in Earnings, test \in TestModes :
             RecordConversion(o, a, amount, earned, test)
  BY <1>3, RecordType
<1>4. CASE \E refund \in Refundable(o), policy \in Policies : RefundConversion(o, refund, policy)
  BY <1>4, RefundType
<1>5. CASE CancelConversion(o)
  BY <1>1, <1>5, CancelType DEF CancelConversion, ConversionRow
<1>6. CASE ApproveConversion(o)
  BY <1>2, <1>6 DEF ApproveConversion
<1>7. CASE DisputeConversion(o)
  BY <1>2, <1>7 DEF DisputeConversion
<1>8. CASE \E a \in Affiliates \cup {Null}, earned \in Earnings, test \in TestModes :
             ReattributeConversion(o, a, earned, test)
  <2>1. PICK a \in Affiliates \cup {Null}, earned \in Earnings, test \in TestModes :
          ReattributeInto(o, a, earned, test, conversions[o].status, conversions[o].dispute)
    BY <1>8 DEF ReattributeConversion
  <2>2. /\ conversions[o].status \in ConversionStatus
        /\ conversions[o].dispute \in {"none", "approved", "other"}
    BY <1>1, <2>1 DEF ReattributeInto, ConversionRow
  <2> QED
    BY <2>1, <2>2, ReattributeType
<1> QED
  BY <1>3, <1>4, <1>5, <1>6, <1>7, <1>8 DEF SaleStep

\* Every call on a dispute keeps the types.
LEMMA DisputeType ==
  ASSUME ConstantsOK, TypeOK, NEW o \in Orders, DisputeStep(o)
  PROVE  TypeOK'
<1>1. conversions[o] \in ConversionRow
  BY DEF TypeOK
<1>2. CASE OpenDispute(o)
  <2> DEFINE s == IF conversions[o].status \in {"pending", "approved"} THEN "disputed"
                  ELSE conversions[o].status
             d == IF conversions[o].status = "approved" THEN "approved" ELSE "other"
  <2>1. s \in ConversionStatus /\ d \in {"none", "approved", "other"}
    BY <1>1, <1>2 DEF OpenDispute, ConversionRow, ConversionStatus
  <2>2. conversions' = [conversions EXCEPT ![o] = [@ EXCEPT !.status = s, !.dispute = d]]
    BY <1>2 DEF OpenDispute
  <2> HIDE DEF s, d
  <2>3. /\ conversions' \in [Orders -> ConversionRow]
        /\ \A x \in Orders : conversions'[x].refunded <= conversions'[x].amount
    BY <2>1, <2>2, ConversionRewriteType
  <2> QED
    BY <1>2, <2>3 DEF OpenDispute, TypeOK
<1>3. Released(o) \in ConversionStatus \cup {"absent"}
  BY <1>1 DEF Released, ConversionRow, ConversionStatus
<1>4. CASE RestoreSale(o)
  <2>1. conversions' = [conversions EXCEPT ![o] =
                          [@ EXCEPT !.status = Released(o), !.dispute = "none"]]
    BY <1>4 DEF RestoreSale
  <2>2. /\ conversions' \in [Orders -> ConversionRow]
        /\ \A x \in Orders : conversions'[x].refunded <= conversions'[x].amount
    BY <1>3, <2>1, ConversionRewriteType
  <2> QED
    BY <1>4, <2>2 DEF RestoreSale, TypeOK
<1>5. CASE ResolveByCancelling(o)
  BY <1>5, CancelType DEF ResolveByCancelling
<1>6. CASE \E a \in Affiliates, earned \in Earnings, test \in TestModes :
             ResolveByReattributing(o, a, earned, test)
  <2>1. PICK a \in Affiliates, earned \in Earnings, test \in TestModes :
          ReattributeInto(o, a, earned, test, Released(o), "none")
    BY <1>6 DEF ResolveByReattributing
  <2> QED
    BY <1>3, <2>1, ReattributeType
<1> QED
  BY <1>2, <1>4, <1>5, <1>6 DEF DisputeStep

\* Every call on a commission keeps the types.
LEMMA CommissionType ==
  ASSUME TypeOK, NEW k \in CommissionIds, CommissionStep(k)
  PROVE  TypeOK'
<1>1. commissions[k] \in CommissionRow
  BY DEF TypeOK
<1>2. ASSUME NEW s \in CommissionStatus, commissions' = [commissions EXCEPT ![k].status = s]
      PROVE  commissions' \in [CommissionIds -> CommissionRow]
  <2>1. [commissions[k] EXCEPT !.status = s] \in CommissionRow
    BY <1>1 DEF CommissionRow
  <2> QED
    BY <1>2, <2>1 DEF TypeOK
<1>3. CASE ApproveCommission(k)
  BY <1>2, <1>3 DEF ApproveCommission, CommissionStatus, TypeOK
<1>4. CASE ReleaseCommission(k)
  BY <1>2, <1>4, SoldType DEF ReleaseCommission, CommissionStatus, TypeOK
<1>5. CASE ReverseCommission(k)
  BY <1>5, ReverseRowType DEF ReverseCommission, CommissionStatus, TypeOK
<1> QED
  BY <1>3, <1>4, <1>5 DEF CommissionStep

\* The settlement job keeps the types.
LEMMA SettleType ==
  ASSUME TypeOK, NEW due \in SUBSET CommissionIds, SettleHoldingPeriods(due)
  PROVE  TypeOK'
<1>1. \A k \in CommissionIds :
        /\ commissions[k] \in CommissionRow
        /\ [commissions[k] EXCEPT !.status = "payable"] \in CommissionRow
  BY DEF TypeOK, CommissionRow, CommissionStatus
<1>2. commissions' \in [CommissionIds -> CommissionRow]
  BY <1>1 DEF SettleHoldingPeriods
<1> QED
  BY <1>2, SoldType DEF SettleHoldingPeriods, TypeOK

\* Drawing a batch keeps the types.
LEMMA BatchType ==
  ASSUME TypeOK, NEW p \in PayoutIds, NEW a \in Affiliates, NEW ignoreThreshold \in BOOLEAN,
         NEW s \in PayoutStatus, NEW r \in CommissionStatus, Batch(p, a, ignoreThreshold, s, r)
  PROVE  TypeOK'
<1> DEFINE total == TotalOf(PayableRows(a), OpenEntries(a))
           row == [status |-> s, affiliate |-> a, amount |-> total,
                   commissions |-> PayableRows(a), entries |-> OpenEntries(a)]
<1>1. \A k \in CommissionIds : commissions[k] \in CommissionRow
  BY DEF TypeOK
<1>2. \A k \in CommissionIds : [commissions[k] EXCEPT !.payout = p, !.status = r] \in CommissionRow
  BY <1>1 DEF CommissionRow
<1>3. \A e \in EntryIds :
        entries[e] \in EntryRow /\ [entries[e] EXCEPT !.payout = p] \in EntryRow
  BY DEF TypeOK, EntryRow
<1>4. commissions' = [k \in CommissionIds |->
                        IF k \in PayableRows(a)
                        THEN [commissions[k] EXCEPT !.payout = p, !.status = r]
                        ELSE commissions[k]]
  BY DEF Batch
<1>5. commissions' \in [CommissionIds -> CommissionRow]
  BY <1>1, <1>2, <1>4
<1>6. entries' \in [EntryIds -> EntryRow]
  BY <1>3 DEF Batch
<1>7. total \in Nat \ {0} /\ payouts' = [payouts EXCEPT ![p] = row]
  BY DEF Batch
<1>8. row \in PayoutRow
  BY <1>7 DEF PayoutRow, PayableRows, OpenEntries
<1>9. payouts' \in [PayoutIds -> PayoutRow]
  <2> HIDE DEF row
  <2> QED
    BY <1>7, <1>8 DEF TypeOK
<1> QED
  BY <1>5, <1>6, <1>9 DEF Batch, TypeOK

\* Every call on a batch keeps the types.
LEMMA PayoutType ==
  ASSUME TypeOK, NEW p \in PayoutIds, PayoutStep(p)
  PROVE  TypeOK'
<1>1. ASSUME NEW to \in PayoutStatus, SetPayout(p, to)
      PROVE  payouts' \in [PayoutIds -> PayoutRow]
  <2>1. payouts[p] \in PayoutRow /\ [payouts[p] EXCEPT !.status = to] \in PayoutRow
    BY DEF TypeOK, PayoutRow
  <2> QED
    BY <1>1, <2>1 DEF SetPayout, TypeOK
<1>2. \A k \in CommissionIds :
        /\ commissions[k] \in CommissionRow
        /\ [commissions[k] EXCEPT !.status = "paid"] \in CommissionRow
        /\ [commissions[k] EXCEPT !.payout = NoPayout] \in CommissionRow
  BY DEF TypeOK, CommissionRow, CommissionStatus
<1>3. \A e \in EntryIds :
        entries[e] \in EntryRow /\ [entries[e] EXCEPT !.payout = NoPayout] \in EntryRow
  BY DEF TypeOK, EntryRow
<1>4. CASE \E a \in Affiliates, ignoreThreshold \in BOOLEAN :
             CreatePayoutBatch(p, a, ignoreThreshold)
  BY <1>4, BatchType DEF CreatePayoutBatch, PayoutStatus, CommissionStatus
<1>5. CASE \E a \in Affiliates : RecordExternalPayout(p, a)
  BY <1>5, BatchType DEF RecordExternalPayout, PayoutStatus, CommissionStatus
<1>6. CASE MarkPayoutProcessing(p)
  BY <1>1, <1>6 DEF MarkPayoutProcessing, SetPayout, PayoutStatus, TypeOK
<1>7. CASE MarkPayoutPaid(p)
  <2>1. commissions' \in [CommissionIds -> CommissionRow]
    BY <1>2, <1>7 DEF MarkPayoutPaid
  <2> QED
    BY <1>1, <1>7, <2>1 DEF MarkPayoutPaid, SetPayout, PayoutStatus, TypeOK
<1>8. CASE MarkPayoutFailed(p)
  BY <1>1, <1>8 DEF MarkPayoutFailed, SetPayout, PayoutStatus, TypeOK
<1>9. CASE CancelPayout(p)
  <2>1. commissions' \in [CommissionIds -> CommissionRow]
    BY <1>2, <1>9 DEF CancelPayout
  <2>2. entries' \in [EntryIds -> EntryRow]
    BY <1>3, <1>9 DEF CancelPayout
  <2> QED
    BY <1>1, <1>9, <2>1, <2>2 DEF CancelPayout, SetPayout, PayoutStatus, TypeOK
<1> QED
  BY <1>4, <1>5, <1>6, <1>7, <1>8, <1>9 DEF PayoutStep

\* Every step keeps the types.
LEMMA TypeStep ==
  ASSUME TypeOK, [Next]_vars
  PROVE  TypeOK'
<1>1. CASE \E o \in Orders : SaleStep(o)
  BY <1>1, ConstantsOK, SaleType
<1>2. CASE \E o \in Orders : DisputeStep(o)
  BY <1>2, ConstantsOK, DisputeType
<1>3. CASE \E k \in CommissionIds : CommissionStep(k)
  BY <1>3, CommissionType
<1>4. CASE \E due \in SUBSET CommissionIds : SettleHoldingPeriods(due)
  BY <1>4, SettleType
<1>5. CASE \E a \in Affiliates, amount \in Adjustments : AdjustAffiliateBalance(a, amount)
  <2>1. PICK a \in Affiliates, amount \in Int : AdjustAffiliateBalance(a, amount)
    BY <1>5, ConstantsOK DEF ConstantsOK
  <2>2. entries' \in [EntryIds -> EntryRow]
    BY <2>1, WriteEntryType DEF AdjustAffiliateBalance
  <2> QED
    BY <2>1, <2>2 DEF AdjustAffiliateBalance, TypeOK
<1>6. CASE \E p \in PayoutIds : PayoutStep(p)
  BY <1>6, PayoutType
<1>7. CASE UNCHANGED vars
  BY <1>7 DEF vars, TypeOK
<1> QED
  BY <1>1, <1>2, <1>3, <1>4, <1>5, <1>6, <1>7 DEF Next

\* Every reachable state is well typed, and no sale is refunded beyond its amount.
THEOREM TypeCorrect == Spec => []TypeOK
<1>1. Init => TypeOK
  BY DEF Init, TypeOK, AbsentConversion, AbsentCommission, AbsentEntry, AbsentPayout,
         ConversionRow, CommissionRow, EntryRow, PayoutRow, NoPayout, NoCommission
<1>2. TypeOK /\ [Next]_vars => TypeOK'
  BY TypeStep
<1> QED
  BY <1>1, <1>2, PTL DEF Spec

----------------------------------------------------------------------------
(* Batches.  NothingStranded and NoDoublePay are not inductive: what a row *)
(* says of its batch and what the batch says of its rows must agree.       *)

\* A commission that is not yet payable is in no batch.
FreeUntilPayable ==
  \A k \in CommissionIds :
    commissions[k].status = "absent" \/ Held(k) => commissions[k].payout = NoPayout

\* A live batch still holds every row and line it was drawn with.
SnapshotsHold ==
  \A p \in PayoutIds : Live(p) =>
    /\ \A k \in payouts[p].commissions : commissions[k].payout = p
    /\ \A e \in payouts[p].entries : entries[e].payout = p

\* An unused ledger line is nobody's, and in no batch.
UnusedEntriesFree ==
  \A e \in EntryIds :
    entries[e].type = "absent" => entries[e].affiliate = Null /\ entries[e].payout = NoPayout

\* Every row in use is an affiliate's, an unused one is worth nothing, and no test sale is payable.
RowsOwned ==
  \A k \in CommissionIds :
    /\ commissions[k].status = "absent" => commissions[k].amount = 0
    /\ commissions[k].status # "absent" => commissions[k].affiliate \in Affiliates
    /\ commissions[k].status = "payable" => ~commissions[k].test

\* The inductive invariant of the batches.
BatchInv ==
  /\ TypeOK /\ FreeUntilPayable /\ UnusedEntriesFree /\ RowsOwned
  /\ NothingStranded /\ SnapshotsHold

\* How a call that draws or moves no batch may change a commission: it stays in its batch and is
\* worth no more there, paid and closed rows are final, a row becomes payable only from a hold, and
\* a row that closes is worth nothing.
RowStep(k) ==
  LET c == commissions[k]
      d == commissions'[k]
  IN  /\ d.payout = c.payout
      /\ c.status = "absent" =>
           d = c \/ (d.status = "pending" /\ d.affiliate \in Affiliates)
      /\ c.status # "absent" =>
           /\ d.status # "absent" /\ d.affiliate = c.affiliate /\ d.test = c.test
           /\ d.amount = c.amount \/ d.amount < c.amount
      /\ c.status \in {"paid", "reversed", "void"} => d = c
      /\ d.status = "paid" => c.status = "paid"
      /\ d.status = "payable" =>
           c.status = "payable" \/ (c.status \in {"pending", "approved"} /\ ~c.test)
      /\ d.status \in {"absent", "pending", "approved"}
           => c.status \in {"absent", "pending", "approved"}
      /\ d.status \in {"reversed", "void"} => d = c \/ d.amount = 0

\* ... and a ledger line: a line in use stays as it is.
EntryStep(e) ==
  \/ entries'[e] = entries[e]
  \/ /\ entries[e].type = "absent" /\ entries'[e].type # "absent"
     /\ entries'[e].affiliate \in Affiliates
     /\ entries'[e].payout = NoPayout

\* The next statuses a commission may take, as facts the provers can use.
LEMMA CommissionMovesFacts ==
  ASSUME NEW s \in CommissionStatus \cup {"absent"}, NEW t \in CommissionMoves[s]
  PROVE  /\ s \in {"pending", "approved", "payable"}
         /\ t \in {"approved", "payable", "paid", "reversed", "void"}
         /\ t = "approved" => s = "pending"
         /\ t = "payable" => s \in {"pending", "approved"}
         /\ t = "paid" => s = "payable"
BY DEF CommissionMoves, CommissionStatus

\* A new ledger row takes a free line.
LEMMA WriteEntryStep ==
  ASSUME TypeOK, NEW a \in Affiliates, NEW k, NEW amount,
         NEW type \in {"adjustment", "clawback"}, WriteEntry(type, a, k, amount)
  PROVE  \A e \in EntryIds : EntryStep(e)
<1>1. PICK f \in EntryIds :
        /\ entries[f].type = "absent"
        /\ entries' = [entries EXCEPT ![f] =
             [type |-> type, affiliate |-> a, commission |-> k, amount |-> amount,
              payout |-> NoPayout]]
  BY DEF WriteEntry, FreshEntry
<1> QED
  BY <1>1 DEF EntryStep, TypeOK

\* Reversing a commission row is such a change.
LEMMA ReverseRowStep ==
  ASSUME TypeOK, RowsOwned, NEW k \in CommissionIds, NEW to \in {"reversed", "void"},
         ReverseCommissionRow(k, to)
  PROVE  /\ \A j \in CommissionIds : RowStep(j)
         /\ \A e \in EntryIds : EntryStep(e)
<1>1. CASE UNCHANGED <<commissions, entries>>
  BY <1>1 DEF RowStep, EntryStep
<1>2. CASE commissions[k].status = "paid" /\ Clawback(k, commissions[k].amount)
  <2>1. commissions[k].affiliate \in Affiliates
    BY <1>2 DEF RowsOwned
  <2> QED
    BY <1>2, <2>1, WriteEntryStep DEF Clawback, RowStep
<1>3. CASE ~Closed(k) /\ CloseRow(k, to)
  <2>1. /\ commissions[k] \in CommissionRow
        /\ commissions[k].status \in CommissionStatus \cup {"absent"}
    BY DEF TypeOK, CommissionRow
  <2>2. commissions[k].status \in {"pending", "approved", "payable"}
    BY <1>3, <2>1, CommissionMovesFacts DEF CloseRow
  <2> DEFINE row == [commissions[k] EXCEPT !.status = to, !.amount = 0]
  <2>3. /\ row.status = to /\ row.payout = commissions[k].payout /\ row.amount = 0
        /\ row.affiliate = commissions[k].affiliate /\ row.test = commissions[k].test
    BY <2>1 DEF CommissionRow
  <2>4. commissions' = [commissions EXCEPT ![k] = row]
    BY <1>3 DEF CloseRow
  <2> HIDE DEF row
  <2>6. \A j \in CommissionIds : commissions[j].amount \in Nat
    BY DEF TypeOK, CommissionRow
  <2>5. \A j \in CommissionIds : RowStep(j)
    BY <2>2, <2>3, <2>4, <2>6 DEF RowStep, TypeOK
  <2> QED
    BY <1>3, <2>5 DEF CloseRow, EntryStep
<1> QED
  BY <1>1, <1>2, <1>3 DEF ReverseCommissionRow

\* So is reducing it.
LEMMA ReduceRowStep ==
  ASSUME TypeOK, RowsOwned, NEW k \in CommissionIds, NEW n \in Nat, ReduceCommissionRow(k, n)
  PROVE  /\ \A j \in CommissionIds : RowStep(j)
         /\ \A e \in EntryIds : EntryStep(e)
<1>1. CASE UNCHANGED <<commissions, entries>>
  BY <1>1 DEF RowStep, EntryStep
<1>2. CASE ReverseCommissionRow(k, "reversed")
  BY <1>2, ReverseRowStep
<1>3. CASE commissions[k].status = "paid" /\ Clawback(k, commissions[k].amount - n)
  <2>1. commissions[k].affiliate \in Affiliates
    BY <1>3 DEF RowsOwned
  <2> QED
    BY <1>3, <2>1, WriteEntryStep DEF Clawback, RowStep
<1>4. CASE /\ ~Closed(k) /\ commissions[k].status # "paid"
           /\ n < commissions[k].amount /\ ShrinkRow(k, n)
  <2>1. commissions' = [commissions EXCEPT ![k] = [commissions[k] EXCEPT !.amount = n]]
    BY <1>4 DEF ShrinkRow
  <2>2. commissions[k] \in CommissionRow
    BY DEF TypeOK
  <2>3. /\ [commissions[k] EXCEPT !.amount = n].status = commissions[k].status
        /\ [commissions[k] EXCEPT !.amount = n].payout = commissions[k].payout
        /\ [commissions[k] EXCEPT !.amount = n].amount = n
        /\ [commissions[k] EXCEPT !.amount = n].affiliate = commissions[k].affiliate
        /\ [commissions[k] EXCEPT !.amount = n].test = commissions[k].test
    BY <2>2 DEF CommissionRow
  <2>4. commissions[k].status \in CommissionStatus \cup {"absent"}
    BY <2>2 DEF CommissionRow
  <2>5. commissions[k].status \in {"absent", "pending", "approved", "payable"}
    BY <1>4, <2>4 DEF Closed, CommissionStatus
  <2>6. commissions[k].status # "absent"
    BY <1>4 DEF RowsOwned
  <2> QED
    BY <1>4, <2>1, <2>3, <2>5, <2>6 DEF RowStep, EntryStep, ShrinkRow, TypeOK
<1> QED
  BY <1>1, <1>2, <1>3, <1>4 DEF ReduceCommissionRow

\* A commission that moves along its transition table, and only in its status, is such a change.
LEMMA StatusMoveStep ==
  ASSUME TypeOK, NEW k \in CommissionIds, NEW t \in {"approved", "payable"},
         t \in CommissionMoves[commissions[k].status],
         t = "payable" => ~commissions[k].test,
         commissions' = [commissions EXCEPT ![k].status = t]
  PROVE  \A j \in CommissionIds : RowStep(j)
<1> DEFINE row == [commissions[k] EXCEPT !.status = t]
<1>1. commissions[k] \in CommissionRow /\ commissions' = [commissions EXCEPT ![k] = row]
  BY DEF TypeOK
<1>2. /\ row.status = t /\ row.payout = commissions[k].payout
      /\ row.amount = commissions[k].amount
      /\ row.affiliate = commissions[k].affiliate /\ row.test = commissions[k].test
  BY <1>1 DEF CommissionRow
<1>3. commissions[k].status \in CommissionStatus \cup {"absent"}
  BY <1>1 DEF CommissionRow
<1>4. /\ commissions[k].status \in {"pending", "approved"}
      /\ t = "payable" \/ commissions[k].status = "pending"
  BY <1>3, CommissionMovesFacts
<1> HIDE DEF row
<1> QED
  BY <1>1, <1>2, <1>4 DEF RowStep, TypeOK

\* A commission row taken into use is such a change.
LEMMA NewRowStep ==
  ASSUME TypeOK, FreeUntilPayable, NEW n \in CommissionIds, FreshCommission(n),
         NEW o, NEW a, NEW earned, NEW test
  PROVE  LET c == commissions[n]
             d == NewCommission(o, a, earned, test)
         IN  /\ c.status = "absent" /\ c.payout = NoPayout
             /\ d.status = "pending" /\ d.payout = NoPayout /\ d.affiliate = a
BY DEF FreshCommission, FreeUntilPayable, NewCommission

\* So is a reattribution.
LEMMA ReattributeStep ==
  ASSUME TypeOK, FreeUntilPayable, NEW o, NEW a \in Affiliates \cup {Null}, NEW earned, NEW test,
         NEW s, NEW d, ReattributeInto(o, a, earned, test, s, d)
  PROVE  /\ \A j \in CommissionIds : RowStep(j)
         /\ \A e \in EntryIds : EntryStep(e)
         /\ UNCHANGED payouts
<1>1. PICK k \in CommissionIds :
        /\ Closed(k) \/ "void" \in CommissionMoves[commissions[k].status]
        /\ \/ commissions' = [commissions EXCEPT ![k] = Voided(k)]
           \/ /\ a # Null
              /\ \E n \in CommissionIds :
                   /\ FreshCommission(n)
                   /\ commissions' = [commissions EXCEPT ![k] = Voided(k),
                                                        ![n] = NewCommission(o, a, earned, test)]
  BY Zenon DEF ReattributeInto
<1>2. /\ commissions[k] \in CommissionRow
      /\ commissions[k].status \in CommissionStatus \cup {"absent"}
  BY DEF TypeOK, CommissionRow
<1>3. commissions[k].status \in {"pending", "approved", "reversed", "void"}
  <2>1. CASE Closed(k)
    BY <2>1 DEF Closed
  <2>2. CASE "void" \in CommissionMoves[commissions[k].status]
    BY <1>2, <2>2 DEF CommissionMoves, CommissionStatus
  <2> QED
    BY <1>1, <2>1, <2>2
<1>4. /\ Voided(k).payout = commissions[k].payout
      /\ Voided(k).affiliate = commissions[k].affiliate /\ Voided(k).test = commissions[k].test
      /\ Voided(k).status \in {"reversed", "void"}
      /\ Voided(k).amount = commissions[k].amount \/ Voided(k).amount < commissions[k].amount
      /\ Voided(k) = commissions[k] \/ (~Closed(k) /\ Voided(k).amount = 0)
  BY <1>2 DEF Voided, CommissionRow, Closed
<1>5. CASE commissions' = [commissions EXCEPT ![k] = Voided(k)]
  BY <1>3, <1>4, <1>5 DEF RowStep, TypeOK, ReattributeInto, EntryStep, Closed
<1>6. CASE /\ a # Null
           /\ \E n \in CommissionIds :
                /\ FreshCommission(n)
                /\ commissions' = [commissions EXCEPT ![k] = Voided(k),
                                                     ![n] = NewCommission(o, a, earned, test)]
  <2> DEFINE new == NewCommission(o, a, earned, test)
  <2>1. PICK n \in CommissionIds :
          /\ FreshCommission(n)
          /\ commissions' = [commissions EXCEPT ![k] = Voided(k), ![n] = new]
    BY <1>6
  <2>2. /\ commissions[n].status = "absent" /\ commissions[n].payout = NoPayout
        /\ new.status = "pending" /\ new.payout = NoPayout /\ new.affiliate \in Affiliates
    BY <1>6, <2>1, NewRowStep
  <2> HIDE DEF new
  <2>3. \A j \in CommissionIds : RowStep(j)
    BY <1>3, <1>4, <2>1, <2>2 DEF RowStep, TypeOK, Closed
  <2> QED
    BY <2>3 DEF ReattributeInto, EntryStep
<1> QED
  BY <1>1, <1>5, <1>6

\* Every call that draws or moves no batch changes rows and lines only in these ways.
LEMMA OtherStep ==
  ASSUME TypeOK, FreeUntilPayable, RowsOwned,
         \/ \E o \in Orders : SaleStep(o) \/ DisputeStep(o)
         \/ \E k \in CommissionIds : CommissionStep(k)
         \/ \E due \in SUBSET CommissionIds : SettleHoldingPeriods(due)
         \/ \E a \in Affiliates, amount \in Adjustments : AdjustAffiliateBalance(a, amount)
         \/ UNCHANGED vars
  PROVE  /\ \A j \in CommissionIds : RowStep(j)
         /\ \A e \in EntryIds : EntryStep(e)
         /\ UNCHANGED payouts
<1>1. ASSUME NEW o, NEW d, CancelInto(o, d)
      PROVE  /\ \A j \in CommissionIds : RowStep(j)
             /\ \A e \in EntryIds : EntryStep(e)
             /\ UNCHANGED payouts
  BY <1>1, ReverseRowStep DEF CancelInto
<1>2. CASE UNCHANGED <<commissions, entries, payouts>>
  BY <1>2 DEF RowStep, EntryStep
<1>3. CASE \E o \in Orders : SaleStep(o)
  <2>1. PICK o \in Orders : SaleStep(o)
    BY <1>3
  <2>2. CASE \E a \in Affiliates, amount \in SaleAmounts, earned \in Earnings,
                test \in TestModes : RecordConversion(o, a, amount, earned, test)
    <3>1. PICK a \in Affiliates, amount \in SaleAmounts, earned \in Earnings,
               test \in TestModes : RecordConversion(o, a, amount, earned, test)
      BY <2>2
    <3> DEFINE new == NewCommission(o, a, earned, test)
    <3>2. PICK n \in CommissionIds :
            FreshCommission(n) /\ commissions' = [commissions EXCEPT ![n] = new]
      BY <3>1 DEF RecordConversion
    <3>3. /\ commissions[n].status = "absent" /\ commissions[n].payout = NoPayout
          /\ new.status = "pending" /\ new.payout = NoPayout /\ new.affiliate \in Affiliates
      BY <3>2, NewRowStep
    <3> HIDE DEF new
    <3>4. \A j \in CommissionIds : RowStep(j)
      BY <3>2, <3>3 DEF RowStep, TypeOK
    <3> QED
      BY <3>1, <3>4 DEF RecordConversion, EntryStep
  <2>3. CASE \E refund \in Refundable(o), policy \in Policies :
               RefundConversion(o, refund, policy)
    <3>1. \/ \E k \in CommissionIds : ReverseCommissionRow(k, "reversed")
          \/ \E k \in CommissionIds, n \in Nat : ReduceCommissionRow(k, n)
          \/ UNCHANGED <<commissions, credited, entries>>
      BY <2>3, RefundCases
    <3>2. UNCHANGED payouts
      BY <2>3 DEF RefundConversion
    <3> QED
      BY <1>2, <3>1, <3>2, ReverseRowStep, ReduceRowStep
  <2>4. CASE CancelConversion(o)
    BY <1>1, <2>4 DEF CancelConversion
  <2>5. CASE ApproveConversion(o) \/ DisputeConversion(o)
    BY <1>2, <2>5 DEF ApproveConversion, DisputeConversion
  <2>6. CASE \E a \in Affiliates \cup {Null}, earned \in Earnings, test \in TestModes :
               ReattributeConversion(o, a, earned, test)
    BY <2>6, ReattributeStep DEF ReattributeConversion
  <2> QED
    BY <2>1, <2>2, <2>3, <2>4, <2>5, <2>6 DEF SaleStep
<1>4. CASE \E o \in Orders : DisputeStep(o)
  <2>1. PICK o \in Orders : DisputeStep(o)
    BY <1>4
  <2>2. CASE OpenDispute(o) \/ RestoreSale(o)
    BY <1>2, <2>2 DEF OpenDispute, RestoreSale
  <2>3. CASE ResolveByCancelling(o)
    BY <1>1, <2>3 DEF ResolveByCancelling
  <2>4. CASE \E a \in Affiliates, earned \in Earnings, test \in TestModes :
               ResolveByReattributing(o, a, earned, test)
    BY <2>4, ReattributeStep DEF ResolveByReattributing
  <2> QED
    BY <2>1, <2>2, <2>3, <2>4 DEF DisputeStep
<1>5. CASE \E k \in CommissionIds : CommissionStep(k)
  <2>1. PICK k \in CommissionIds : CommissionStep(k)
    BY <1>5
  <2>2. CASE ApproveCommission(k)
    BY <2>2, StatusMoveStep DEF ApproveCommission, EntryStep
  <2>3. CASE ReleaseCommission(k)
    BY <2>3, StatusMoveStep DEF ReleaseCommission, EntryStep
  <2>4. CASE ReverseCommission(k)
    BY <2>4, ReverseRowStep DEF ReverseCommission
  <2> QED
    BY <2>1, <2>2, <2>3, <2>4 DEF CommissionStep
<1>6. CASE \E due \in SUBSET CommissionIds : SettleHoldingPeriods(due)
  <2>1. PICK due \in SUBSET CommissionIds : SettleHoldingPeriods(due)
    BY <1>6
  <2> DEFINE moved == {k \in due : conversions[commissions[k].order].status # "disputed"}
  <2>2. commissions' = [k \in CommissionIds |->
          IF k \in moved THEN [commissions[k] EXCEPT !.status = "payable"] ELSE commissions[k]]
    BY <2>1 DEF SettleHoldingPeriods
  <2>3. ASSUME NEW k \in CommissionIds
        PROVE  RowStep(k)
    <3>1. commissions[k] \in CommissionRow
      BY DEF TypeOK
    <3>2. CASE k \in moved
      <4>1. commissions[k].status \in {"pending", "approved"} /\ ~commissions[k].test
        BY <2>1, <3>2 DEF SettleHoldingPeriods, Held
      <4>2. /\ commissions'[k].status = "payable"
            /\ commissions'[k].payout = commissions[k].payout
            /\ commissions'[k].amount = commissions[k].amount
            /\ commissions'[k].affiliate = commissions[k].affiliate
            /\ commissions'[k].test = commissions[k].test
        BY <2>2, <3>1, <3>2 DEF CommissionRow
      <4> QED
        BY <4>1, <4>2 DEF RowStep
    <3>3. CASE k \notin moved
      BY <2>2, <3>3 DEF RowStep
    <3> QED
      BY <3>2, <3>3
  <2> QED
    BY <2>1, <2>3 DEF SettleHoldingPeriods, EntryStep
<1>7. CASE \E a \in Affiliates, amount \in Adjustments : AdjustAffiliateBalance(a, amount)
  BY <1>7, WriteEntryStep DEF AdjustAffiliateBalance, RowStep
<1>8. CASE UNCHANGED vars
  BY <1>2, <1>8 DEF vars
<1> QED
  BY <1>3, <1>4, <1>5, <1>6, <1>7, <1>8

\* The batch invariant survives every such change.
LEMMA OtherKeepsBatches ==
  ASSUME BatchInv, TypeOK', UNCHANGED payouts,
         \A k \in CommissionIds : RowStep(k),
         \A e \in EntryIds : EntryStep(e)
  PROVE  BatchInv'
<1>1. \A p \in PayoutIds : Live(p)' = Live(p)
  BY DEF Live
<1>2. \A k \in CommissionIds :
        commissions[k].payout \in PayoutIds \cup {NoPayout}
  BY DEF BatchInv, TypeOK, CommissionRow
<1>3. \A e \in EntryIds : entries[e].payout \in PayoutIds \cup {NoPayout}
  BY DEF BatchInv, TypeOK, EntryRow
<1>4. FreeUntilPayable' /\ RowsOwned'
  <2>1. FreeUntilPayable'
    BY DEF BatchInv, FreeUntilPayable, RowStep, Held
  <2>2. RowsOwned'
    BY DEF BatchInv, RowsOwned, RowStep
  <2> QED
    BY <2>1, <2>2
<1>5. UnusedEntriesFree'
  BY DEF BatchInv, UnusedEntriesFree, EntryStep
<1>6. NothingStranded'
  <2>1. ASSUME NEW k \in CommissionIds
        PROVE  Accounted(k)'
    BY DEF BatchInv, NothingStranded, Accounted, FreeUntilPayable, RowStep, Held, Live
  <2>2. ASSUME NEW e \in EntryIds
        PROVE  EntryAccounted(e)'
    BY DEF BatchInv, NothingStranded, UnusedEntriesFree, EntryAccounted, EntryStep, Live
  <2> QED
    BY <2>1, <2>2 DEF NothingStranded
<1>7. \A e \in EntryIds : entries'[e].payout = entries[e].payout
  BY DEF BatchInv, UnusedEntriesFree, EntryStep
<1>8. SnapshotsHold'
  <2>1. \A p \in PayoutIds : payouts[p].commissions \subseteq CommissionIds
                             /\ payouts[p].entries \subseteq EntryIds
    BY DEF BatchInv, TypeOK, PayoutRow
  <2> QED
    BY <1>1, <1>7, <2>1 DEF BatchInv, SnapshotsHold, RowStep
<1> QED
  BY <1>4, <1>5, <1>6, <1>8 DEF BatchInv

\* What the moves of a batch do to its status.
LEMMA PayoutMovesFacts ==
  ASSUME NEW s \in PayoutStatus \cup {"absent"}, NEW t \in PayoutMoves[s]
  PROVE  /\ s \in {"draft", "processing", "failed"}
         /\ t \in {"processing", "paid", "failed", "cancelled"}
BY DEF PayoutMoves, PayoutStatus

\* Drawing a batch keeps the batch invariant.
LEMMA BatchKeepsBatches ==
  ASSUME BatchInv, TypeOK', NEW p \in PayoutIds, NEW a \in Affiliates,
         NEW ignoreThreshold \in BOOLEAN,
         NEW s \in PayoutStatus, NEW r \in CommissionStatus,
         (s = "draft" /\ r = "payable") \/ (s = "paid" /\ r = "paid"),
         Batch(p, a, ignoreThreshold, s, r)
  PROVE  BatchInv'
<1> DEFINE rows == PayableRows(a)
           lines == OpenEntries(a)
<1>1. /\ s \in {"draft", "paid"} /\ r \in {"payable", "paid"}
      /\ s = "draft" <=> r = "payable"
  OBVIOUS
<1>2. /\ \A k \in CommissionIds : commissions[k] \in CommissionRow
      /\ \A e \in EntryIds : entries[e] \in EntryRow
      /\ \A q \in PayoutIds : payouts[q] \in PayoutRow
  BY DEF BatchInv, TypeOK
<1>3. /\ payouts[p].status = "absent"
      /\ ~Live(p)
      /\ p # NoPayout
  <2>1. payouts[p].status = "absent"
    BY DEF Batch, FreshPayout
  <2> QED
    BY <2>1 DEF Live, PayoutIds, NoPayout
<1>4. /\ payouts'[p].status = s
      /\ payouts'[p].commissions = rows
      /\ payouts'[p].entries = lines
      /\ \A q \in PayoutIds : q # p => payouts'[q] = payouts[q]
  BY DEF Batch, BatchInv, TypeOK
<1>5. \A k \in rows : /\ commissions'[k].payout = p
                      /\ commissions'[k].status = r
                      /\ commissions[k].payout = NoPayout
                      /\ commissions[k].status = "payable"
                      /\ commissions'[k].affiliate = commissions[k].affiliate
                      /\ commissions'[k].test = commissions[k].test
  <2>1. ASSUME NEW k \in rows
        PROVE  /\ commissions'[k].payout = p
               /\ commissions'[k].status = r
               /\ commissions'[k].affiliate = commissions[k].affiliate
               /\ commissions'[k].test = commissions[k].test
    <3>1. k \in CommissionIds /\ commissions[k] \in CommissionRow
      BY <1>2, <2>1 DEF PayableRows
    <3>2. commissions'[k] = [commissions[k] EXCEPT !.payout = p, !.status = r]
      BY <2>1, <3>1 DEF Batch
    <3> QED
      BY <3>1, <3>2 DEF CommissionRow
  <2> QED
    BY <2>1 DEF PayableRows
<1>6. \A k \in CommissionIds \ rows : commissions'[k] = commissions[k]
  BY DEF Batch
<1>7. \A e \in lines : entries'[e].payout = p /\ entries[e].payout = NoPayout
  BY <1>2 DEF Batch, OpenEntries, EntryRow
<1>8. \A e \in EntryIds \ lines : entries'[e] = entries[e]
  BY DEF Batch
<1>9. \A k \in CommissionIds : commissions[k].payout # p
  BY <1>3 DEF BatchInv, NothingStranded, Accounted
<1>10. \A e \in EntryIds : entries[e].payout # p
  BY <1>3 DEF BatchInv, NothingStranded, EntryAccounted
<1>11. /\ rows \subseteq CommissionIds
       /\ lines \subseteq EntryIds
  BY DEF PayableRows, OpenEntries
<1>12. Live(p)' /\ \A q \in PayoutIds : q # p => Live(q)' = Live(q)
  BY <1>1, <1>4 DEF Live
<1> HIDE DEF rows, lines
<1>13. FreeUntilPayable' /\ RowsOwned'
  BY <1>1, <1>5, <1>6 DEF BatchInv, FreeUntilPayable, RowsOwned, Held
<1>14. UnusedEntriesFree'
  <2>1. \A e \in lines : entries[e].type # "absent" /\ entries'[e].type = entries[e].type
    <3>1. ASSUME NEW e \in lines
          PROVE  entries[e].type # "absent" /\ entries'[e].type = entries[e].type
      <4>1. e \in EntryIds /\ entries[e] \in EntryRow /\ entries[e].affiliate # Null
        BY <1>2, <1>11, <3>1, ConstantsOK DEF lines, OpenEntries, ConstantsOK
      <4>2. entries'[e] = [entries[e] EXCEPT !.payout = p]
        BY <3>1, <4>1 DEF Batch, lines
      <4> QED
        BY <4>1, <4>2 DEF BatchInv, UnusedEntriesFree, EntryRow
    <3> QED
      BY <3>1
  <2> QED
    BY <1>8, <1>11, <2>1 DEF BatchInv, UnusedEntriesFree
<1>15. NothingStranded'
  <2>1. ASSUME NEW k \in CommissionIds
        PROVE  Accounted(k)'
    <3>1. CASE k \in rows
      BY <1>1, <1>3, <1>4, <1>5, <1>12, <3>1 DEF Accounted
    <3>2. CASE k \notin rows
      <4>1. commissions'[k] = commissions[k] /\ commissions[k].payout # p
        BY <1>6, <1>9, <3>2
      <4>2. commissions[k].payout \in PayoutIds \cup {NoPayout}
        BY <1>2 DEF CommissionRow
      <4> QED
        BY <1>4, <4>1, <4>2 DEF BatchInv, NothingStranded, Accounted, Live
    <3> QED
      BY <3>1, <3>2
  <2>2. ASSUME NEW e \in EntryIds
        PROVE  EntryAccounted(e)'
    <3>1. CASE e \in lines
      BY <1>7, <1>12, <3>1 DEF EntryAccounted, Live
    <3>2. CASE e \notin lines
      <4>1. entries'[e] = entries[e] /\ entries[e].payout # p
        BY <1>8, <1>10, <3>2
      <4>2. entries[e].payout \in PayoutIds \cup {NoPayout}
        BY <1>2 DEF EntryRow
      <4> QED
        BY <1>4, <4>1, <4>2 DEF BatchInv, NothingStranded, EntryAccounted, Live
    <3> QED
      BY <3>1, <3>2
  <2> QED
    BY <2>1, <2>2 DEF NothingStranded
<1>16. SnapshotsHold'
  <2>1. ASSUME NEW q \in PayoutIds, Live(q)'
        PROVE  (/\ \A k \in payouts[q].commissions : commissions[k].payout = q
                /\ \A e \in payouts[q].entries : entries[e].payout = q)'
    <3>1. CASE q = p
      BY <1>4, <1>5, <1>7, <3>1
    <3>2. CASE q # p
      <4>1. Live(q) /\ payouts'[q] = payouts[q] /\ q # NoPayout
        BY <1>4, <1>12, <2>1, <3>2 DEF PayoutIds, NoPayout
      <4>2. /\ payouts[q].commissions \subseteq CommissionIds
            /\ payouts[q].entries \subseteq EntryIds
        BY <1>2 DEF PayoutRow
      <4> QED
        BY <1>5, <1>6, <1>7, <1>8, <4>1, <4>2 DEF BatchInv, SnapshotsHold
    <3> QED
      BY <3>1, <3>2
  <2> QED
    BY <2>1 DEF SnapshotsHold, Live
<1> QED
  BY <1>13, <1>14, <1>15, <1>16 DEF BatchInv

\* Moving a batch keeps the batch invariant.
LEMMA MoveKeepsBatches ==
  ASSUME BatchInv, TypeOK', NEW p \in PayoutIds,
         MarkPayoutProcessing(p) \/ MarkPayoutFailed(p) \/ MarkPayoutPaid(p) \/ CancelPayout(p)
  PROVE  BatchInv'
<1>1. PICK t \in {"processing", "failed", "paid", "cancelled"} : SetPayout(p, t)
  BY DEF MarkPayoutProcessing, MarkPayoutFailed, MarkPayoutPaid, CancelPayout
<1>2. /\ \A k \in CommissionIds : commissions[k] \in CommissionRow
      /\ \A e \in EntryIds : entries[e] \in EntryRow
      /\ \A q \in PayoutIds : payouts[q] \in PayoutRow
  BY DEF BatchInv, TypeOK
<1>3. payouts[p].status \in {"draft", "processing", "failed"}
  BY <1>1, <1>2, PayoutMovesFacts DEF SetPayout, PayoutRow
<1>4. /\ payouts'[p].status = t
      /\ \A q \in PayoutIds : /\ q # p => payouts'[q] = payouts[q]
                             /\ payouts'[q].commissions = payouts[q].commissions
                             /\ payouts'[q].entries = payouts[q].entries
                             /\ payouts[q].commissions \subseteq CommissionIds
                             /\ payouts[q].entries \subseteq EntryIds
  BY <1>1, <1>2 DEF SetPayout, BatchInv, TypeOK, PayoutRow
<1>5. p # NoPayout
  BY DEF PayoutIds, NoPayout
<1>6. \A k \in CommissionIds : commissions[k].payout \in PayoutIds \cup {NoPayout}
  BY <1>2 DEF CommissionRow
<1>7. \A e \in EntryIds : entries[e].payout \in PayoutIds \cup {NoPayout}
  BY <1>2 DEF EntryRow
<1>8. CASE MarkPayoutProcessing(p) \/ MarkPayoutFailed(p)
  <2>1. UNCHANGED <<commissions, entries>> /\ payouts'[p].status \in {"processing", "failed"}
    BY <1>2, <1>8
       DEF MarkPayoutProcessing, MarkPayoutFailed, SetPayout, BatchInv, TypeOK, PayoutRow
  <2>2. \A q \in PayoutIds : Live(q)' = Live(q)
    BY <1>3, <1>4, <2>1 DEF Live
  <2>3. FreeUntilPayable' /\ RowsOwned' /\ UnusedEntriesFree'
    BY <2>1 DEF BatchInv, FreeUntilPayable, RowsOwned, Held, UnusedEntriesFree
  <2>4. NothingStranded'
    <3>1. ASSUME NEW k \in CommissionIds
          PROVE  Accounted(k)'
      <4>1. Accounted(k) /\ commissions' = commissions
        BY <2>1 DEF BatchInv, NothingStranded
      <4> QED
        BY <1>3, <1>4, <1>6, <2>1, <4>1 DEF Accounted, Live
    <3>2. ASSUME NEW e \in EntryIds
          PROVE  EntryAccounted(e)'
      <4>1. EntryAccounted(e) /\ entries' = entries
        BY <2>1 DEF BatchInv, NothingStranded
      <4> QED
        BY <1>4, <1>7, <2>1, <4>1 DEF EntryAccounted, Live
    <3> QED
      BY <3>1, <3>2 DEF NothingStranded
  <2>5. SnapshotsHold'
    BY <1>4, <2>1, <2>2 DEF BatchInv, SnapshotsHold
  <2> QED
    BY <2>3, <2>4, <2>5 DEF BatchInv
<1>9. CASE MarkPayoutPaid(p)
  <2>1. /\ UNCHANGED entries
        /\ payouts'[p].status = "paid"
        /\ \A k \in CommissionIds :
             /\ commissions'[k].payout = commissions[k].payout
             /\ commissions'[k].affiliate = commissions[k].affiliate
             /\ IF commissions[k].payout = p /\ commissions[k].status = "payable"
                THEN commissions'[k].status = "paid"
                ELSE commissions'[k] = commissions[k]
    BY <1>2, <1>9 DEF MarkPayoutPaid, SetPayout, BatchInv, TypeOK, PayoutRow, CommissionRow
  <2>2. \A q \in PayoutIds : Live(q)' = Live(q)
    BY <1>3, <1>4, <2>1 DEF Live
  <2>3. FreeUntilPayable' /\ RowsOwned' /\ UnusedEntriesFree'
    BY <2>1 DEF BatchInv, FreeUntilPayable, RowsOwned, Held, UnusedEntriesFree
  <2>4. NothingStranded'
    <3>1. ASSUME NEW k \in CommissionIds
          PROVE  Accounted(k)'
      <4>1. Accounted(k)
        BY DEF BatchInv, NothingStranded
      <4> QED
        BY <1>3, <1>4, <1>5, <1>6, <2>1, <4>1 DEF Accounted, Live
    <3>2. ASSUME NEW e \in EntryIds
          PROVE  EntryAccounted(e)'
      <4>1. EntryAccounted(e) /\ entries' = entries
        BY <2>1 DEF BatchInv, NothingStranded
      <4> QED
        BY <1>4, <1>7, <2>1, <4>1 DEF EntryAccounted, Live
    <3> QED
      BY <3>1, <3>2 DEF NothingStranded
  <2>5. SnapshotsHold'
    BY <1>4, <2>1, <2>2 DEF BatchInv, SnapshotsHold
  <2> QED
    BY <2>3, <2>4, <2>5 DEF BatchInv
<1>10. CASE CancelPayout(p)
  <2>1. /\ payouts'[p].status = "cancelled"
        /\ \A k \in CommissionIds :
             /\ commissions'[k].status = commissions[k].status
             /\ commissions'[k].affiliate = commissions[k].affiliate
             /\ commissions'[k].amount = commissions[k].amount
             /\ commissions'[k].test = commissions[k].test
             /\ IF commissions[k].payout = p
                THEN commissions'[k].payout = NoPayout
                ELSE commissions'[k] = commissions[k]
        /\ \A e \in EntryIds :
             /\ entries'[e].type = entries[e].type
             /\ entries'[e].affiliate = entries[e].affiliate
             /\ IF entries[e].payout = p
                THEN entries'[e].payout = NoPayout
                ELSE entries'[e] = entries[e]
    BY <1>2, <1>10
       DEF CancelPayout, SetPayout, BatchInv, TypeOK, PayoutRow, CommissionRow, EntryRow
  <2>2. ~Live(p)' /\ \A q \in PayoutIds : q # p => Live(q)' = Live(q)
    BY <1>4, <2>1 DEF Live
  <2>3. FreeUntilPayable' /\ RowsOwned' /\ UnusedEntriesFree'
    BY <2>1 DEF BatchInv, FreeUntilPayable, RowsOwned, Held, UnusedEntriesFree
  <2>4. NothingStranded'
    <3>1. ASSUME NEW k \in CommissionIds
          PROVE  Accounted(k)'
      <4>1. Accounted(k)
        BY DEF BatchInv, NothingStranded
      <4>2. CASE commissions[k].payout = p
        BY <1>3, <2>1, <4>1, <4>2 DEF Accounted
      <4>3. CASE commissions[k].payout # p
        BY <1>4, <1>6, <2>1, <4>1, <4>3 DEF Accounted, Live
      <4> QED
        BY <4>2, <4>3
    <3>2. ASSUME NEW e \in EntryIds
          PROVE  EntryAccounted(e)'
      <4>1. EntryAccounted(e)
        BY DEF BatchInv, NothingStranded
      <4> QED
        BY <1>4, <1>7, <2>1, <4>1 DEF EntryAccounted, Live
    <3> QED
      BY <3>1, <3>2 DEF NothingStranded
  <2>5. SnapshotsHold'
    BY <1>4, <2>1, <2>2 DEF BatchInv, SnapshotsHold
  <2> QED
    BY <2>3, <2>4, <2>5 DEF BatchInv
<1> QED
  BY <1>8, <1>9, <1>10

\* The batch invariant holds in every reachable state.
LEMMA BatchesCorrect == Spec => []BatchInv
<1>1. Init => BatchInv
  <2> SUFFICES ASSUME Init
               PROVE  BatchInv
    OBVIOUS
  <2>1. TypeOK
    BY DEF Init, TypeOK, AbsentConversion, AbsentCommission, AbsentEntry, AbsentPayout,
           ConversionRow, CommissionRow, EntryRow, PayoutRow, NoPayout, NoCommission
  <2>2. FreeUntilPayable /\ RowsOwned /\ UnusedEntriesFree
    BY DEF Init, FreeUntilPayable, RowsOwned, UnusedEntriesFree, AbsentCommission, AbsentEntry
  <2>3. NothingStranded
    BY DEF Init, NothingStranded, Accounted, EntryAccounted, AbsentCommission, AbsentEntry
  <2>4. SnapshotsHold
    BY DEF Init, SnapshotsHold, Live, AbsentPayout
  <2> QED
    BY <2>1, <2>2, <2>3, <2>4 DEF BatchInv
<1>2. BatchInv /\ [Next]_vars => BatchInv'
  <2> SUFFICES ASSUME BatchInv, [Next]_vars
               PROVE  BatchInv'
    OBVIOUS
  <2>1. TypeOK'
    BY TypeStep DEF BatchInv
  <2>2. CASE \E p \in PayoutIds : PayoutStep(p)
    <3>1. PICK p \in PayoutIds : PayoutStep(p)
      BY <2>2
    <3>2. CASE \E a \in Affiliates, ignoreThreshold \in BOOLEAN :
                 CreatePayoutBatch(p, a, ignoreThreshold)
      <4>1. PICK a \in Affiliates, i \in BOOLEAN : Batch(p, a, i, "draft", "payable")
        BY <3>2 DEF CreatePayoutBatch
      <4> QED
        BY <2>1, <4>1, BatchKeepsBatches DEF PayoutStatus, CommissionStatus
    <3>3. CASE \E a \in Affiliates : RecordExternalPayout(p, a)
      <4>1. PICK a \in Affiliates : Batch(p, a, TRUE, "paid", "paid")
        BY <3>3 DEF RecordExternalPayout
      <4> QED
        BY <2>1, <4>1, BatchKeepsBatches DEF PayoutStatus, CommissionStatus
    <3>4. CASE MarkPayoutProcessing(p) \/ MarkPayoutFailed(p) \/ MarkPayoutPaid(p)
               \/ CancelPayout(p)
      BY <2>1, <3>4, MoveKeepsBatches
    <3> QED
      BY <3>1, <3>2, <3>3, <3>4 DEF PayoutStep
  <2>3. CASE ~\E p \in PayoutIds : PayoutStep(p)
    <3>1. /\ UNCHANGED payouts
          /\ \A k \in CommissionIds : RowStep(k)
          /\ \A e \in EntryIds : EntryStep(e)
      <4>1. TypeOK /\ FreeUntilPayable /\ RowsOwned
        BY DEF BatchInv
      <4>2. \/ \E o \in Orders : SaleStep(o) \/ DisputeStep(o)
            \/ \E k \in CommissionIds : CommissionStep(k)
            \/ \E due \in SUBSET CommissionIds : SettleHoldingPeriods(due)
            \/ \E a \in Affiliates, amount \in Adjustments : AdjustAffiliateBalance(a, amount)
            \/ UNCHANGED vars
        BY <2>3 DEF Next
      <4> QED
        BY <4>1, <4>2, OtherStep
    <3> QED
      BY <2>1, <3>1, OtherKeepsBatches
  <2> QED
    BY <2>2, <2>3
<1> QED
  BY <1>1, <1>2, PTL DEF Spec

\* No two live batches carry the same commission or the same ledger line.
THEOREM NoDoublePayCorrect == Spec => []NoDoublePay
<1>1. BatchInv => NoDoublePay
  <2> SUFFICES ASSUME BatchInv, NEW p \in PayoutIds, NEW q \in PayoutIds,
                      p # q, Live(p), Live(q)
               PROVE  /\ payouts[p].commissions \cap payouts[q].commissions = {}
                      /\ payouts[p].entries \cap payouts[q].entries = {}
    BY DEF NoDoublePay
  <2> QED
    BY DEF BatchInv, SnapshotsHold
<1> QED
  BY <1>1, BatchesCorrect, PTL

\* Nothing earned is stranded in a closed batch, and nothing is paid without a paid one.
THEOREM NothingStrandedCorrect == Spec => []NothingStranded
<1>1. BatchInv => NothingStranded
  BY DEF BatchInv
<1> QED
  BY <1>1, BatchesCorrect, PTL

\* A paid commission never changes again.
THEOREM PaidIsFinalCorrect == Spec => PaidIsFinal
<1>1. ASSUME BatchInv, [Next]_vars, NEW k \in CommissionIds, commissions[k].status = "paid"
      PROVE  commissions'[k] = commissions[k]
  <2>1. /\ TypeOK
        /\ FreeUntilPayable
        /\ RowsOwned
        /\ commissions[k].payout \in PayoutIds
        /\ payouts[commissions[k].payout].status = "paid"
    BY <1>1 DEF BatchInv, NothingStranded, Accounted, TypeOK, CommissionRow
  <2>2. CASE \E p \in PayoutIds : PayoutStep(p)
    <3>1. PICK p \in PayoutIds : PayoutStep(p)
      BY <2>2
    <3>2. CASE \E a \in Affiliates, i \in BOOLEAN, s \in PayoutStatus, r \in CommissionStatus :
                 Batch(p, a, i, s, r)
      <4>1. PICK a \in Affiliates, i \in BOOLEAN, s \in PayoutStatus, r \in CommissionStatus :
              Batch(p, a, i, s, r)
        BY <3>2
      <4>2. k \notin PayableRows(a)
        BY <1>1 DEF PayableRows
      <4> QED
        BY <4>1, <4>2 DEF Batch
    <3>3. CASE MarkPayoutProcessing(p) \/ MarkPayoutFailed(p)
      BY <3>3 DEF MarkPayoutProcessing, MarkPayoutFailed
    <3>4. CASE MarkPayoutPaid(p)
      BY <1>1, <3>4 DEF MarkPayoutPaid
    <3>5. CASE CancelPayout(p)
      <4>1. payouts[p].status # "paid"
        <5>1. payouts[p].status \in PayoutStatus \cup {"absent"}
          BY <2>1 DEF TypeOK, PayoutRow
        <5> QED
          BY <3>5, <5>1, PayoutMovesFacts DEF CancelPayout, SetPayout
      <4>2. commissions[k].payout # p
        BY <2>1, <4>1
      <4> QED
        BY <3>5, <4>2 DEF CancelPayout
    <3> QED
      BY <3>1, <3>2, <3>3, <3>4, <3>5
         DEF PayoutStep, CreatePayoutBatch, RecordExternalPayout, PayoutStatus, CommissionStatus
  <2>3. CASE ~\E p \in PayoutIds : PayoutStep(p)
    <3>1. \/ \E o \in Orders : SaleStep(o) \/ DisputeStep(o)
          \/ \E j \in CommissionIds : CommissionStep(j)
          \/ \E due \in SUBSET CommissionIds : SettleHoldingPeriods(due)
          \/ \E a \in Affiliates, amount \in Adjustments : AdjustAffiliateBalance(a, amount)
          \/ UNCHANGED vars
      BY <1>1, <2>3 DEF Next
    <3>2. RowStep(k)
      BY <2>1, <3>1, OtherStep
    <3> QED
      BY <1>1, <3>2 DEF RowStep
  <2> QED
    BY <2>2, <2>3
<1>2. BatchInv /\ [Next]_vars =>
        [\A k \in CommissionIds :
           commissions[k].status = "paid" => commissions'[k] = commissions[k]]_vars
  BY <1>1
<1> QED
  BY <1>2, BatchesCorrect, PTL DEF Spec, PaidIsFinal

\* What the rows and lines of a batch sum up to is no more than what others that are worth as much
\* or more sum up to.
LEMMA CoversNoMore ==
  ASSUME TypeOK, TypeOK', NEW p \in PayoutIds,
         NEW rows \in SUBSET CommissionIds, NEW lines \in SUBSET EntryIds,
         \A k \in CommissionIds : commissions'[k].payout = p <=> k \in rows,
         \A e \in EntryIds : entries'[e].payout = p <=> e \in lines,
         \A k \in rows : \/ commissions'[k].amount = commissions[k].amount
                         \/ commissions'[k].amount < commissions[k].amount,
         \A e \in lines : entries'[e].amount = entries[e].amount
  PROVE  /\ Covered(p)' \in Int /\ TotalOf(rows, lines) \in Int
         /\ Covered(p)' <= TotalOf(rows, lines)
<1> DEFINE c == [k \in CommissionIds |-> commissions[k].amount]
           d == [k \in CommissionIds |-> commissions'[k].amount]
           f == [e \in EntryIds |-> entries[e].amount]
           g == [e \in EntryIds |-> entries'[e].amount]
<1>1. IsFiniteSet(CommissionIds) /\ IsFiniteSet(EntryIds)
  <2>1. 1 \in Int /\ MaxCommissions \in Int /\ MaxEntries \in Int
    BY ConstantsOK
  <2> QED
    BY <2>1, FS_Interval DEF CommissionIds, EntryIds
<1>2. IsFiniteSet(rows) /\ IsFiniteSet(lines)
  BY <1>1, FS_Subset
<1>3. \A k \in rows : c[k] \in Int /\ d[k] \in Int /\ d[k] <= c[k]
  BY DEF TypeOK, CommissionRow
<1>4. \A e \in lines : f[e] \in Int /\ g[e] \in Int /\ g[e] <= f[e]
  BY DEF TypeOK, EntryRow
<1>5. /\ Covered(p)' = SumFunctionOnSet(d, rows) + SumFunctionOnSet(g, lines)
      /\ TotalOf(rows, lines) = SumFunctionOnSet(c, rows) + SumFunctionOnSet(f, lines)
  <2>1. {k \in CommissionIds : commissions'[k].payout = p} = rows
    OBVIOUS
  <2>2. {e \in EntryIds : entries'[e].payout = p} = lines
    OBVIOUS
  <2> QED
    BY <2>1, <2>2 DEF Covered, TotalOf
<1> HIDE DEF c, d, f, g
<1>6. /\ SumFunctionOnSet(c, rows) \in Int /\ SumFunctionOnSet(d, rows) \in Int
      /\ SumFunctionOnSet(d, rows) <= SumFunctionOnSet(c, rows)
  BY <1>2, <1>3, SumOneFirst, SumMonotone
<1>7. /\ SumFunctionOnSet(f, lines) \in Int /\ SumFunctionOnSet(g, lines) \in Int
      /\ SumFunctionOnSet(g, lines) <= SumFunctionOnSet(f, lines)
  BY <1>2, <1>4, SumOneFirst, SumMonotone
<1> QED
  BY <1>5, <1>6, <1>7

\* So a batch whose rows and lines stay, and are worth no more, covers no more than before.
LEMMA CoversStill ==
  ASSUME TypeOK, TypeOK', NEW p \in PayoutIds,
         \A k \in CommissionIds : commissions'[k].payout = p <=> commissions[k].payout = p,
         \A e \in EntryIds : entries'[e].payout = p <=> entries[e].payout = p,
         \A k \in CommissionIds : commissions[k].payout = p =>
           \/ commissions'[k].amount = commissions[k].amount
           \/ commissions'[k].amount < commissions[k].amount,
         \A e \in EntryIds : entries[e].payout = p => entries'[e].amount = entries[e].amount
  PROVE  Covered(p)' \in Int /\ Covered(p) \in Int /\ Covered(p)' <= Covered(p)
<1> DEFINE rows == {k \in CommissionIds : commissions[k].payout = p}
           lines == {e \in EntryIds : entries[e].payout = p}
<1>1. /\ Covered(p)' \in Int /\ TotalOf(rows, lines) \in Int
      /\ Covered(p)' <= TotalOf(rows, lines)
  BY CoversNoMore
<1> QED
  BY <1>1 DEF Covered

\* No step makes a batch short of what it covers.
LEMMA NeverShortStep ==
  ASSUME BatchInv, BatchInv', NeverShort, [Next]_vars
  PROVE  NeverShort'
<1> TypeOK /\ TypeOK'
  BY DEF BatchInv
<1>1. ASSUME NEW p \in PayoutIds, Live(p), payouts'[p].amount = payouts[p].amount,
             Covered(p)' \in Int /\ Covered(p) \in Int /\ Covered(p)' <= Covered(p)
      PROVE  payouts'[p].amount >= Covered(p)'
  <2>1. payouts[p].amount \in Int
    BY DEF TypeOK, PayoutRow
  <2> QED
    BY <1>1, <2>1 DEF NeverShort
<1>2. CASE ~\E p \in PayoutIds : PayoutStep(p)
  <2>1. /\ UNCHANGED payouts
        /\ \A k \in CommissionIds : RowStep(k)
        /\ \A e \in EntryIds : EntryStep(e)
    <3>1. TypeOK /\ FreeUntilPayable /\ RowsOwned
      BY DEF BatchInv
    <3>2. \/ \E o \in Orders : SaleStep(o) \/ DisputeStep(o)
          \/ \E k \in CommissionIds : CommissionStep(k)
          \/ \E due \in SUBSET CommissionIds : SettleHoldingPeriods(due)
          \/ \E a \in Affiliates, amount \in Adjustments : AdjustAffiliateBalance(a, amount)
          \/ UNCHANGED vars
      BY <1>2 DEF Next
    <3> QED
      BY <3>1, <3>2, OtherStep
  <2>2. ASSUME NEW p \in PayoutIds, Live(p)'
        PROVE  payouts'[p].amount >= Covered(p)'
    <3>1. p # NoPayout
      BY DEF PayoutIds, NoPayout
    <3>2. \A k \in CommissionIds : commissions[k].payout = p =>
            \/ commissions'[k].amount = commissions[k].amount
            \/ commissions'[k].amount < commissions[k].amount
      BY <2>1, <3>1 DEF BatchInv, FreeUntilPayable, RowStep
    <3>3. \A e \in EntryIds :
            /\ entries'[e].payout = entries[e].payout
            /\ entries[e].payout = p => entries'[e].amount = entries[e].amount
      BY <2>1, <3>1 DEF BatchInv, UnusedEntriesFree, EntryStep
    <3>4. Covered(p)' \in Int /\ Covered(p) \in Int /\ Covered(p)' <= Covered(p)
      BY <2>1, <3>2, <3>3, CoversStill DEF RowStep
    <3> QED
      BY <1>1, <2>1, <2>2, <3>4 DEF Live
  <2> QED
    BY <2>2 DEF NeverShort
<1>3. ASSUME NEW p \in PayoutIds, NEW a \in Affiliates, NEW i \in BOOLEAN, NEW s, NEW r,
             Batch(p, a, i, s, r)
      PROVE  NeverShort'
  <2> DEFINE rows == PayableRows(a)
             lines == OpenEntries(a)
  <2>1. /\ payouts[p].status = "absent" /\ ~Live(p) /\ p # NoPayout
    <3>1. payouts[p].status = "absent"
      BY <1>3 DEF Batch, FreshPayout
    <3> QED
      BY <3>1 DEF Live, PayoutIds, NoPayout
  <2>2. /\ payouts'[p].amount = TotalOf(rows, lines)
        /\ \A q \in PayoutIds : q # p => payouts'[q] = payouts[q]
    BY <1>3 DEF Batch, TypeOK
  <2>3. /\ \A k \in CommissionIds : commissions[k].payout # p
        /\ \A e \in EntryIds : entries[e].payout # p
    BY <2>1 DEF BatchInv, NothingStranded, Accounted, EntryAccounted
  <2>4. ASSUME NEW k \in CommissionIds
        PROVE  /\ k \in rows => commissions[k].payout = NoPayout /\ commissions'[k].payout = p
               /\ k \notin rows => commissions'[k].payout = commissions[k].payout
               /\ commissions'[k].amount = commissions[k].amount
    <3>1. commissions[k] \in CommissionRow
      BY DEF TypeOK
    <3>2. commissions'[k] = IF k \in rows
                            THEN [commissions[k] EXCEPT !.payout = p, !.status = r]
                            ELSE commissions[k]
      BY <1>3 DEF Batch
    <3> QED
      BY <3>1, <3>2 DEF CommissionRow, PayableRows
  <2>5. ASSUME NEW e \in EntryIds
        PROVE  /\ e \in lines => entries[e].payout = NoPayout /\ entries'[e].payout = p
               /\ e \notin lines => entries'[e].payout = entries[e].payout
               /\ entries'[e].amount = entries[e].amount
    <3>1. entries[e] \in EntryRow
      BY DEF TypeOK
    <3>2. entries'[e] = IF e \in lines THEN [entries[e] EXCEPT !.payout = p] ELSE entries[e]
      BY <1>3 DEF Batch
    <3> QED
      BY <3>1, <3>2 DEF EntryRow, OpenEntries
  <2>6. ASSUME NEW q \in PayoutIds, q # p, Live(q)'
        PROVE  payouts'[q].amount >= Covered(q)'
    <3>1. q # NoPayout
      BY DEF PayoutIds, NoPayout
    <3>2. Covered(q)' \in Int /\ Covered(q) \in Int /\ Covered(q)' <= Covered(q)
      BY <2>4, <2>5, <2>6, <3>1, CoversStill
    <3> QED
      BY <1>1, <2>2, <2>6, <3>2 DEF Live
  <2>7. payouts'[p].amount >= Covered(p)'
    <3>1. rows \in SUBSET CommissionIds /\ lines \in SUBSET EntryIds
      BY DEF PayableRows, OpenEntries
    <3>2. /\ \A k \in CommissionIds : commissions'[k].payout = p <=> k \in rows
          /\ \A e \in EntryIds : entries'[e].payout = p <=> e \in lines
      BY <2>3, <2>4, <2>5
    <3>3. /\ \A k \in rows : commissions'[k].amount = commissions[k].amount
          /\ \A e \in lines : entries'[e].amount = entries[e].amount
      BY <2>4, <2>5, <3>1
    <3> HIDE DEF rows, lines
    <3>4. /\ Covered(p)' \in Int /\ TotalOf(rows, lines) \in Int
          /\ Covered(p)' <= TotalOf(rows, lines)
      BY <3>1, <3>2, <3>3, CoversNoMore
    <3> QED
      BY <2>2, <3>4
  <2> QED
    BY <2>6, <2>7 DEF NeverShort
<1>4. ASSUME NEW p \in PayoutIds,
             MarkPayoutProcessing(p) \/ MarkPayoutFailed(p) \/ MarkPayoutPaid(p)
               \/ CancelPayout(p)
      PROVE  NeverShort'
  <2>1. PICK to \in PayoutMoves[payouts[p].status] :
          /\ payouts' = [payouts EXCEPT ![p].status = to]
          /\ to = "cancelled" \/ ~CancelPayout(p)
    BY <1>4 DEF MarkPayoutProcessing, MarkPayoutFailed, MarkPayoutPaid, CancelPayout, SetPayout
  <2>2. payouts[p].status \in {"draft", "processing", "failed"}
    <3>1. payouts[p].status \in PayoutStatus \cup {"absent"}
      BY DEF TypeOK, PayoutRow
    <3> QED
      BY <2>1, <3>1, PayoutMovesFacts
  <2>3. \A q \in PayoutIds : payouts'[q].amount = payouts[q].amount
    <3>1. \A q \in PayoutIds : payouts[q] \in PayoutRow
      BY DEF TypeOK
    <3> QED
      BY <2>1, <3>1 DEF TypeOK, PayoutRow
  <2>4. \A q \in PayoutIds : Live(q)' => Live(q) /\ (q # p \/ ~CancelPayout(p))
    BY <2>1, <2>2 DEF Live, TypeOK, PayoutRow
  <2>5. ASSUME NEW k \in CommissionIds
        PROVE  /\ commissions'[k].amount = commissions[k].amount
               /\ \/ commissions'[k].payout = commissions[k].payout
                  \/ /\ CancelPayout(p) /\ commissions[k].payout = p
                     /\ commissions'[k].payout = NoPayout
    <3>1. commissions[k] \in CommissionRow
      BY DEF TypeOK
    <3>2. \/ commissions'[k] = commissions[k]
          \/ commissions'[k] = [commissions[k] EXCEPT !.status = "paid"]
          \/ /\ CancelPayout(p) /\ commissions[k].payout = p
             /\ commissions'[k] = [commissions[k] EXCEPT !.payout = NoPayout]
      BY <1>4 DEF MarkPayoutProcessing, MarkPayoutFailed, MarkPayoutPaid, CancelPayout
    <3> QED
      BY <3>1, <3>2 DEF CommissionRow
  <2>6. ASSUME NEW e \in EntryIds
        PROVE  /\ entries'[e].amount = entries[e].amount
               /\ \/ entries'[e].payout = entries[e].payout
                  \/ /\ CancelPayout(p) /\ entries[e].payout = p
                     /\ entries'[e].payout = NoPayout
    <3>1. entries[e] \in EntryRow
      BY DEF TypeOK
    <3>2. \/ entries'[e] = entries[e]
          \/ /\ CancelPayout(p) /\ entries[e].payout = p
             /\ entries'[e] = [entries[e] EXCEPT !.payout = NoPayout]
      BY <1>4 DEF MarkPayoutProcessing, MarkPayoutFailed, MarkPayoutPaid, CancelPayout
    <3> QED
      BY <3>1, <3>2 DEF EntryRow
  <2>7. ASSUME NEW q \in PayoutIds, Live(q)'
        PROVE  payouts'[q].amount >= Covered(q)'
    <3>1. q # NoPayout
      BY DEF PayoutIds, NoPayout
    <3>2. Covered(q)' \in Int /\ Covered(q) \in Int /\ Covered(q)' <= Covered(q)
      <4>1. \A k \in CommissionIds :
              /\ commissions'[k].payout = q <=> commissions[k].payout = q
              /\ commissions'[k].amount = commissions[k].amount
        BY <2>4, <2>5, <2>7, <3>1
      <4>2. \A e \in EntryIds :
              /\ entries'[e].payout = q <=> entries[e].payout = q
              /\ entries'[e].amount = entries[e].amount
        BY <2>4, <2>6, <2>7, <3>1
      <4> QED
        BY <4>1, <4>2, CoversStill
    <3> QED
      BY <1>1, <2>3, <2>4, <2>7, <3>2
  <2> QED
    BY <2>7 DEF NeverShort
<1> QED
  <2>1. CASE \E p \in PayoutIds : PayoutStep(p)
    <3>1. PICK p \in PayoutIds : PayoutStep(p)
      BY <2>1
    <3> QED
      BY <1>3, <1>4, <3>1 DEF PayoutStep, CreatePayoutBatch, RecordExternalPayout
  <2> QED
    BY <1>2, <2>1

\* A live batch never pays less than the rows and lines that point to it sum up to: corrections
\* only ever lower a commission that is in a batch, and a line keeps its amount.
THEOREM NeverShortCorrect == Spec => []NeverShort
<1>1. Init => NeverShort
  BY DEF Init, NeverShort, Live, AbsentPayout
<1>2. BatchInv /\ BatchInv' /\ NeverShort /\ [Next]_vars => NeverShort'
  BY NeverShortStep
<1> QED
  BY <1>1, <1>2, BatchesCorrect, PTL DEF Spec

----------------------------------------------------------------------------
(* What affiliates may count on: Settlement implements Wallets.            *)

\* A commission as its affiliate sees it.
LEMMA EarnedIs ==
  ASSUME TypeOK, NEW k \in CommissionIds
  PROVE  /\ Earned[k] = [of |-> commissions[k].affiliate, stage |-> Stage(k),
                         worth |-> commissions[k].amount, batch |-> commissions[k].payout]
         /\ Earned[k].of = commissions[k].affiliate
         /\ Earned[k].stage = Stage(k)
         /\ Earned[k].batch = commissions[k].payout
         /\ Stage(k) = "none" <=> commissions[k].status = "absent"
         /\ Stage(k) = "held" <=> commissions[k].status \in {"pending", "approved"}
         /\ Stage(k) = "due" <=> commissions[k].status = "payable"
         /\ Stage(k) = "paid" <=> commissions[k].status = "paid"
         /\ Stage(k) = "closed" <=> commissions[k].status \in {"reversed", "void"}
         /\ Stage(k) \in {"none", "held", "due", "paid", "closed"}
<1>1. commissions[k].status \in CommissionStatus \cup {"absent"}
  BY DEF TypeOK, CommissionRow
<1>2. Earned[k] = [of |-> commissions[k].affiliate, stage |-> Stage(k),
                   worth |-> commissions[k].amount, batch |-> commissions[k].payout]
  BY DEF Earned
<1> QED
  BY <1>1, <1>2 DEF Stage, Held, Closed, CommissionStatus

\* A batch as its affiliate sees it.
LEMMA PaidOutIs ==
  ASSUME TypeOK, NEW p \in PayoutIds
  PROVE  /\ PaidOut[p] = [of |-> payouts[p].affiliate, stage |-> PayoutStage(p),
                          amount |-> payouts[p].amount]
         /\ PaidOut[p].stage = PayoutStage(p)
         /\ PayoutStage(p) = "none" <=> payouts[p].status = "absent"
         /\ PayoutStage(p) = "open" <=> payouts[p].status \in {"draft", "processing", "failed"}
         /\ PayoutStage(p) = "paid" <=> payouts[p].status = "paid"
         /\ PayoutStage(p) = "cancelled" <=> payouts[p].status = "cancelled"
<1>1. payouts[p].status \in PayoutStatus \cup {"absent"}
  BY DEF TypeOK, PayoutRow
<1>2. PaidOut[p] = [of |-> payouts[p].affiliate, stage |-> PayoutStage(p),
                    amount |-> payouts[p].amount]
  BY DEF PaidOut
<1> QED
  BY <1>1, <1>2 DEF PayoutStage, PayoutStatus

\* Both modules sum up alike.
LEMMA PromiseSums ==
  ASSUME NEW f, NEW S
  PROVE  Promise!SumFunctionOnSet(f, S) = SumFunctionOnSet(f, S)
BY DEF SumFunctionOnSet, FoldFunctionOnSet, MapThenFoldSet, Promise!SumFunctionOnSet,
       Promise!FoldFunctionOnSet, Promise!MapThenFoldSet

\* What is not paid or drawn changes only as an affiliate may expect.
LEMMA TradeStep ==
  ASSUME BatchInv, TypeOK', UNCHANGED payouts,
         \A k \in CommissionIds : RowStep(k),
         \A e \in EntryIds : EntryStep(e)
  PROVE  Promise!Trade
<1> TypeOK
  BY DEF BatchInv
<1>1. PaidOut' = PaidOut
  BY DEF PaidOut, PayoutStage
<1>2. ASSUME NEW k \in CommissionIds
      PROVE  \/ Earned'[k] = Earned[k]
             \/ Promise!Earn(Earned[k], Earned'[k])
             \/ Promise!Correct(Earned[k], Earned'[k])
  <2>1. /\ Earned[k] = [of |-> commissions[k].affiliate, stage |-> Stage(k),
                        worth |-> commissions[k].amount, batch |-> commissions[k].payout]
        /\ Earned'[k] = [of |-> commissions'[k].affiliate, stage |-> Stage(k)',
                         worth |-> commissions'[k].amount, batch |-> commissions'[k].payout]
    BY DEF Earned
  <2>2. RowStep(k)
    OBVIOUS
  <2>3. commissions'[k].amount \in Nat /\ commissions[k].amount \in Nat
    BY DEF TypeOK, CommissionRow
  <2>4. CASE commissions'[k] = commissions[k]
    BY <2>1, <2>4 DEF Stage, Held, Closed
  <2>5. CASE commissions'[k] # commissions[k] /\ commissions[k].status = "absent"
    <3>1. commissions'[k].status = "pending" /\ commissions'[k].affiliate \in Affiliates
      BY <2>2, <2>5 DEF RowStep
    <3>2. commissions'[k].payout = NoPayout
      BY <2>2, <2>5 DEF RowStep, BatchInv, FreeUntilPayable
    <3>3. Stage(k) = "none" /\ Stage(k)' = "held"
      BY <2>5, <3>1 DEF Stage, Held, Closed
    <3> QED
      BY <2>1, <2>3, <3>1, <3>2, <3>3 DEF Promise!Earn
  <2>6. CASE commissions'[k] # commissions[k] /\ commissions[k].status # "absent"
    <3>1. /\ commissions[k].status \in {"pending", "approved", "payable"}
          /\ commissions'[k].status \in {"pending", "approved", "payable", "reversed", "void"}
      <4>1. /\ commissions[k].status \in CommissionStatus \cup {"absent"}
            /\ commissions'[k].status \in CommissionStatus \cup {"absent"}
        BY DEF TypeOK, CommissionRow
      <4> QED
        BY <2>2, <2>6, <4>1 DEF RowStep, CommissionStatus
    <3>2. Stage(k) = IF commissions[k].status = "payable" THEN "due" ELSE "held"
      BY <3>1 DEF Stage, Held, Closed
    <3>3. Stage(k)' = IF commissions'[k].status = "payable" THEN "due"
                      ELSE IF commissions'[k].status \in {"pending", "approved"} THEN "held"
                      ELSE "closed"
      BY <3>1 DEF Stage, Held, Closed
    <3>4. /\ commissions'[k].affiliate = commissions[k].affiliate
          /\ commissions'[k].payout = commissions[k].payout
          /\ commissions'[k].amount <= commissions[k].amount
          /\ commissions'[k].status \in {"reversed", "void"} => commissions'[k].amount = 0
          /\ commissions[k].status = "payable"
               => commissions'[k].status \in {"payable", "reversed", "void"}
      BY <2>2, <2>3, <2>6, <3>1 DEF RowStep
    <3>5. commissions'[k].amount \in 0..commissions[k].amount
      BY <2>3, <3>4
    <3> QED
      BY <2>1, <3>1, <3>2, <3>3, <3>4, <3>5 DEF Promise!Correct
  <2> QED
    BY <2>4, <2>5, <2>6
<1>3. ASSUME NEW e \in EntryIds
      PROVE  OtherLines'[e] = OtherLines[e] \/ Promise!Book(OtherLines[e], OtherLines'[e])
  <2>1. EntryStep(e)
    OBVIOUS
  <2>2. entries[e].type = "absent" => entries[e].affiliate = Null
    BY DEF BatchInv, UnusedEntriesFree
  <2> QED
    BY <2>1, <2>2 DEF OtherLines, EntryStep, Promise!Book
<1> QED
  BY <1>1, <1>2, <1>3 DEF Promise!Trade

\* A new batch draws all that is due to an affiliate, and all its lines.
LEMMA DrawStep ==
  ASSUME BatchInv, NEW p \in PayoutIds, NEW a \in Affiliates, NEW i \in BOOLEAN,
         NEW paid \in BOOLEAN,
         Batch(p, a, i, IF paid THEN "paid" ELSE "draft", IF paid THEN "paid" ELSE "payable")
  PROVE  Promise!Draw(p, a, paid)
<1> DEFINE rows == PayableRows(a)
           lines == OpenEntries(a)
           s == IF paid THEN "paid" ELSE "draft"
           r == IF paid THEN "paid" ELSE "payable"
<1> TypeOK
  BY DEF BatchInv
<1>1. rows = Promise!Due(a)
  <2>1. ASSUME NEW k \in CommissionIds
        PROVE  k \in rows <=> /\ Earned[k].of = a /\ Earned[k].stage = "due"
                              /\ Earned[k].batch = NoPayout
    BY EarnedIs DEF PayableRows, BatchInv, RowsOwned
  <2> QED
    BY <2>1 DEF Promise!Due, PayableRows
<1>2. lines = Promise!Open(a)
  BY DEF OpenEntries, OtherLines, Promise!Open
<1>3. TotalOf(rows, lines) = Promise!Sum(a)
  <2>1. [k \in CommissionIds |-> commissions[k].amount] = [k \in CommissionIds |-> Earned[k].worth]
    BY DEF Earned
  <2>2. [e \in EntryIds |-> entries[e].amount] = [e \in EntryIds |-> OtherLines[e].worth]
    BY DEF OtherLines
  <2> QED
    BY <1>1, <1>2, <2>1, <2>2, PromiseSums DEF TotalOf, Promise!Sum
<1>4. Promise!Sum(a) > 0
  <2>1. TotalOf(rows, lines) \in Nat \ {0}
    BY Zenon DEF Batch
  <2> HIDE DEF rows, lines
  <2> QED
    BY <1>3, <2>1
<1>5. payouts[p].status = "absent" /\ PaidOut[p].stage = "none"
  <2>1. payouts[p].status = "absent"
    BY DEF Batch, FreshPayout
  <2> QED
    BY <2>1, PaidOutIs
<1>6. PaidOut' = [PaidOut EXCEPT ![p] =
        [of |-> a, stage |-> IF paid THEN "paid" ELSE "open", amount |-> Promise!Sum(a)]]
  <2>1. /\ payouts'[p].status = s /\ payouts'[p].affiliate = a
        /\ payouts'[p].amount = Promise!Sum(a)
        /\ \A q \in PayoutIds : q # p => payouts'[q] = payouts[q]
    BY <1>3 DEF Batch, TypeOK
  <2>2. PayoutStage(p)' = IF paid THEN "paid" ELSE "open"
    BY <2>1 DEF PayoutStage
  <2>3. \A q \in PayoutIds : q # p => PayoutStage(q)' = PayoutStage(q)
    BY <2>1 DEF PayoutStage
  <2> QED
    BY <2>1, <2>2, <2>3 DEF PaidOut
<1>7. Earned' = [k \in CommissionIds |->
        IF k \in rows
        THEN [of |-> a, stage |-> IF paid THEN "paid" ELSE "due", worth |-> Earned[k].worth,
              batch |-> p]
        ELSE Earned[k]]
  <2>1. ASSUME NEW k \in CommissionIds
        PROVE  Earned'[k] = IF k \in rows
                            THEN [of |-> a, stage |-> IF paid THEN "paid" ELSE "due",
                                  worth |-> Earned[k].worth, batch |-> p]
                            ELSE Earned[k]
    <3>1. commissions[k] \in CommissionRow
      BY DEF TypeOK
    <3>2. Earned'[k] = [of |-> commissions'[k].affiliate, stage |-> Stage(k)',
                        worth |-> commissions'[k].amount, batch |-> commissions'[k].payout]
      BY DEF Earned
    <3>3. CASE k \in rows
      <4>1. commissions'[k] = [commissions[k] EXCEPT !.payout = p, !.status = r]
        BY <3>3 DEF Batch
      <4>2. /\ commissions'[k].status = r /\ commissions'[k].payout = p
            /\ commissions'[k].affiliate = commissions[k].affiliate
            /\ commissions'[k].amount = commissions[k].amount
        BY <3>1, <4>1 DEF CommissionRow
      <4>3. Stage(k)' = IF paid THEN "paid" ELSE "due"
        BY <4>2 DEF Stage, Held, Closed
      <4>4. Earned[k].worth = commissions[k].amount
        BY DEF Earned
      <4>5. commissions[k].affiliate = a
        BY <3>3 DEF PayableRows
      <4> HIDE DEF rows, r
      <4> QED
        BY <3>2, <3>3, <4>2, <4>3, <4>4, <4>5
    <3>4. CASE k \notin rows
      <4>1. commissions'[k] = commissions[k]
        BY <3>4 DEF Batch
      <4> QED
        BY <3>4, <4>1 DEF Earned, Stage, Held, Closed
    <3> QED
      BY <3>3, <3>4
  <2> HIDE DEF rows
  <2> QED
    BY <2>1 DEF Earned
<1>8. OtherLines' = [e \in EntryIds |->
        IF e \in lines THEN [OtherLines[e] EXCEPT !.batch = p] ELSE OtherLines[e]]
  <2>1. ASSUME NEW e \in EntryIds
        PROVE  OtherLines'[e] = IF e \in lines THEN [OtherLines[e] EXCEPT !.batch = p]
                                ELSE OtherLines[e]
    <3>1. entries[e] \in EntryRow
      BY DEF TypeOK
    <3>2. entries'[e] = IF e \in lines THEN [entries[e] EXCEPT !.payout = p] ELSE entries[e]
      BY DEF Batch
    <3> HIDE DEF lines
    <3> QED
      BY <3>1, <3>2 DEF OtherLines, EntryRow
  <2> HIDE DEF lines
  <2> QED
    BY <2>1 DEF OtherLines
<1> HIDE DEF rows, lines, s, r
<1> QED
  BY <1>1, <1>2, <1>4, <1>5, <1>6, <1>7, <1>8 DEF Promise!Draw

\* A batch that is paid pays what it holds, and a cancelled one gives everything back; a batch on
\* its way is as it was.
LEMMA MoveStep ==
  ASSUME BatchInv, NEW p \in PayoutIds,
         MarkPayoutProcessing(p) \/ MarkPayoutFailed(p) \/ MarkPayoutPaid(p) \/ CancelPayout(p)
  PROVE  Promise!Pay(p) \/ Promise!Release(p) \/ UNCHANGED Promise!vars
<1> TypeOK
  BY DEF BatchInv
<1>1. PICK t \in {"processing", "failed", "paid", "cancelled"} :
        /\ SetPayout(p, t)
        /\ MarkPayoutPaid(p) => t = "paid"
        /\ CancelPayout(p) => t = "cancelled"
        /\ MarkPayoutProcessing(p) \/ MarkPayoutFailed(p) => t \in {"processing", "failed"}
  <2>1. payouts[p] \in PayoutRow
    BY DEF TypeOK
  <2>2. \A t, u : SetPayout(p, t) /\ SetPayout(p, u) => t = u
    BY <2>1 DEF SetPayout, TypeOK, PayoutRow
  <2> QED
    BY <2>2 DEF MarkPayoutProcessing, MarkPayoutFailed, MarkPayoutPaid, CancelPayout
<1>2. payouts[p].status \in {"draft", "processing", "failed"} /\ PaidOut[p].stage = "open"
  <2>1. payouts[p].status \in PayoutStatus \cup {"absent"}
    BY DEF TypeOK, PayoutRow
  <2>2. payouts[p].status \in {"draft", "processing", "failed"}
    BY <1>1, <2>1, PayoutMovesFacts DEF SetPayout
  <2> QED
    BY <2>2, PaidOutIs
<1>3. /\ payouts'[p].status = t /\ payouts'[p].affiliate = payouts[p].affiliate
      /\ payouts'[p].amount = payouts[p].amount
      /\ \A q \in PayoutIds : q # p => payouts'[q] = payouts[q]
  BY <1>1 DEF SetPayout, TypeOK, PayoutRow
<1>4. PayoutStage(p)' = IF t \in {"paid", "cancelled"} THEN t ELSE "open"
  BY <1>3 DEF PayoutStage
<1>5. PaidOut' = [PaidOut EXCEPT ![p].stage = IF t \in {"paid", "cancelled"} THEN t ELSE "open"]
  <2>1. \A q \in PayoutIds : q # p => PayoutStage(q)' = PayoutStage(q)
    BY <1>3 DEF PayoutStage
  <2> QED
    BY <1>3, <1>4, <2>1 DEF PaidOut
<1>6. CASE MarkPayoutProcessing(p) \/ MarkPayoutFailed(p)
  <2>1. UNCHANGED <<commissions, entries>> /\ t \in {"processing", "failed"}
    BY <1>1, <1>6 DEF MarkPayoutProcessing, MarkPayoutFailed
  <2>2. Earned' = Earned /\ OtherLines' = OtherLines
    BY <2>1 DEF Earned, OtherLines, Stage, Held, Closed
  <2>3. PaidOut' = PaidOut
    <3>1. PayoutStage(p) = "open"
      BY <1>2 DEF PayoutStage
    <3>2. \A q \in PayoutIds :
            /\ payouts'[q].affiliate = payouts[q].affiliate
            /\ payouts'[q].amount = payouts[q].amount
            /\ PayoutStage(q)' = PayoutStage(q)
      BY <1>3, <1>4, <2>1, <3>1 DEF PayoutStage
    <3> QED
      BY <3>2 DEF PaidOut
  <2> QED
    BY <2>2, <2>3 DEF Promise!vars
<1>7. CASE MarkPayoutPaid(p)
  <2>1. t = "paid" /\ UNCHANGED entries
    BY <1>1, <1>7 DEF MarkPayoutPaid
  <2>2. ASSUME NEW k \in CommissionIds
        PROVE  Earned'[k] = IF Earned[k].batch = p /\ Earned[k].stage = "due"
                            THEN [Earned[k] EXCEPT !.stage = "paid"] ELSE Earned[k]
    <3>1. commissions[k] \in CommissionRow
      BY DEF TypeOK
    <3>2. CASE commissions[k].payout = p /\ commissions[k].status = "payable"
      <4>1. commissions'[k] = [commissions[k] EXCEPT !.status = "paid"]
        BY <1>7, <3>2 DEF MarkPayoutPaid
      <4>2. /\ commissions'[k].status = "paid"
            /\ commissions'[k].payout = commissions[k].payout
            /\ commissions'[k].affiliate = commissions[k].affiliate
            /\ commissions'[k].amount = commissions[k].amount
        BY <3>1, <4>1 DEF CommissionRow
      <4>3. Stage(k)' = "paid"
        BY <4>2 DEF Stage, Held, Closed
      <4>4. Earned'[k] = [of |-> commissions'[k].affiliate, stage |-> Stage(k)',
                          worth |-> commissions'[k].amount, batch |-> commissions'[k].payout]
        BY DEF Earned
      <4>5. Stage(k) = "due"
        BY <3>2 DEF Stage, Held, Closed
      <4>6. Earned[k] = [of |-> commissions[k].affiliate, stage |-> Stage(k),
                         worth |-> commissions[k].amount, batch |-> commissions[k].payout]
        BY DEF Earned
      <4> QED
        BY <3>2, <4>2, <4>3, <4>4, <4>5, <4>6
    <3>3. CASE ~(commissions[k].payout = p /\ commissions[k].status = "payable")
      <4>1. commissions'[k] = commissions[k]
        BY <1>7, <3>3 DEF MarkPayoutPaid
      <4>2. Earned'[k] = Earned[k]
        BY <4>1 DEF Earned, Stage, Held, Closed
      <4> QED
        BY <3>3, <4>2, EarnedIs
    <3> QED
      BY <3>2, <3>3
  <2>3. Earned' = [k \in CommissionIds |->
          IF Earned[k].batch = p /\ Earned[k].stage = "due"
          THEN [Earned[k] EXCEPT !.stage = "paid"] ELSE Earned[k]]
    BY <2>2 DEF Earned
  <2>4. OtherLines' = OtherLines
    BY <2>1 DEF OtherLines
  <2> QED
    BY <1>2, <1>5, <2>1, <2>3, <2>4 DEF Promise!Pay
<1>8. CASE CancelPayout(p)
  <2>1. t = "cancelled"
    BY <1>1, <1>8
  <2>2. ASSUME NEW k \in CommissionIds
        PROVE  Earned'[k] = IF Earned[k].batch = p THEN [Earned[k] EXCEPT !.batch = NoPayout]
                            ELSE Earned[k]
    <3>1. commissions[k] \in CommissionRow
      BY DEF TypeOK
    <3>2. CASE commissions[k].payout = p
      <4>1. commissions'[k] = [commissions[k] EXCEPT !.payout = NoPayout]
        BY <1>8, <3>2 DEF CancelPayout
      <4>2. /\ commissions'[k].status = commissions[k].status
            /\ commissions'[k].payout = NoPayout
            /\ commissions'[k].affiliate = commissions[k].affiliate
            /\ commissions'[k].amount = commissions[k].amount
        BY <3>1, <4>1 DEF CommissionRow
      <4>3. Stage(k)' = Stage(k)
        BY <4>2 DEF Stage, Held, Closed
      <4>4. Earned'[k] = [of |-> commissions'[k].affiliate, stage |-> Stage(k)',
                          worth |-> commissions'[k].amount, batch |-> commissions'[k].payout]
        BY DEF Earned
      <4>5. Earned[k] = [of |-> commissions[k].affiliate, stage |-> Stage(k),
                         worth |-> commissions[k].amount, batch |-> commissions[k].payout]
        BY DEF Earned
      <4> QED
        BY <3>2, <4>2, <4>3, <4>4, <4>5
    <3>3. CASE commissions[k].payout # p
      <4>1. commissions'[k] = commissions[k]
        BY <1>8, <3>3 DEF CancelPayout
      <4>2. Earned'[k] = Earned[k]
        BY <4>1 DEF Earned, Stage, Held, Closed
      <4> QED
        BY <3>3, <4>2, EarnedIs
    <3> QED
      BY <3>2, <3>3
  <2>3. Earned' = [k \in CommissionIds |->
          IF Earned[k].batch = p THEN [Earned[k] EXCEPT !.batch = NoPayout] ELSE Earned[k]]
    BY <2>2 DEF Earned
  <2>4. OtherLines' = [e \in EntryIds |->
          IF OtherLines[e].batch = p THEN [OtherLines[e] EXCEPT !.batch = NoPayout]
          ELSE OtherLines[e]]
    <3>1. ASSUME NEW e \in EntryIds
          PROVE  OtherLines'[e] = IF OtherLines[e].batch = p
                                  THEN [OtherLines[e] EXCEPT !.batch = NoPayout]
                                  ELSE OtherLines[e]
      <4>1. entries[e] \in EntryRow
        BY DEF TypeOK
      <4>2. entries'[e] = IF entries[e].payout = p THEN [entries[e] EXCEPT !.payout = NoPayout]
                          ELSE entries[e]
        BY <1>8 DEF CancelPayout
      <4> QED
        BY <4>1, <4>2 DEF OtherLines, EntryRow
    <3> QED
      BY <3>1 DEF OtherLines
  <2> QED
    BY <1>2, <1>5, <2>1, <2>3, <2>4 DEF Promise!Release
<1> QED
  BY <1>6, <1>7, <1>8

\* Whatever calls come in whatever order, the money of an affiliate only moves as Wallets says: a
\* commission is corrected downwards until it is paid and then stays, what is taken back or given
\* is a line that stays, a batch draws all that is due and is paid or given back as a whole.
THEOREM PromiseKept == Spec => KeepsPromise
<1>1. Init => Promise!Init
  <2> SUFFICES ASSUME Init
               PROVE  Promise!Init
    OBVIOUS
  <2>1. /\ \A k \in CommissionIds : commissions[k] = AbsentCommission
        /\ \A e \in EntryIds : entries[e] = AbsentEntry
        /\ \A p \in PayoutIds : payouts[p] = AbsentPayout
    BY DEF Init
  <2>2. Earned = [k \in CommissionIds |->
                    [of |-> Null, stage |-> "none", worth |-> 0, batch |-> NoPayout]]
    BY <2>1 DEF Earned, Stage, Held, Closed, AbsentCommission
  <2>3. OtherLines = [e \in EntryIds |-> [of |-> Null, worth |-> 0, batch |-> NoPayout]]
    BY <2>1 DEF OtherLines, AbsentEntry
  <2>4. PaidOut = [p \in PayoutIds |-> [of |-> Null, stage |-> "none", amount |-> 0]]
    BY <2>1 DEF PaidOut, PayoutStage, AbsentPayout
  <2> QED
    BY <2>2, <2>3, <2>4 DEF Promise!Init
<1>2. BatchInv /\ BatchInv' /\ [Next]_vars => [Promise!Next]_(Promise!vars)
  <2> SUFFICES ASSUME BatchInv, BatchInv', [Next]_vars
               PROVE  [Promise!Next]_(Promise!vars)
    OBVIOUS
  <2>1. CASE ~\E p \in PayoutIds : PayoutStep(p)
    <3>1. TypeOK /\ TypeOK' /\ FreeUntilPayable /\ RowsOwned
      BY DEF BatchInv
    <3>2. \/ \E o \in Orders : SaleStep(o) \/ DisputeStep(o)
          \/ \E k \in CommissionIds : CommissionStep(k)
          \/ \E due \in SUBSET CommissionIds : SettleHoldingPeriods(due)
          \/ \E a \in Affiliates, amount \in Adjustments : AdjustAffiliateBalance(a, amount)
          \/ UNCHANGED vars
      BY <2>1 DEF Next
    <3>3. /\ \A k \in CommissionIds : RowStep(k)
          /\ \A e \in EntryIds : EntryStep(e)
          /\ UNCHANGED payouts
      BY <3>1, <3>2, OtherStep
    <3>4. Promise!Trade
      BY <3>1, <3>3, TradeStep
    <3> QED
      BY <3>4 DEF Promise!Next
  <2>2. ASSUME NEW p \in PayoutIds, PayoutStep(p)
        PROVE  [Promise!Next]_(Promise!vars)
    <3>1. CASE \E a \in Affiliates, i \in BOOLEAN : CreatePayoutBatch(p, a, i)
      <4>1. PICK a \in Affiliates, i \in BOOLEAN : Batch(p, a, i, "draft", "payable")
        BY <3>1 DEF CreatePayoutBatch
      <4>2. Promise!Draw(p, a, FALSE)
        <5>1. Batch(p, a, i, IF FALSE THEN "paid" ELSE "draft", IF FALSE THEN "paid" ELSE "payable")
          BY <4>1
        <5> QED
          BY <5>1, DrawStep
      <4> QED
        BY <4>2 DEF Promise!Next
    <3>2. CASE \E a \in Affiliates : RecordExternalPayout(p, a)
      <4>1. PICK a \in Affiliates : Batch(p, a, TRUE, "paid", "paid")
        BY <3>2 DEF RecordExternalPayout
      <4>2. Promise!Draw(p, a, TRUE)
        <5>1. Batch(p, a, TRUE, IF TRUE THEN "paid" ELSE "draft", IF TRUE THEN "paid" ELSE "payable")
          BY <4>1
        <5> QED
          BY <5>1, DrawStep
      <4> QED
        BY <4>2 DEF Promise!Next
    <3>3. CASE MarkPayoutProcessing(p) \/ MarkPayoutFailed(p) \/ MarkPayoutPaid(p)
               \/ CancelPayout(p)
      BY <3>3, MoveStep DEF Promise!Next
    <3> QED
      BY <2>2, <3>1, <3>2, <3>3 DEF PayoutStep
  <2> QED
    BY <2>1, <2>2
<1> QED
  BY <1>1, <1>2, BatchesCorrect, PTL DEF Spec, KeepsPromise, Promise!Spec

----------------------------------------------------------------------------
(* The ledger and the history of a sale.                                   *)

\* Rows are used in order, and only rows in use have an order, one that was recorded.
RowsInOrder ==
  \A k \in CommissionIds :
    IF commissions[k].status = "absent"
    THEN /\ commissions[k].order = Null
         /\ \A j \in CommissionIds : k < j => commissions[j].status = "absent"
    ELSE /\ commissions[k].order \in Orders
         /\ conversions[commissions[k].order].status # "absent"

\* The inductive invariant of the commissions of a sale.
HistoryInv == TypeOK /\ RowsInOrder /\ OnlyLatestIsOpen /\ LedgerMatchesRows

\* How a call that takes no new row into use may change a commission: it keeps its sale, a closed
\* row stays closed, and the ledger follows the amount.
KeptRow(k) ==
  /\ commissions'[k].order = commissions[k].order
  /\ commissions'[k].status = "absent" <=> commissions[k].status = "absent"
  /\ commissions[k].status \in {"reversed", "void"}
       => commissions'[k].status \in {"reversed", "void"}
  /\ Balanced(k) => Balanced(k)'

\* Sales are never removed.
SalesKept ==
  \A o \in Orders : conversions[o].status # "absent" => conversions'[o].status # "absent"

\* Reversing a row keeps every row.
LEMMA ReverseRowKept ==
  ASSUME TypeOK, NEW k \in CommissionIds, NEW to \in {"reversed", "void"},
         ReverseCommissionRow(k, to)
  PROVE  \A j \in CommissionIds : KeptRow(j)
<1>1. CASE UNCHANGED <<commissions, credited>>
  BY <1>1 DEF KeptRow, Balanced, Closed
<1>2. CASE Clawback(k, commissions[k].amount)
  BY <1>1, <1>2 DEF Clawback
<1>3. CASE CloseRow(k, to)
  <2> DEFINE row == [commissions[k] EXCEPT !.status = to, !.amount = 0]
  <2>1. /\ commissions[k] \in CommissionRow
        /\ commissions[k].status \in CommissionStatus \cup {"absent"}
        /\ commissions[k].amount \in Nat
        /\ credited[k] \in Int
    BY DEF TypeOK, CommissionRow
  <2>2. commissions[k].status \in {"pending", "approved", "payable"}
    BY <1>3, <2>1, CommissionMovesFacts DEF CloseRow
  <2>3. /\ commissions' = [commissions EXCEPT ![k] = row]
        /\ credited' = [credited EXCEPT ![k] = credited[k] - commissions[k].amount]
    BY <1>3 DEF CloseRow
  <2>4. /\ row.status = to
        /\ row.amount = 0
        /\ row.order = commissions[k].order
    BY <2>1 DEF CommissionRow
  <2> HIDE DEF row
  <2> QED
    BY <2>1, <2>2, <2>3, <2>4 DEF KeptRow, Balanced, Closed, TypeOK
<1> QED
  BY <1>1, <1>2, <1>3 DEF ReverseCommissionRow

\* So does reducing one.
LEMMA ReduceRowKept ==
  ASSUME TypeOK, NEW k \in CommissionIds, NEW n \in Nat, ReduceCommissionRow(k, n)
  PROVE  \A j \in CommissionIds : KeptRow(j)
<1>1. CASE UNCHANGED <<commissions, credited>>
  BY <1>1 DEF KeptRow, Balanced, Closed
<1>2. CASE ReverseCommissionRow(k, "reversed")
  BY <1>2, ReverseRowKept
<1>3. CASE Clawback(k, commissions[k].amount - n)
  BY <1>1, <1>3 DEF Clawback
<1>4. CASE ~Closed(k) /\ ShrinkRow(k, n)
  <2> DEFINE row == [commissions[k] EXCEPT !.amount = n]
  <2>1. /\ commissions[k] \in CommissionRow
        /\ commissions[k].amount \in Nat
        /\ credited[k] \in Int
    BY DEF TypeOK, CommissionRow
  <2>2. /\ commissions' = [commissions EXCEPT ![k] = row]
        /\ credited' = [credited EXCEPT ![k] = credited[k] + n - commissions[k].amount]
    BY <1>4 DEF ShrinkRow
  <2>3. /\ row.status = commissions[k].status
        /\ row.amount = n
        /\ row.order = commissions[k].order
    BY <2>1 DEF CommissionRow
  <2> HIDE DEF row
  <2> QED
    BY <1>4, <2>1, <2>2, <2>3 DEF KeptRow, Balanced, Closed, TypeOK
<1> QED
  BY <1>1, <1>2, <1>3, <1>4 DEF ReduceCommissionRow

\* A change of status among open statuses, or of the batch, keeps a row.
LEMMA OpenMoveKept ==
  ASSUME NEW k \in CommissionIds, UNCHANGED credited,
         commissions'[k].order = commissions[k].order,
         commissions'[k].amount = commissions[k].amount,
         \/ commissions'[k].status = commissions[k].status
         \/ /\ commissions[k].status \in {"pending", "approved", "payable"}
            /\ commissions'[k].status \in {"approved", "payable", "paid"}
  PROVE  KeptRow(k)
BY DEF KeptRow, Balanced, Closed

\* Every call but a new sale or a reattribution keeps every row.
LEMMA KeptStep ==
  ASSUME TypeOK, [Next]_vars,
         ~\E o \in Orders, a \in Affiliates, amount \in SaleAmounts, earned \in Earnings,
             test \in TestModes : RecordConversion(o, a, amount, earned, test),
         ~\E o \in Orders, a \in Affiliates \cup {Null}, earned \in Earnings, test \in TestModes,
             s \in ConversionStatus, d \in {"none", "approved", "other"} :
             ReattributeInto(o, a, earned, test, s, d)
  PROVE  SalesKept /\ \A k \in CommissionIds : KeptRow(k)
<1>1. \A o \in Orders : /\ conversions[o] \in ConversionRow
                        /\ conversions[o].status \in ConversionStatus \cup {"absent"}
                        /\ conversions[o].dispute \in {"none", "approved", "other"}
  BY DEF TypeOK, ConversionRow
<1>2. \A k \in CommissionIds : /\ commissions[k] \in CommissionRow
                              /\ commissions[k].status \in CommissionStatus \cup {"absent"}
  BY DEF TypeOK, CommissionRow
<1>3. ASSUME UNCHANGED <<commissions, credited>>
      PROVE  \A k \in CommissionIds : KeptRow(k)
  BY <1>3 DEF KeptRow, Balanced, Closed
<1>4. ASSUME NEW o \in Orders, NEW row, row.status # "absent",
             conversions' = [conversions EXCEPT ![o] = row]
      PROVE  SalesKept
  BY <1>4 DEF SalesKept, TypeOK
<1>5. ASSUME UNCHANGED conversions
      PROVE  SalesKept
  BY <1>5 DEF SalesKept
<1>6. ASSUME NEW o \in Orders, NEW d, CancelInto(o, d)
      PROVE  SalesKept /\ \A k \in CommissionIds : KeptRow(k)
  <2> DEFINE row == [conversions[o] EXCEPT !.status = "cancelled", !.dispute = d]
  <2>1. conversions' = [conversions EXCEPT ![o] = row] /\ row.status = "cancelled"
    BY <1>1, <1>6 DEF CancelInto, ConversionRow
  <2> HIDE DEF row
  <2>2. SalesKept
    BY <1>4, <2>1
  <2> QED
    BY <1>6, <2>2, ReverseRowKept DEF CancelInto
<1>7. ASSUME NEW o \in Orders, SaleStep(o)
      PROVE  SalesKept /\ \A k \in CommissionIds : KeptRow(k)
  <2>1. CASE \E refund \in Refundable(o), policy \in Policies : RefundConversion(o, refund, policy)
    <3>1. PICK refund \in Refundable(o), policy \in Policies : RefundConversion(o, refund, policy)
      BY <2>1
    <3> DEFINE row == [conversions[o] EXCEPT !.status = "refunded",
                                             !.refunded = conversions[o].refunded + refund]
    <3>2. conversions' = [conversions EXCEPT ![o] = row] /\ row.status = "refunded"
      BY <1>1, <3>1 DEF RefundConversion, ConversionRow
    <3> HIDE DEF row
    <3>3. SalesKept
      BY <1>4, <3>2
    <3> QED
      BY <1>3, <3>1, <3>3, RefundCases, ReverseRowKept, ReduceRowKept
  <2>2. CASE CancelConversion(o)
    BY <1>6, <2>2 DEF CancelConversion
  <2>3. ASSUME NEW to \in {"approved", "disputed"}, SetConversion(o, to)
        PROVE  SalesKept
    <3> DEFINE row == [conversions[o] EXCEPT !.status = to]
    <3>1. conversions' = [conversions EXCEPT ![o] = row] /\ row.status # "absent"
      BY <1>1, <2>3 DEF SetConversion, ConversionRow
    <3> HIDE DEF row
    <3> QED
      BY <1>4, <3>1
  <2>4. CASE ApproveConversion(o) \/ DisputeConversion(o)
    BY <1>3, <2>3, <2>4 DEF ApproveConversion, DisputeConversion
  <2>5. ~\E a \in Affiliates \cup {Null}, earned \in Earnings, test \in TestModes :
           ReattributeConversion(o, a, earned, test)
    <3>1. ASSUME NEW a \in Affiliates \cup {Null}, NEW earned \in Earnings, NEW test \in TestModes
          PROVE  ~ReattributeConversion(o, a, earned, test)
      <4>1. CASE conversions[o].status = "absent"
        BY <4>1 DEF ReattributeConversion, ReattributeInto
      <4>2. CASE conversions[o].status \in ConversionStatus
        BY <1>1, <4>2 DEF ReattributeConversion
      <4> QED
        BY <1>1, <4>1, <4>2
    <3> QED
      BY <3>1
  <2> QED
    BY <1>7, <2>1, <2>2, <2>4, <2>5 DEF SaleStep
<1>8. ASSUME NEW o \in Orders, DisputeStep(o)
      PROVE  SalesKept /\ \A k \in CommissionIds : KeptRow(k)
  <2>1. CASE OpenDispute(o)
    <3> DEFINE s == IF conversions[o].status \in {"pending", "approved"} THEN "disputed"
                    ELSE conversions[o].status
               d == IF conversions[o].status = "approved" THEN "approved" ELSE "other"
               row == [conversions[o] EXCEPT !.status = s, !.dispute = d]
    <3>1. s # "absent"
      BY <2>1 DEF OpenDispute
    <3>2. conversions' = [conversions EXCEPT ![o] = row]
      BY <2>1 DEF OpenDispute
    <3>3. row.status = s
      <4> HIDE DEF s, d
      <4> QED
        BY <1>1 DEF ConversionRow
    <3> HIDE DEF s, row
    <3>4. SalesKept
      BY <1>4, <3>1, <3>2, <3>3
    <3> QED
      BY <1>3, <2>1, <3>4 DEF OpenDispute
  <2>2. CASE RestoreSale(o)
    <3>1. Released(o) = "absent" => conversions[o].status = "absent"
      BY DEF Released
    <3>2. /\ conversions'[o].status = Released(o)
          /\ \A x \in Orders : x # o => conversions'[x] = conversions[x]
      BY <1>1, <2>2 DEF RestoreSale, ConversionRow, TypeOK
    <3> QED
      BY <1>3, <2>2, <3>1, <3>2 DEF RestoreSale, SalesKept
  <2>3. CASE ResolveByCancelling(o)
    BY <1>6, <2>3 DEF ResolveByCancelling
  <2>4. ~\E a \in Affiliates, earned \in Earnings, test \in TestModes :
           ResolveByReattributing(o, a, earned, test)
    <3>1. ASSUME NEW a \in Affiliates, NEW earned \in Earnings, NEW test \in TestModes
          PROVE  ~ResolveByReattributing(o, a, earned, test)
      <4>1. CASE conversions[o].status = "absent"
        BY <4>1 DEF ResolveByReattributing, ReattributeInto
      <4>2. CASE conversions[o].status \in ConversionStatus
        <5>1. Released(o) \in ConversionStatus
          BY <4>2 DEF Released, ConversionStatus
        <5> QED
          BY <5>1 DEF ResolveByReattributing
      <4> QED
        BY <1>1, <4>1, <4>2
    <3> QED
      BY <3>1
  <2> QED
    BY <1>8, <2>1, <2>2, <2>3, <2>4 DEF DisputeStep
<1>9. \A orders : conversions' = Sold(orders) => SalesKept
  <2>1. \A o \in Orders : [conversions[o] EXCEPT !.status = "approved"].status = "approved"
    BY <1>1 DEF ConversionRow
  <2> QED
    BY <2>1 DEF Sold, SalesKept
<1>10. ASSUME NEW k \in CommissionIds, NEW t \in {"approved", "payable"},
              t \in CommissionMoves[commissions[k].status], UNCHANGED credited,
              commissions' = [commissions EXCEPT ![k].status = t]
       PROVE  \A j \in CommissionIds : KeptRow(j)
  <2>1. commissions[k].status \in {"pending", "approved"}
    BY <1>2, <1>10, CommissionMovesFacts
  <2>2. \A j \in CommissionIds :
          /\ commissions'[j].order = commissions[j].order
          /\ commissions'[j].amount = commissions[j].amount
          /\ commissions'[j].status = IF j = k THEN t ELSE commissions[j].status
    BY <1>2, <1>10 DEF TypeOK, CommissionRow
  <2> QED
    BY <1>10, <2>1, <2>2, OpenMoveKept
<1>11. ASSUME NEW k \in CommissionIds, CommissionStep(k)
       PROVE  SalesKept /\ \A j \in CommissionIds : KeptRow(j)
  <2>1. CASE ApproveCommission(k)
    BY <1>5, <1>10, <2>1 DEF ApproveCommission
  <2>2. CASE ReleaseCommission(k)
    BY <1>9, <1>10, <2>2 DEF ReleaseCommission
  <2>3. CASE ReverseCommission(k)
    BY <1>5, <2>3, ReverseRowKept DEF ReverseCommission
  <2> QED
    BY <1>11, <2>1, <2>2, <2>3 DEF CommissionStep
<1>12. ASSUME NEW due \in SUBSET CommissionIds, SettleHoldingPeriods(due)
       PROVE  SalesKept /\ \A k \in CommissionIds : KeptRow(k)
  <2>1. ASSUME NEW k \in CommissionIds
        PROVE  /\ commissions'[k].order = commissions[k].order
               /\ commissions'[k].amount = commissions[k].amount
               /\ \/ commissions'[k].status = commissions[k].status
                  \/ /\ commissions[k].status \in {"pending", "approved"}
                     /\ commissions'[k].status = "payable"
    BY <1>2, <1>12 DEF SettleHoldingPeriods, CommissionRow, Held
  <2> QED
    BY <1>9, <1>12, <2>1, OpenMoveKept DEF SettleHoldingPeriods
<1>13. ASSUME NEW p \in PayoutIds, PayoutStep(p)
       PROVE  SalesKept /\ \A k \in CommissionIds : KeptRow(k)
  <2>1. UNCHANGED <<conversions, credited>>
    BY <1>13 DEF PayoutStep, CreatePayoutBatch, RecordExternalPayout, Batch, SetPayout,
                 MarkPayoutProcessing, MarkPayoutFailed, MarkPayoutPaid, CancelPayout
  <2>2. ASSUME NEW a, NEW i, NEW s, NEW r \in {"payable", "paid"}, Batch(p, a, i, s, r),
               NEW k \in CommissionIds
        PROVE  KeptRow(k)
    <3>1. /\ commissions'[k].order = commissions[k].order
          /\ commissions'[k].amount = commissions[k].amount
          /\ \/ commissions'[k].status = commissions[k].status
             \/ commissions[k].status = "payable" /\ commissions'[k].status = r
      <4>1. commissions'[k] = IF k \in PayableRows(a)
                              THEN [commissions[k] EXCEPT !.payout = p, !.status = r]
                              ELSE commissions[k]
        BY <2>2 DEF Batch
      <4>2. k \in PayableRows(a) => commissions[k].status = "payable"
        BY DEF PayableRows
      <4> QED
        BY <1>2, <4>1, <4>2 DEF CommissionRow
    <3> QED
      BY <2>1, <3>1, OpenMoveKept
  <2>3. CASE MarkPayoutPaid(p)
    <3>1. \A k \in CommissionIds :
            /\ commissions'[k].order = commissions[k].order
            /\ commissions'[k].amount = commissions[k].amount
            /\ \/ commissions'[k].status = commissions[k].status
               \/ commissions[k].status = "payable" /\ commissions'[k].status = "paid"
      BY <1>2, <2>3 DEF MarkPayoutPaid, CommissionRow
    <3> QED
      BY <1>5, <2>1, <3>1, OpenMoveKept
  <2>4. CASE CancelPayout(p)
    <3>1. \A k \in CommissionIds :
            /\ commissions'[k].order = commissions[k].order
            /\ commissions'[k].amount = commissions[k].amount
            /\ commissions'[k].status = commissions[k].status
      BY <1>2, <2>4 DEF CancelPayout, CommissionRow
    <3> QED
      BY <1>5, <2>1, <3>1, OpenMoveKept
  <2> QED
    BY <1>3, <1>5, <1>13, <2>1, <2>2, <2>3, <2>4
       DEF PayoutStep, CreatePayoutBatch, RecordExternalPayout, MarkPayoutProcessing,
           MarkPayoutFailed
<1>14. CASE \E a \in Affiliates, amount \in Adjustments : AdjustAffiliateBalance(a, amount)
  BY <1>3, <1>5, <1>14 DEF AdjustAffiliateBalance
<1>15. CASE UNCHANGED vars
  BY <1>3, <1>5, <1>15 DEF vars
<1> QED
  BY <1>7, <1>8, <1>11, <1>12, <1>13, <1>14, <1>15 DEF Next

\* The history of the sales survives a step that keeps every row.
LEMMA KeptKeepsHistory ==
  ASSUME HistoryInv, TypeOK', SalesKept, \A k \in CommissionIds : KeptRow(k)
  PROVE  HistoryInv'
<1>1. RowsInOrder'
  BY DEF HistoryInv, RowsInOrder, KeptRow, SalesKept
<1>2. OnlyLatestIsOpen'
  BY DEF HistoryInv, OnlyLatestIsOpen, KeptRow, Closed
<1>3. LedgerMatchesRows'
  BY DEF HistoryInv, LedgerMatchesRows, KeptRow
<1> QED
  BY <1>1, <1>2, <1>3 DEF HistoryInv

\* It survives a new row for a sale whose other rows are all closed.
LEMMA NewRowKeepsHistory ==
  ASSUME HistoryInv, TypeOK', SalesKept, NEW o \in Orders, conversions'[o].status # "absent",
         NEW n \in CommissionIds, FreshCommission(n), NEW a, NEW earned, NEW test,
         commissions'[n] = NewCommission(o, a, earned, test), credited'[n] = earned,
         \A k \in CommissionIds \ {n} :
           /\ KeptRow(k)
           /\ commissions[k].order = o => commissions'[k].status \in {"reversed", "void"}
  PROVE  HistoryInv'
<1>1. /\ commissions'[n].status = "pending"
      /\ commissions'[n].order = o
      /\ commissions'[n].amount = credited'[n]
  BY DEF NewCommission
<1>2. \A j \in CommissionIds : j < n => commissions[j].status # "absent"
  BY DEF FreshCommission, CommissionIds
<1>3. \A j \in CommissionIds : n <= j => commissions[j].status = "absent"
  BY DEF FreshCommission, HistoryInv, RowsInOrder, CommissionIds
<1>4. \A j \in CommissionIds : commissions[j].order = o => j < n
  BY <1>3, ConstantsOK DEF HistoryInv, RowsInOrder, ConstantsOK, CommissionIds
<1>5. RowsInOrder'
  <2>1. ASSUME NEW k \in CommissionIds, commissions'[k].status = "absent"
        PROVE  /\ commissions'[k].order = Null
               /\ \A j \in CommissionIds : k < j => commissions'[j].status = "absent"
    <3>1. k # n /\ commissions[k].status = "absent"
      BY <1>1, <2>1 DEF KeptRow
    <3>2. n < k
      BY <1>2, <3>1 DEF CommissionIds
    <3> QED
      BY <3>1, <3>2 DEF HistoryInv, RowsInOrder, KeptRow, CommissionIds
  <2>2. ASSUME NEW k \in CommissionIds, commissions'[k].status # "absent"
        PROVE  /\ commissions'[k].order \in Orders
               /\ conversions'[commissions'[k].order].status # "absent"
    BY <1>1, <2>2 DEF HistoryInv, RowsInOrder, KeptRow, SalesKept
  <2> QED
    BY <2>1, <2>2 DEF RowsInOrder
<1>6. OnlyLatestIsOpen'
  <2>1. ASSUME NEW k \in CommissionIds, NEW j \in CommissionIds,
               commissions'[k].status # "absent", ~Closed(k)',
               commissions'[j].order = commissions'[k].order
        PROVE  j <= k
    <3>1. CASE k = n
      BY <1>1, <1>4, <2>1, <3>1 DEF KeptRow, CommissionIds
    <3>2. CASE k # n /\ j = n
      BY <1>1, <2>1, <3>2 DEF KeptRow, Closed
    <3>3. CASE k # n /\ j # n
      BY <2>1, <3>3 DEF HistoryInv, OnlyLatestIsOpen, KeptRow, Closed
    <3> QED
      BY <3>1, <3>2, <3>3
  <2> QED
    BY <2>1 DEF OnlyLatestIsOpen, Closed
<1>7. LedgerMatchesRows'
  BY <1>1 DEF HistoryInv, LedgerMatchesRows, KeptRow, Balanced, Closed
<1> QED
  BY <1>5, <1>6, <1>7 DEF HistoryInv

\* A new sale keeps the history.
LEMMA RecordKeepsHistory ==
  ASSUME HistoryInv, TypeOK', NEW o \in Orders, NEW a \in Affiliates, NEW amount \in SaleAmounts,
         NEW earned \in Earnings, NEW test \in TestModes,
         RecordConversion(o, a, amount, earned, test)
  PROVE  HistoryInv'
<1>1. /\ conversions \in [Orders -> ConversionRow]
      /\ commissions \in [CommissionIds -> CommissionRow]
      /\ credited \in [CommissionIds -> Int]
  BY DEF HistoryInv, TypeOK
<1>2. conversions[o].status = "absent" /\ conversions'[o].status = "pending" /\ SalesKept
  BY <1>1 DEF RecordConversion, SalesKept
<1>3. PICK n \in CommissionIds :
        /\ FreshCommission(n)
        /\ commissions' = [commissions EXCEPT ![n] = NewCommission(o, a, earned, test)]
        /\ credited' = [credited EXCEPT ![n] = earned]
  BY DEF RecordConversion
<1>4. \A k \in CommissionIds \ {n} :
        /\ KeptRow(k)
        /\ commissions[k].order # o
  <2>1. \A k \in CommissionIds : commissions[k].order # o
    BY <1>2, ConstantsOK DEF HistoryInv, RowsInOrder, ConstantsOK
  <2> QED
    BY <1>1, <1>3, <2>1 DEF KeptRow, Balanced, Closed
<1>5. commissions'[n] = NewCommission(o, a, earned, test) /\ credited'[n] = earned
  BY <1>1, <1>3
<1> QED
  BY <1>2, <1>3, <1>4, <1>5, NewRowKeepsHistory

\* A reattribution keeps the history: the row it supersedes is closed.
LEMMA ReattributeKeepsHistory ==
  ASSUME HistoryInv, TypeOK', NEW o \in Orders, NEW a \in Affiliates \cup {Null},
         NEW earned \in Earnings, NEW test \in TestModes,
         NEW s \in ConversionStatus, NEW d \in {"none", "approved", "other"},
         ReattributeInto(o, a, earned, test, s, d)
  PROVE  HistoryInv'
<1>1. /\ conversions \in [Orders -> ConversionRow]
      /\ commissions \in [CommissionIds -> CommissionRow]
      /\ credited \in [CommissionIds -> Int]
      /\ \A k \in CommissionIds : /\ commissions[k] \in CommissionRow
                                  /\ commissions[k].amount \in Nat
                                  /\ credited[k] \in Int
  BY DEF HistoryInv, TypeOK, CommissionRow
<1>2. conversions'[o].status # "absent" /\ SalesKept
  BY <1>1 DEF ReattributeInto, SalesKept, ConversionRow, ConversionStatus
<1>3. PICK k \in CommissionIds :
        /\ IsCurrent(k, o)
        /\ Closed(k) \/ "void" \in CommissionMoves[commissions[k].status]
        /\ IF a = Null
           THEN /\ commissions' = [commissions EXCEPT ![k] = Voided(k)]
                /\ credited' = [credited EXCEPT ![k] = @ + Voided(k).amount - commissions[k].amount]
           ELSE \E n \in CommissionIds :
                  /\ FreshCommission(n)
                  /\ commissions' = [commissions EXCEPT ![k] = Voided(k),
                                                       ![n] = NewCommission(o, a, earned, test)]
                  /\ credited' = [credited EXCEPT ![k] = @ + Voided(k).amount - commissions[k].amount,
                                                 ![n] = earned]
  BY Zenon DEF ReattributeInto
<1>4. /\ Voided(k).order = commissions[k].order
      /\ Voided(k).status \in {"reversed", "void"}
      /\ Balanced(k) => Voided(k).amount = 0
      /\ Voided(k).amount \in Nat
  BY <1>1 DEF Voided, Closed, Balanced, CommissionRow
<1>5. /\ commissions[k].order = o
      /\ commissions[k].status # "absent"
      /\ \A j \in CommissionIds : commissions[j].order = o /\ j # k => Closed(j)
  <2>1. /\ commissions[k].order = o
        /\ commissions[k].status # "absent"
    BY <1>3, ConstantsOK DEF IsCurrent, HistoryInv, RowsInOrder, ConstantsOK
  <2>2. ASSUME NEW j \in CommissionIds, commissions[j].order = o, j # k
        PROVE  Closed(j)
    <3>1. commissions[j].status # "absent"
      BY <2>2, ConstantsOK DEF HistoryInv, RowsInOrder, ConstantsOK
    <3>2. j <= k
      BY <1>3, <2>2 DEF IsCurrent
    <3> QED
      BY <2>1, <2>2, <3>1, <3>2 DEF HistoryInv, OnlyLatestIsOpen, CommissionIds
  <2> QED
    BY <2>1, <2>2
<1>6. ASSUME commissions'[k] = Voided(k),
             credited'[k] = credited[k] + Voided(k).amount - commissions[k].amount
      PROVE  KeptRow(k) /\ Closed(k)'
  BY <1>1, <1>4, <1>5, <1>6 DEF KeptRow, Balanced, Closed
<1>7. ASSUME NEW j \in CommissionIds, commissions'[j] = commissions[j], credited'[j] = credited[j]
      PROVE  KeptRow(j) /\ (Closed(j) => Closed(j)')
  BY <1>7 DEF KeptRow, Balanced, Closed
<1>8. CASE a = Null
  <2>1. \A j \in CommissionIds : KeptRow(j)
    BY <1>1, <1>3, <1>6, <1>7, <1>8
  <2> QED
    BY <1>2, <2>1, KeptKeepsHistory
<1>9. CASE a # Null
  <2> DEFINE new == NewCommission(o, a, earned, test)
             sum == credited[k] + Voided(k).amount - commissions[k].amount
  <2>1. PICK n \in CommissionIds :
          /\ FreshCommission(n)
          /\ commissions' = [commissions EXCEPT ![k] = Voided(k), ![n] = new]
          /\ credited' = [credited EXCEPT ![k] = sum, ![n] = earned]
    BY <1>3, <1>9
  <2>2. n # k
    BY <1>5, <2>1 DEF FreshCommission
  <2>3. commissions'[n] = new /\ credited'[n] = earned
    <3> HIDE DEF new, sum
    <3> QED
      BY <1>1, <2>1
  <2>4. /\ commissions'[k] = Voided(k) /\ credited'[k] = sum
        /\ \A j \in CommissionIds \ {k, n} :
             commissions'[j] = commissions[j] /\ credited'[j] = credited[j]
    <3> HIDE DEF new, sum
    <3> QED
      BY <1>1, <2>1, <2>2
  <2>5. \A j \in CommissionIds \ {n} :
          /\ KeptRow(j)
          /\ commissions[j].order = o => commissions'[j].status \in {"reversed", "void"}
    BY <1>5, <1>6, <1>7, <2>4 DEF Closed
  <2>6. FreshCommission(n) /\ commissions'[n] = NewCommission(o, a, earned, test)
    BY <2>1, <2>3
  <2> QED
    BY <1>2, <2>3, <2>5, <2>6, NewRowKeepsHistory
<1> QED
  BY <1>8, <1>9

\* The history invariant holds in every reachable state.
LEMMA HistoryCorrect == Spec => []HistoryInv
<1>1. Init => HistoryInv
  <2> SUFFICES ASSUME Init
               PROVE  HistoryInv
    OBVIOUS
  <2>1. TypeOK
    BY DEF Init, TypeOK, AbsentConversion, AbsentCommission, AbsentEntry, AbsentPayout,
           ConversionRow, CommissionRow, EntryRow, PayoutRow, NoPayout, NoCommission
  <2>2. RowsInOrder /\ OnlyLatestIsOpen /\ LedgerMatchesRows
    BY DEF Init, RowsInOrder, OnlyLatestIsOpen, LedgerMatchesRows, Balanced, Closed,
           AbsentCommission
  <2> QED
    BY <2>1, <2>2 DEF HistoryInv
<1>2. HistoryInv /\ [Next]_vars => HistoryInv'
  <2> SUFFICES ASSUME HistoryInv, [Next]_vars
               PROVE  HistoryInv'
    OBVIOUS
  <2>1. TypeOK /\ TypeOK'
    BY TypeStep DEF HistoryInv
  <2>2. CASE \E o \in Orders, a \in Affiliates, amount \in SaleAmounts, earned \in Earnings,
                test \in TestModes : RecordConversion(o, a, amount, earned, test)
    BY <2>1, <2>2, RecordKeepsHistory
  <2>3. CASE \E o \in Orders, a \in Affiliates \cup {Null}, earned \in Earnings,
                test \in TestModes, s \in ConversionStatus,
                d \in {"none", "approved", "other"} : ReattributeInto(o, a, earned, test, s, d)
    BY <2>1, <2>3, ReattributeKeepsHistory
  <2>4. CASE /\ ~\E o \in Orders, a \in Affiliates, amount \in SaleAmounts, earned \in Earnings,
                    test \in TestModes : RecordConversion(o, a, amount, earned, test)
             /\ ~\E o \in Orders, a \in Affiliates \cup {Null}, earned \in Earnings,
                    test \in TestModes, s \in ConversionStatus,
                    d \in {"none", "approved", "other"} : ReattributeInto(o, a, earned, test, s, d)
    BY <2>1, <2>4, KeptStep, KeptKeepsHistory
  <2> QED
    BY <2>2, <2>3, <2>4
<1> QED
  BY <1>1, <1>2, PTL DEF Spec

\* The ledger and the commission rows always tell the same story.
THEOREM LedgerMatchesRowsCorrect == Spec => []LedgerMatchesRows
<1>1. HistoryInv => LedgerMatchesRows
  BY DEF HistoryInv
<1> QED
  BY <1>1, HistoryCorrect, PTL

\* Only the latest commission of a sale is ever open.
THEOREM OnlyLatestIsOpenCorrect == Spec => []OnlyLatestIsOpen
<1>1. HistoryInv => OnlyLatestIsOpen
  BY DEF HistoryInv
<1> QED
  BY <1>1, HistoryCorrect, PTL

============================================================================
