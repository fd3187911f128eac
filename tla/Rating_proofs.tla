---------------------------- MODULE Rating_proofs ----------------------------
(***************************************************************************)
(* Proofs about Rating, for every period, price list, set of coupons,      *)
(* precision and bound.                                                    *)
(***************************************************************************)
EXTENDS Rating, FoldLemmas

----------------------------------------------------------------------------
(* Graduated prices. *)

LEMMA Scales ==
    /\ Digits \in Nat \ {0} /\ Grain \in Nat \ {0}
    /\ One \in Nat \ {0} /\ One = Digits * Grain
<1>1. Digits \in Nat \ {0} /\ Grain \in Nat \ {0}
    BY RatingAssumption
<1>2. \A a, b \in Nat \ {0} : a * b \in Nat \ {0}
    OBVIOUS
<1> QED BY <1>1, <1>2 DEF One

LEMMA SequenceType ==
    ASSUME NEW S, NEW s \in Seq(S)
    PROVE  /\ Len(s) \in Nat /\ DOMAIN s = 1 .. Len(s)
           /\ \A k \in DOMAIN s : s[k] \in S
OBVIOUS

LEMMA PriceTypes ==
    ASSUME NEW p \in Prices
    PROVE  /\ p.tiers \in Seq([from : Nat, to : Nat, rate : Nat, flat : Nat])
           /\ \A k \in DOMAIN p.tiers :
                 /\ p.tiers[k].from \in Nat /\ p.tiers[k].to \in Nat
                 /\ p.tiers[k].rate \in Nat /\ p.tiers[k].flat \in Nat
           /\ Len(p.tiers) \in Nat /\ DOMAIN p.tiers = 1 .. Len(p.tiers)
           /\ p.unitPrice \in Nat /\ p.unitCount \in Nat
           /\ p.scheme \in {"fixed", "package", "graduated", "volume"}
           /\ One \in Nat \ {0}
<1>1. PriceOK(p) /\ One \in Nat \ {0}
    BY RatingAssumption, Scales
<1>2. p.tiers \in Seq([from : Nat, to : Nat, rate : Nat, flat : Nat])
    BY <1>1 DEF PriceOK
<1>3. \A k \in DOMAIN p.tiers : p.tiers[k] \in [from : Nat, to : Nat, rate : Nat, flat : Nat]
    BY <1>2, SequenceType
<1>4. Len(p.tiers) \in Nat /\ DOMAIN p.tiers = 1 .. Len(p.tiers)
    BY <1>2, SequenceType
<1>5. \A k \in DOMAIN p.tiers :
          /\ p.tiers[k].from \in Nat /\ p.tiers[k].to \in Nat
          /\ p.tiers[k].rate \in Nat /\ p.tiers[k].flat \in Nat
    BY <1>3
<1> QED BY <1>1, <1>2, <1>4, <1>5 DEF PriceOK

\* The tiers of a schedule without gaps and overlaps are in the order of their bounds.
LEMMA TiersAreOrdered ==
    ASSUME NEW p \in Prices, Contiguous(p)
    PROVE  \A k \in DOMAIN p.tiers : \A j \in 1 .. k - 1 :
               p.tiers[j].to # 0 /\ p.tiers[j].to <= p.tiers[k].from
<1> DEFINE n == Len(p.tiers)
<1> DEFINE After(k) == \A j \in 1 .. k - 1 : p.tiers[j].to # 0 /\ p.tiers[j].to <= p.tiers[k].from
<1> DEFINE Good == {s \in SUBSET (1 .. n) : \A k \in 1 .. n : s = 1 .. k => After(k)}
<1>1. n \in Nat /\ DOMAIN p.tiers = 1 .. n
    BY PriceTypes
<1>2. \A k \in 1 .. n : p.tiers[k].from \in Nat /\ p.tiers[k].to \in Nat
    BY <1>1, PriceTypes
<1>3. \A k \in 1 .. n - 1 : p.tiers[k].from < p.tiers[k].to /\ p.tiers[k].to = p.tiers[k + 1].from
    BY DEF Contiguous
<1> HIDE DEF n
<1>4. ASSUME NEW s \in SUBSET (1 .. n), \A t \in SUBSET s : t # s => t \in Good PROVE s \in Good
    <2> SUFFICES ASSUME NEW k \in 1 .. n, s = 1 .. k, NEW j \in 1 .. k - 1
                 PROVE  p.tiers[j].to # 0 /\ p.tiers[j].to <= p.tiers[k].from
        OBVIOUS
    <2>1. k - 1 \in 1 .. n - 1 /\ k - 1 \in 1 .. n /\ (k - 1) + 1 = k
        BY <1>1
    <2>2. p.tiers[k - 1].from < p.tiers[k - 1].to /\ p.tiers[k - 1].to = p.tiers[k].from
        BY <1>3, <2>1
    <2>3. 1 .. k - 1 \in Good
        <3>1. 1 .. k - 1 \in SUBSET s /\ k \in s /\ k \notin 1 .. k - 1
            BY <1>1
        <3> QED BY <1>4, <3>1
    <2>4. After(k - 1)
        BY <2>1, <2>3
    <2>5. CASE j = k - 1
        BY <1>2, <2>1, <2>2, <2>5
    <2>6. CASE j # k - 1
        <3>1. j \in 1 .. (k - 1) - 1 /\ j \in 1 .. n
            BY <1>1, <2>6
        <3>2. p.tiers[j].to # 0 /\ p.tiers[j].to <= p.tiers[k - 1].from
            BY <2>4, <3>1
        <3> HIDE DEF Good
        <3> QED BY <1>2, <2>1, <2>2, <3>1, <3>2
    <2> QED BY <2>5, <2>6
<1> HIDE DEF Good
<1>5. IsFiniteSet(1 .. n)
    BY <1>1, FS_Interval
<1>6. \A s \in SUBSET (1 .. n) : s \in Good
    BY <1>4, <1>5, SubsetInduction
<1>7. ASSUME NEW k \in 1 .. n PROVE After(k)
    <2>1. 1 .. k \in SUBSET (1 .. n)
        BY <1>1
    <2> QED BY <1>6, <2>1 DEF Good
<1> QED BY <1>1, <1>7

\* The number of steps of a quantity that fall into a range.
LEMMA StepsInRange ==
    ASSUME NEW a \in Nat, NEW b \in Int, NEW u \in Int, b <= u
    PROVE  Cardinality({s \in 0 .. u - 1 : a <= s /\ s < b}) = IF b > a THEN b - a ELSE 0
<1>1. {s \in 0 .. u - 1 : a <= s /\ s < b} = a .. b - 1
    OBVIOUS
<1>2. a \in Int /\ b - 1 \in Int
    OBVIOUS
<1>3. Cardinality(a .. b - 1) = IF a > b - 1 THEN 0 ELSE (b - 1) - a + 1
    BY <1>2, FS_Interval
<1>4. Cardinality({s \in 0 .. u - 1 : a <= s /\ s < b}) = Cardinality(a .. b - 1)
    BY <1>1, Zenon
<1>5. (IF a > b - 1 THEN 0 ELSE (b - 1) - a + 1) = IF b > a THEN b - a ELSE 0
    OBVIOUS
<1> QED BY <1>3, <1>4, <1>5

\* Money is rounded to whole cents, and keeps its sign.
LEMMA DivRoundType ==
    ASSUME NEW m \in Nat, NEW d \in Nat \ {0} PROVE DivRound(m, d) \in Nat
BY DEF DivRound

LEMMA DivRoundInteger ==
    ASSUME NEW m \in Int, NEW d \in Nat \ {0} PROVE DivRound(m, d) \in Int
<1>1. \A n \in Int : n \div (2 * d) \in Int
    OBVIOUS
<1>2. 2 * m + d \in Int /\ d - 2 * m \in Int
    OBVIOUS
<1> QED BY <1>1, <1>2 DEF DivRound

\* The steps of a quantity that fall into a tier.
Slice(t, u) == Cardinality({s \in 0 .. u - 1 : t.from * One <= s /\ (t.to = 0 \/ s < t.to * One)})

\* The price of a quantity under such a schedule is the price of its slices.
LEMMA SlicesArePriced ==
    ASSUME NEW p \in Prices, Contiguous(p), NEW u \in Int
    PROVE  /\ TiersUsed(p, u) = {k \in DOMAIN p.tiers : Slice(p.tiers[k], u) > 0}
           /\ \A k \in TiersUsed(p, u) : UnitsInTier(p.tiers[k], u) = Slice(p.tiers[k], u)
<1> DEFINE T == p.tiers
<1> DEFINE bound(k) == IF Reaches(T[k], u) THEN u ELSE T[k].to * One
<1>1. \A k \in DOMAIN T : T[k].from \in Nat /\ T[k].to \in Nat
    BY PriceTypes
<1>2. One \in Nat /\ One > 0
    BY PriceTypes
<1>3. ASSUME NEW k \in DOMAIN T
      PROVE  Slice(T[k], u) = IF UnitsInTier(T[k], u) > 0 THEN UnitsInTier(T[k], u) ELSE 0
    <2>1. T[k].from * One \in Nat /\ T[k].to * One \in Nat /\ T[k].from \in Nat /\ T[k].to \in Nat
        BY <1>1, <1>2
    <2>2. bound(k) \in Int /\ bound(k) <= u
        BY <2>1 DEF Reaches
    <2>3. {s \in 0 .. u - 1 : T[k].from * One <= s /\ (T[k].to = 0 \/ s < T[k].to * One)}
          = {s \in 0 .. u - 1 : T[k].from * One <= s /\ s < bound(k)}
        <3>1. ASSUME NEW s \in 0 .. u - 1 PROVE (T[k].to = 0 \/ s < T[k].to * One) <=> s < bound(k)
            BY <2>1 DEF Reaches
        <3> HIDE DEF bound
        <3> QED BY <3>1
    <2>4. UnitsInTier(T[k], u) = bound(k) - T[k].from * One
        BY DEF UnitsInTier
    <2> HIDE DEF bound
    <2>5. Cardinality({s \in 0 .. u - 1 : T[k].from * One <= s /\ s < bound(k)})
          = IF bound(k) > T[k].from * One THEN bound(k) - T[k].from * One ELSE 0
        BY <2>1, <2>2, StepsInRange
    <2>6. Slice(T[k], u) = Cardinality({s \in 0 .. u - 1 :
                          T[k].from * One <= s /\ (T[k].to = 0 \/ s < T[k].to * One)})
        BY DEF Slice
    <2>7. Slice(T[k], u) = IF bound(k) > T[k].from * One THEN bound(k) - T[k].from * One ELSE 0
        BY <2>3, <2>5, <2>6
    <2> QED BY <2>1, <2>2, <2>4, <2>7
<1>4. \A k \in DOMAIN T : UnitsInTier(T[k], u) \in Int
    BY <1>1, <1>2 DEF UnitsInTier
<1>5. \A k \in DOMAIN T : Slice(T[k], u) > 0 <=> UnitsInTier(T[k], u) > 0
    BY <1>3, <1>4
<1>6. ASSUME NEW k \in DOMAIN T, UnitsInTier(T[k], u) > 0, NEW j \in 1 .. k - 1
      PROVE  ~Reaches(T[j], u)
    <2>1. T[j].to # 0 /\ T[j].to <= T[k].from /\ j \in DOMAIN T
        <3>1. DOMAIN T = 1 .. Len(T) /\ Len(T) \in Nat
            BY PriceTypes
        <3> QED BY <3>1, TiersAreOrdered
    <2>2. T[j].to \in Nat /\ T[k].from \in Nat /\ T[k].to \in Nat
        BY <1>1, <2>1
    <2>3. T[j].to * One <= T[k].from * One /\ T[j].to * One \in Nat /\ T[k].from * One \in Nat /\ T[k].to * One \in Nat
        <3>1. \A a, b, c \in Nat : a <= b => a * c <= b * c
            OBVIOUS
        <3> QED BY <1>2, <2>1, <2>2, <3>1
    <2>4. u > T[k].from * One
        BY <1>6, <2>2, <2>3 DEF UnitsInTier, Reaches
    <2> QED BY <2>1, <2>2, <2>3, <2>4 DEF Reaches
<1>7. TiersUsed(p, u) = {k \in DOMAIN T : UnitsInTier(T[k], u) > 0}
    BY <1>6 DEF TiersUsed
<1> QED BY <1>3, <1>5, <1>7

\* So GraduatedChargesEachUnit holds of every quantity.
LEMMA QuantityIsPricedBySlices ==
    ASSUME units \in Int PROVE GraduatedChargesEachUnit
<1> SUFFICES ASSUME NEW p \in Prices, p.scheme = "graduated", Contiguous(p)
             PROVE  LET falls(s, t) == t.from * One <= s /\ (t.to = 0 \/ s < t.to * One)
                        slices(k) == Cardinality({s \in 0 .. units - 1 : falls(s, p.tiers[k])})
                        reached   == {k \in DOMAIN p.tiers : slices(k) > 0}
                        charge(k) == slices(k) * p.tiers[k].rate + One * p.tiers[k].flat
                    IN  PriceUsage(p, units) = DivRound(SumFunction([k \in reached |-> charge(k)]), One)
    BY DEF GraduatedChargesEachUnit
<1> DEFINE slices(k) == Cardinality({s \in 0 .. units - 1 :
                            p.tiers[k].from * One <= s /\ (p.tiers[k].to = 0 \/ s < p.tiers[k].to * One)})
           reached == {k \in DOMAIN p.tiers : slices(k) > 0}
           charge(k) == slices(k) * p.tiers[k].rate + One * p.tiers[k].flat
<1>1. \A k : slices(k) = Slice(p.tiers[k], units)
    BY DEF Slice
<1> HIDE DEF slices
<1>2. TiersUsed(p, units) = reached /\ \A k \in reached : UnitsInTier(p.tiers[k], units) = slices(k)
    BY <1>1, SlicesArePriced
<1>3. PriceUsage(p, units) = PriceGraduated(p, units)
    BY DEF PriceUsage
<1> HIDE DEF reached
<1>4. [k \in TiersUsed(p, units) |-> UnitsInTier(p.tiers[k], units) * p.tiers[k].rate + One * p.tiers[k].flat]
      = [k \in reached |-> charge(k)]
    BY <1>2
<1>5. PriceUsage(p, units) = DivRound(SumFunction([k \in reached |-> charge(k)]), One)
    BY <1>3, <1>4 DEF PriceGraduated
<1> QED BY <1>5 DEF slices, reached

----------------------------------------------------------------------------
(* The stable sort. *)

\* Every element has its place, and the places are in the order of the keys.
LEMMA Sorting ==
    ASSUME NEW n \in Nat, NEW key \in [1 .. n -> Int]
    PROVE  /\ \A i \in 1 .. n : Position(key, i) \in 1 .. n /\ Placed(key, Position(key, i)) = i
           /\ \A k \in 1 .. n : Placed(key, k) \in 1 .. n /\ Position(key, Placed(key, k)) = k
           /\ \A i, j \in 1 .. n : Position(key, i) < Position(key, j)
                                   <=> key[i] < key[j] \/ (key[i] = key[j] /\ i < j)
<1> DEFINE D == 1 .. n
           Less(j, i) == key[j] < key[i] \/ (key[j] = key[i] /\ j < i)
           R == {e \in D \X D : Less(e[1], e[2])}
           Before(i) == {j \in D : <<j, i>> \in R}
<1>1. IsFiniteSet(D) /\ Cardinality(D) = n
    <2>1. 1 \in Int /\ n \in Int
        OBVIOUS
    <2>2. IsFiniteSet(D) /\ Cardinality(D) = IF 1 > n THEN 0 ELSE n - 1 + 1
        BY <2>1, FS_Interval
    <2> QED BY <2>2
<1>2. \A i, j \in D : <<i, j>> \in R <=> Less(i, j)
    OBVIOUS
<1>3. \A i, j \in D : Less(i, j) \in BOOLEAN /\ key[i] \in Int /\ i \in Int
    OBVIOUS
<1>4. StrictOrder(R, D)
    <2>1. \A i \in D : ~Less(i, i)
        OBVIOUS
    <2>2. \A i, j, k \in D : Less(i, j) /\ Less(j, k) => Less(i, k)
        OBVIOUS
    <2>3. \A i, j \in D : i # j => Less(i, j) \/ Less(j, i)
        OBVIOUS
    <2> HIDE DEF R, Less
    <2> QED BY <1>2, <2>1, <2>2, <2>3 DEF StrictOrder
<1>5. ASSUME NEW i \in D PROVE Position(key, i) = Rank(R, D, i) + 1
    <2>1. {j \in DOMAIN key : key[j] < key[i] \/ (key[j] = key[i] /\ j <= i)} = Before(i) \cup {i}
        OBVIOUS
    <2>2. Position(key, i) = Cardinality(Before(i) \cup {i})
        BY <2>1, Zenon DEF Position
    <2>0. Before(i) \in SUBSET D /\ i \notin Before(i)
        OBVIOUS
    <2>3. IsFiniteSet(Before(i)) /\ i \notin Before(i)
        <3> HIDE DEF Before, D
        <3> QED BY <1>1, <2>0, FS_Subset
    <2>4. Rank(R, D, i) = Cardinality(Before(i))
        BY DEF Rank
    <2> HIDE DEF Before
    <2> QED BY <2>2, <2>3, <2>4, FS_AddElement
<1> HIDE DEF R, Less, Before
<1>6. \A i \in D : Rank(R, D, i) \in 0 .. n - 1
    BY <1>1, <1>4, RankOrder
<1>7. \A i, j \in D : Less(i, j) <=> Rank(R, D, i) < Rank(R, D, j)
    BY <1>1, <1>2, <1>4, RankOrder
<1>8. \A k \in 0 .. n - 1 : \E i \in D : Rank(R, D, i) = k
    BY <1>1, <1>4, RankIsTaken
<1>9. \A i, j \in D : Rank(R, D, i) = Rank(R, D, j) => i = j
    BY <1>1, <1>4, RankIsTaken
<1>10. \A k \in 1 .. n : Placed(key, k) \in D /\ Position(key, Placed(key, k)) = k
    <2> TAKE k \in 1 .. n
    <2>1. PICK i \in D : Rank(R, D, i) = k - 1
        BY <1>8
    <2>2. Position(key, i) = k
        BY <1>5, <2>1
    <2>3. \E x \in DOMAIN key : Position(key, x) = k
        BY <2>2
    <2> QED BY <2>3, Zenon DEF Placed
<1>11. \A i \in D : Position(key, i) \in 1 .. n
    <2> TAKE i \in D
    <2>1. Position(key, i) = Rank(R, D, i) + 1
        BY <1>5
    <2>2. Rank(R, D, i) \in 0 .. n - 1
        BY <1>6
    <2> HIDE DEF D
    <2> QED BY <2>1, <2>2
<1>12. \A i \in D : Placed(key, Position(key, i)) = i
    <2> TAKE i \in D
    <2>1. Placed(key, Position(key, i)) \in D /\ Position(key, Placed(key, Position(key, i))) = Position(key, i)
        BY <1>10, <1>11
    <2>2. Rank(R, D, Placed(key, Position(key, i))) = Rank(R, D, i)
        <3>1. \A j \in D : Position(key, j) = Rank(R, D, j) + 1 /\ Rank(R, D, j) \in Int
            BY <1>5, <1>6
        <3> HIDE DEF D
        <3> QED BY <2>1, <3>1
    <2> QED BY <1>9, <2>1, <2>2
<1>13. \A i, j \in D : Position(key, i) < Position(key, j) <=> Less(i, j)
    <2> TAKE i, j \in D
    <2>1. \A k \in D : Position(key, k) = Rank(R, D, k) + 1 /\ Rank(R, D, k) \in Int
        BY <1>5, <1>6
    <2> HIDE DEF D
    <2> QED BY <1>7, <2>1
<1> QED BY <1>10, <1>11, <1>12, <1>13 DEF Less

\* The sorted sequence has the elements of the unsorted one.
LEMMA StableSortType ==
    ASSUME NEW S, NEW s \in Seq(S), NEW key \in [DOMAIN s -> Int]
    PROVE  /\ StableSort(s, key) \in Seq(S) /\ Len(StableSort(s, key)) = Len(s)
           /\ \A k \in DOMAIN s : StableSort(s, key)[k] = s[Placed(key, k)] /\ Placed(key, k) \in DOMAIN s
<1>1. Len(s) \in Nat /\ DOMAIN s = 1 .. Len(s) /\ \A k \in DOMAIN s : s[k] \in S
    BY SequenceType
<1>2. \A k \in DOMAIN s : Placed(key, k) \in DOMAIN s
    BY <1>1, Sorting
<1>3. StableSort(s, key) = [k \in DOMAIN s |-> s[Placed(key, k)]]
    BY DEF StableSort
<1>4. StableSort(s, key) \in [1 .. Len(s) -> S]
    BY <1>1, <1>2, <1>3
<1>5. StableSort(s, key) \in Seq(S) /\ Len(StableSort(s, key)) = Len(s)
    BY <1>1, <1>4
<1> QED BY <1>2, <1>3, <1>5

----------------------------------------------------------------------------
(* The split of a discount. *)

LEMMA DivMod ==
    ASSUME NEW a \in Nat, NEW b \in Nat \ {0}
    PROVE  a \div b \in Nat /\ a % b \in 0 .. b - 1 /\ a = b * (a \div b) + (a % b)
OBVIOUS

LEMMA ProductOrder ==
    ASSUME NEW a \in Nat, NEW b \in Nat, a <= b, NEW c \in Nat
    PROVE  a * c <= b * c /\ c * a <= c * b /\ a * c \in Nat
OBVIOUS

\* The shares add up to the total, none is more than the line costs, and each is
\* what the line costs of the total to within a cent.
LEMMA AllocationIsExact ==
    ASSUME NEW ids \in SUBSET Nat, IsFiniteSet(ids), NEW net, \A i \in ids : net[i] \in Nat,
           NEW base, base = SumFunctionOnSet(net, ids), base > 0,
           NEW total \in Nat, total <= base,
           NEW off, off = AllocateProportional(total, ids, net)
    PROVE  /\ off \in [ids -> Nat]
           /\ \A i \in ids : off[i] <= net[i]
           /\ \A i \in ids : off[i] * base - total * net[i] \in 1 - base .. base - 1
           /\ SumFunctionOnSet(off, ids) = total
<1> DEFINE share(i) == Quotient(net[i] * total, base)
           remainder(i) == net[i] * total - base * share(i)
           shares == [i \in ids |-> share(i)]
           rem == [i \in ids |-> remainder(i)]
           leftover == total - SumFunctionOnSet(shares, ids)
           Less(j, i) == remainder(j) > remainder(i) \/ (remainder(j) = remainder(i) /\ j < i)
           rank(i) == Cardinality({j \in ids : Less(j, i)})
           extra(i) == IF rank(i) < leftover THEN 1 ELSE 0
<1>1. base \in Nat \ {0} /\ \A i \in ids : net[i] <= base
    <2>1. SumFunctionOnSet(net, ids) \in Nat /\ \A i \in ids : net[i] <= SumFunctionOnSet(net, ids)
        BY SumOfNaturals, Zenon
    <2> QED BY <2>1
<1>2. off = [i \in ids |-> share(i) + extra(i)]
    <2>1. SumFunction(shares) = SumFunctionOnSet(shares, ids)
        BY DEF SumFunction
    <2>2. off = [i \in ids |-> share(i) + IF rank(i) < total - SumFunction(shares) THEN 1 ELSE 0]
        BY Zenon DEF AllocateProportional
    <2> QED BY <2>1, <2>2, Zenon
<1>3. ASSUME NEW i \in ids
      PROVE  /\ share(i) \in Nat /\ remainder(i) \in 0 .. base - 1
             /\ net[i] * total = base * share(i) + remainder(i) /\ net[i] * total \in Nat
    <2> DEFINE m == net[i] * total
    <2>1. m \in Nat
        OBVIOUS
    <2>2. share(i) = m \div base
        BY <2>1 DEF Quotient
    <2> HIDE DEF m
    <2>3. /\ m \div base \in Nat /\ m % base \in 0 .. base - 1
          /\ m = base * (m \div base) + (m % base)
        BY <1>1, <2>1, DivMod
    <2>4. remainder(i) = m % base
        <3>1. remainder(i) = m - base * (m \div base)
            BY <2>2 DEF m
        <3> DEFINE p == base * (m \div base)
        <3>2. p \in Nat
            BY <1>1, <2>3
        <3> HIDE DEF p, remainder
        <3> QED BY <1>1, <2>1, <2>3, <3>1, <3>2 DEF p
    <2> HIDE DEF share, remainder
    <2> QED BY <2>1, <2>2, <2>3, <2>4 DEF m
<1> HIDE DEF share, remainder
<1>4. IntegerOn(net, ids) /\ IntegerOn(shares, ids) /\ IntegerOn(rem, ids)
    BY <1>3 DEF IntegerOn
<1>5. SumFunctionOnSet(shares, ids) \in Nat /\ SumFunctionOnSet(rem, ids) \in Nat
    <2>1. (\A i \in ids : shares[i] \in Nat) /\ (\A i \in ids : rem[i] \in Nat)
        BY <1>1, <1>3
    <2> HIDE DEF shares, rem
    <2> QED BY <2>1, SumOfNaturals, Zenon
\* What is left over is what the remainders add up to.
<1>6. base * leftover = SumFunctionOnSet(rem, ids)
    <2> DEFINE scaled == [i \in ids |-> base * shares[i]]
               whole == [i \in ids |-> total * net[i]]
    <2>1. IntegerOn(scaled, ids)
        BY <1>1, <1>3 DEF IntegerOn
    <2>2. \A i \in ids : whole[i] = scaled[i] + rem[i]
        BY <1>3
    <2>3. /\ \A i \in ids : scaled[i] = base * shares[i]
          /\ \A i \in ids : whole[i] = total * net[i]
        OBVIOUS
    <2> HIDE DEF scaled, whole, shares, rem
    <2>4. SumFunctionOnSet(whole, ids) = SumFunctionOnSet(scaled, ids) + SumFunctionOnSet(rem, ids)
        BY <1>4, <2>1, <2>2, SumAdds
    <2>5. SumFunctionOnSet(scaled, ids) = base * SumFunctionOnSet(shares, ids)
        <3>1. base \in Int
            BY <1>1
        <3> QED BY <1>4, <2>3, <3>1, SumScales, Zenon
    <2>6. SumFunctionOnSet(whole, ids) = total * SumFunctionOnSet(net, ids)
        <3>1. total \in Int
            OBVIOUS
        <3> QED BY <1>4, <2>3, <3>1, SumScales, Zenon
    <2>7. total * base = base * SumFunctionOnSet(shares, ids) + SumFunctionOnSet(rem, ids)
        BY <2>4, <2>5, <2>6
    <2>8. \A s \in Nat, r \in Nat : total * base = base * s + r => base * (total - s) = r
        BY <1>1
    <2> QED BY <1>5, <2>7, <2>8
\* Some remainders are larger than zero, and there are at least as many as are left over.
<1> DEFINE some == {i \in ids : remainder(i) > 0}
<1>7. leftover \in 0 .. Cardinality(some)
    <2> DEFINE one == [i \in ids |-> IF i \in some THEN 1 ELSE 0]
               most == [i \in ids |-> (base - 1) * one[i]]
    <2>1. IntegerOn(one, ids) /\ IntegerOn(most, ids)
        BY <1>1 DEF IntegerOn
    <2>2. \A i \in ids : rem[i] <= most[i]
        BY <1>1, <1>3
    <2>3. /\ \A i \in ids : one[i] = IF i \in some THEN 1 ELSE 0
          /\ \A i \in ids : most[i] = (base - 1) * one[i]
        OBVIOUS
    <2>4. ids \cap some = some /\ IsFiniteSet(some) /\ Cardinality(some) \in Nat
        BY FS_Subset, FS_CardinalityType
    <2> HIDE DEF one, most, rem, some, shares, leftover
    <2>5. SumFunctionOnSet(rem, ids) <= SumFunctionOnSet(most, ids)
        BY <1>4, <2>1, <2>2, SumGrows
    <2>6. SumFunctionOnSet(one, ids) = Cardinality(some)
        BY <2>3, <2>4, SumCounts
    <2>7. SumFunctionOnSet(most, ids) = (base - 1) * SumFunctionOnSet(one, ids)
        <3>1. base - 1 \in Int
            BY <1>1
        <3> QED BY <2>1, <2>3, <3>1, SumScales
    <2>8. leftover \in Int
        BY <1>5 DEF leftover
    <2>9. base * leftover <= (base - 1) * Cardinality(some) /\ base * leftover >= 0
        BY <1>5, <1>6, <2>5, <2>6, <2>7
    <2>10. \A l \in Int, k \in Nat : base * l <= (base - 1) * k /\ base * l >= 0 => l \in 0 .. k
        <3> SUFFICES ASSUME NEW l \in Int, NEW k \in Nat, base * l <= (base - 1) * k, base * l >= 0
                     PROVE  l \in 0 .. k
            OBVIOUS
        <3>1. l >= 0
            BY <1>1
        <3>2. l <= k
            BY <1>1
        <3> QED BY <3>1, <3>2
    <2> QED BY <2>4, <2>8, <2>9, <2>10
<1> DEFINE R == {e \in ids \X ids : Less(e[1], e[2])}
<1>8. StrictOrder(R, ids) /\ \A i \in ids : rank(i) = Rank(R, ids, i)
    <2>0. \A i \in ids : remainder(i) \in Int /\ i \in Int
        BY <1>3
    <2>1. \A i \in ids : ~Less(i, i)
        BY <2>0
    <2>2. \A i, j, k \in ids : Less(i, j) /\ Less(j, k) => Less(i, k)
        BY <2>0
    <2>3. \A i, j \in ids : i # j => Less(i, j) \/ Less(j, i)
        BY <2>0
    <2>4. \A i, j \in ids : <<i, j>> \in R <=> Less(i, j)
        OBVIOUS
    <2>5. ASSUME NEW i \in ids PROVE rank(i) = Rank(R, ids, i)
        <3> HIDE DEF Less, R
        <3>1. {j \in ids : Less(j, i)} = {j \in ids : <<j, i>> \in R}
            BY <2>4
        <3> QED BY <3>1 DEF Rank
    <2> HIDE DEF R, Less
    <2> QED BY <2>1, <2>2, <2>3, <2>4, <2>5 DEF StrictOrder
<1>9. \A i \in ids : rank(i) \in Nat
    <2> TAKE i \in ids
    <2> QED BY FS_Subset, FS_CardinalityType
\* A cent goes only to a line that has a remainder.
<1>10. ASSUME NEW i \in ids, rank(i) < leftover PROVE remainder(i) > 0
    <2> SUFFICES ASSUME remainder(i) = 0 PROVE FALSE
        BY <1>3
    <2>1. some \in SUBSET {j \in ids : Less(j, i)}
        BY <1>3
    <2>2. IsFiniteSet({j \in ids : Less(j, i)}) /\ IsFiniteSet(some)
        BY FS_Subset
    <2>3. Cardinality(some) <= rank(i) /\ Cardinality(some) \in Nat
        <3> HIDE DEF some, Less
        <3> QED BY <2>1, <2>2, FS_Subset, FS_CardinalityType
    <2> HIDE DEF rank, some, leftover
    <2> QED BY <1>7, <1>9, <1>10, <2>3
<1> HIDE DEF rank, leftover, R, Less, some
<1>11. \A i \in ids : extra(i) \in {0, 1}
    OBVIOUS
<1>12. ASSUME NEW i \in ids
       PROVE  /\ off[i] \in Nat /\ off[i] <= net[i]
              /\ off[i] * base - total * net[i] \in 1 - base .. base - 1
    <2>1. off[i] = share(i) + extra(i)
        BY <1>2
    <2>2. extra(i) = 1 => remainder(i) > 0
        BY <1>10
    <2>3. net[i] * total <= net[i] * base /\ net[i] * base \in Nat /\ net[i] \in Nat
        BY <1>1, ProductOrder
    <2> DEFINE x == extra(i)
               s == share(i)
               m == remainder(i)
               a == net[i]
    <2>4. /\ x \in {0, 1} /\ s \in Nat /\ m \in 0 .. base - 1 /\ a \in Nat
          /\ a * total = base * s + m /\ (x = 1 => m > 0) /\ a * total <= a * base
        BY <1>3, <2>2, <2>3
    <2>5. off[i] = s + x
        BY <2>1
    <2>6. net[i] = a
        OBVIOUS
    <2> HIDE DEF x, s, m, a
    <2>7. s + x <= a
        <3>1. CASE x = 0
            <4>1. base * s <= base * a
                BY <1>1, <2>4
            <4> QED BY <1>1, <2>4, <3>1, <4>1
        <3>2. CASE x = 1
            <4>1. base * s < base * a
                BY <1>1, <2>4, <3>2
            <4>2. s < a
                BY <1>1, <2>4, <4>1
            <4> QED BY <2>4, <3>2, <4>2
        <3> QED BY <2>4, <3>1, <3>2
    <2>8. (s + x) * base - total * a = x * base - m
        BY <1>1, <2>4
    <2>9. x * base - m \in 1 - base .. base - 1
        <3>1. CASE x = 0
            BY <1>1, <2>4, <3>1
        <3>2. CASE x = 1
            BY <1>1, <2>4, <3>2
        <3> QED BY <2>4, <3>1, <3>2
    <2> QED BY <2>4, <2>5, <2>6, <2>7, <2>8, <2>9
<1>13. SumFunctionOnSet(off, ids) = total
    <2> DEFINE cents == [i \in ids |-> extra(i)]
               P == {i \in ids : Rank(R, ids, i) < leftover}
    <2>1. IntegerOn(cents, ids)
        BY DEF IntegerOn
    <2>2. \A i \in ids : off[i] = shares[i] + cents[i]
        BY <1>2
    <2>3. \A i \in ids : cents[i] = IF i \in P THEN 1 ELSE 0
        BY <1>8
    <2>4. leftover \in 0 .. Cardinality(ids)
        <3>1. some \in SUBSET ids
            BY DEF some
        <3>2. Cardinality(some) <= Cardinality(ids) /\ Cardinality(ids) \in Nat /\ Cardinality(some) \in Nat
            BY <3>1, FS_Subset, FS_CardinalityType
        <3> QED BY <1>7, <3>2
    <2>5. Cardinality(P) = leftover
        BY <1>8, <2>4, RanksBelow
    <2>6. ids \cap P = P
        OBVIOUS
    <2> HIDE DEF cents, P, shares
    <2>7. SumFunctionOnSet(off, ids) = SumFunctionOnSet(shares, ids) + SumFunctionOnSet(cents, ids)
        BY <1>4, <2>1, <2>2, SumAdds
    <2>8. SumFunctionOnSet(cents, ids) = leftover
        BY <2>3, <2>5, <2>6, SumCounts
    <2> QED BY <1>5, <2>7, <2>8 DEF leftover
<1> QED BY <1>2, <1>12, <1>13

----------------------------------------------------------------------------
(* Discounts. *)

LineRecord == [product : {p.product : p \in Prices \cup FixedPrices}, total : Amounts, discount : Amounts]

\* What the lines cost is kept as a function of their places; without credit lines
\* nothing costs less than nothing.
Money == IF NoCredits THEN Nat ELSE Int
Costs == [DOMAIN lines -> Money]

LEMMA AmountsType ==
    /\ Amounts \in {Nat, Int} /\ Levels \subseteq Amounts
    /\ \A a \in Amounts : a \in Int
    /\ \A a \in Nat : a \in Amounts
<1>1. Amounts \in {Nat, Int} /\ Levels \subseteq Amounts
    BY RatingAssumption DEF Amounts
<1> QED BY <1>1

\* What is computed of amounts are amounts.
LEMMA AmountsAreClosed ==
    ASSUME NEW a \in Amounts, NEW b \in Amounts
    PROVE  a + b \in Amounts /\ a * b \in Amounts
<1>1. CASE Amounts = Nat
    <2>1. a + b \in Nat /\ a * b \in Nat
        BY <1>1
    <2> QED BY <1>1, <2>1
<1>2. CASE Amounts = Int
    <2>1. a + b \in Int /\ a * b \in Int
        BY <1>2
    <2> QED BY <1>2, <2>1
<1> QED BY <1>1, <1>2, AmountsType

LEMMA QuotientsAreAmounts ==
    ASSUME NEW a \in Amounts, NEW d \in Nat \ {0}
    PROVE  DivRound(a, d) \in Amounts /\ CeilDiv(a, d) \in Amounts /\ a \div d \in Amounts
<1>1. CASE Amounts = Nat
    <2>1. a \div d \in Nat /\ CeilDiv(a, d) \in Nat
        BY <1>1 DEF CeilDiv
    <2>2. DivRound(a, d) \in Nat
        BY <1>1, DivRoundType
    <2> QED BY <1>1, <2>1, <2>2
<1>2. CASE Amounts = Int
    <2>1. a \div d \in Int /\ CeilDiv(a, d) \in Int
        BY <1>2 DEF CeilDiv
    <2>2. DivRound(a, d) \in Int
        BY <1>2, DivRoundInteger
    <2> QED BY <1>2, <2>1, <2>2
<1> QED BY <1>1, <1>2, AmountsType

LEMMA LinesType ==
    ASSUME lines \in Seq(LineRecord)
    PROVE  /\ Len(lines) \in Nat /\ DOMAIN lines = 1 .. Len(lines)
           /\ \A i \in DOMAIN lines : lines[i] \in LineRecord
           /\ \A i \in DOMAIN lines : lines[i].total \in Amounts /\ lines[i].discount \in Amounts
           /\ \A i \in DOMAIN lines : lines[i].total \in Int /\ lines[i].discount \in Int
           /\ \A i \in DOMAIN lines : lines[i].total \in Money
           /\ IsFiniteSet(DOMAIN lines) /\ DOMAIN lines \in SUBSET Nat
<1>1. /\ Len(lines) \in Nat /\ DOMAIN lines = 1 .. Len(lines)
      /\ \A i \in DOMAIN lines : lines[i] \in LineRecord
    BY SequenceType
<1>2. \A i \in DOMAIN lines : lines[i].total \in Amounts /\ lines[i].discount \in Amounts
    BY <1>1 DEF LineRecord
<1>3. \A i \in DOMAIN lines : lines[i].total \in Int /\ lines[i].discount \in Int
    <2>1. \A a \in Amounts : a \in Int
        BY AmountsType
    <2> QED BY <1>2, <2>1
<1>4. \A i \in DOMAIN lines : lines[i].total \in Money
    BY <1>3 DEF Money, NoCredits
<1>5. IsFiniteSet(1 .. Len(lines))
    BY <1>1, LargestType
<1> QED BY <1>1, <1>2, <1>3, <1>4, <1>5

LEMMA MatchedType ==
    ASSUME lines \in Seq(LineRecord), NEW c
    PROVE  /\ Matched(c) \in SUBSET (DOMAIN lines) /\ Matched(c) \in SUBSET Nat /\ IsFiniteSet(Matched(c))
<1>1. Matched(c) \in SUBSET (DOMAIN lines)
    BY DEF Matched
<1> QED BY <1>1, LinesType, FS_Subset

\* What a coupon takes off is no more than there is.
LEMMA RawDiscountType ==
    ASSUME NEW c \in Coupons, NEW base \in Nat
    PROVE  /\ RawDiscount(c, base) \in Nat /\ RawDiscount(c, base) <= base
           /\ RawDiscount(c, base) = IF c.type = "fixed" THEN IF c.off < base THEN c.off ELSE base
                                     ELSE DivRound(base * c.off, 100)
<1>1. CouponOK(c)
    BY RatingAssumption
<1>2. CASE c.type = "fixed"
    <2>1. c.off \in Nat
        BY <1>1, <1>2 DEF CouponOK
    <2>2. RawDiscount(c, base) = Min({c.off, base})
        BY <1>2 DEF RawDiscount
    <2>3. Min({c.off, base}) = IF c.off <= base THEN c.off ELSE base
        BY <2>1, MinOfPair
    <2> QED BY <1>2, <2>1, <2>2, <2>3
<1>3. CASE c.type = "percentage"
    <2>1. c.off \in 1 .. 100
        BY <1>1, <1>3 DEF CouponOK
    <2>2. RawDiscount(c, base) = DivRound(base * c.off, 100)
        BY <1>3 DEF RawDiscount
    <2>3. base * c.off \in Nat /\ base * c.off <= base * 100
        BY <2>1, ProductOrder
    <2>4. \A m \in Nat : m <= base * 100 => DivRound(m, 100) \in Nat /\ DivRound(m, 100) <= base
        BY DEF DivRound
    <2> QED BY <1>3, <2>2, <2>3, <2>4
<1> QED BY <1>1, <1>2, <1>3 DEF CouponOK

Applies(d) == InWindow(d) /\ (d.coupon.type = "fixed" => d.coupon.sameCurrency)

\* One discount takes exactly its amount, and of each of its lines the line's share.
TakesExactly(net, d, base, raw, off) ==
    /\ base \in Nat /\ raw \in Nat
    /\ SumFunction(off) = raw
    /\ \A i \in DOMAIN lines :
          /\ off[i] \in Nat /\ off[i] <= net[i]
          /\ i \notin Matched(d.coupon) => off[i] = 0
          /\ i \in Matched(d.coupon) /\ base > 0 =>
                off[i] * base - raw * net[i] \in 1 - base .. base - 1

LEMMA TakeOffIsExact ==
    ASSUME lines \in Seq(LineRecord), NoCredits, NEW net \in Costs, NEW d \in Discounts,
           NEW base, base = SumFunctionOnSet(net, Matched(d.coupon)),
           NEW raw, raw = IF Applies(d) THEN RawDiscount(d.coupon, base) ELSE 0,
           NEW off, off = [i \in DOMAIN lines |-> net[i] - TakeOff(net, d)[i]]
    PROVE  TakeOff(net, d) \in Costs /\ TakesExactly(net, d, base, raw, off)
<1> DEFINE L == DOMAIN lines
           ids == Matched(d.coupon)
           takes == Takes(d, net)
<1>1. IsFiniteSet(L) /\ ids \in SUBSET L /\ ids \in SUBSET Nat /\ IsFiniteSet(ids)
    BY LinesType, MatchedType
<1>2. DOMAIN net = L /\ (\A i \in L : net[i] \in Nat) /\ Costs = [L -> Nat]
    BY DEF Costs, Money
<1>3. base \in Nat
    <2>1. \A i \in ids : net[i] \in Nat
        BY <1>1, <1>2
    <2> QED BY <1>1, <2>1, SumOfNaturals
<1>4. d.coupon \in Coupons
    BY DEF Discounts
<1>5. raw \in Nat /\ raw <= base
    BY <1>3, <1>4, RawDiscountType
<1>6. takes = IF Applies(d) /\ base > 0 /\ RawDiscount(d.coupon, base) > 0
              THEN AllocateProportional(RawDiscount(d.coupon, base), ids, net) ELSE <<>>
    BY DEF Takes, Applies
<1>7. TakeOff(net, d) = [i \in L |-> net[i] - IF i \in DOMAIN takes THEN takes[i] ELSE 0]
    BY <1>2 DEF TakeOff
<1>8. CASE raw = 0
    <2>1. takes = <<>>
        BY <1>5, <1>6, <1>8
    <2>2. \A i \in L : TakeOff(net, d)[i] = net[i] /\ off[i] = 0
        BY <1>2, <1>7, <2>1
    <2>3. TakeOff(net, d) \in Costs
        BY <1>2, <1>7, <2>2
    <2>4. SumFunction(off) = 0
        <3>1. IntegerOn(off, L) /\ DOMAIN off = L /\ {} \in SUBSET L
            BY <2>2 DEF IntegerOn
        <3>2. SumFunctionOnSet(off, L) = SumFunctionOnSet(off, {})
            BY <1>1, <2>2, <3>1, SumOfSupport
        <3> QED BY <3>1, <3>2, SumEmpty DEF SumFunction
    <2>5. ASSUME NEW i \in ids, base > 0 PROVE off[i] * base - raw * net[i] \in 1 - base .. base - 1
        <3>1. off[i] = 0 /\ net[i] \in Nat
            BY <1>1, <1>2, <2>2
        <3> QED BY <1>3, <1>8, <2>5, <3>1
    <2> QED BY <1>2, <1>3, <1>8, <2>2, <2>3, <2>4, <2>5 DEF TakesExactly
<1>9. CASE raw # 0
    <2>1. raw = RawDiscount(d.coupon, base) /\ raw > 0 /\ base > 0 /\ Applies(d)
        BY <1>3, <1>5, <1>9
    <2>2. takes = AllocateProportional(raw, ids, net)
        BY <1>6, <2>1
    <2>3. \A i \in ids : net[i] \in Nat
        BY <1>1, <1>2
    <2>4. /\ takes \in [ids -> Nat]
          /\ \A i \in ids : takes[i] <= net[i]
          /\ \A i \in ids : takes[i] * base - raw * net[i] \in 1 - base .. base - 1
          /\ SumFunctionOnSet(takes, ids) = raw
        <3> HIDE DEF takes, ids
        <3>1. base = SumFunctionOnSet(net, ids)
            BY DEF ids
        <3> QED BY <1>1, <1>5, <2>1, <2>2, <2>3, <3>1, AllocationIsExact
    <2> HIDE DEF takes
    <2>5. ASSUME NEW i \in L
          PROVE  /\ TakeOff(net, d)[i] \in Nat /\ off[i] = (IF i \in ids THEN takes[i] ELSE 0)
                 /\ off[i] \in Nat /\ off[i] <= net[i]
        <3>1. TakeOff(net, d)[i] = net[i] - IF i \in ids THEN takes[i] ELSE 0
            BY <1>7, <2>4
        <3>2. net[i] \in Nat /\ off[i] = net[i] - TakeOff(net, d)[i]
            BY <1>2
        <3>3. CASE i \in ids
            <4>1. takes[i] \in Nat /\ takes[i] <= net[i]
                BY <2>4, <3>3
            <4> QED BY <3>1, <3>2, <3>3, <4>1
        <3>4. CASE i \notin ids
            BY <3>1, <3>2, <3>4
        <3> QED BY <3>3, <3>4
    <2>6. TakeOff(net, d) \in Costs
        BY <1>2, <1>7, <2>5
    <2>7. SumFunction(off) = raw
        <3>1. IntegerOn(off, L) /\ DOMAIN off = L
            BY <2>5 DEF IntegerOn
        <3>2. \A i \in L \ ids : off[i] = 0
            BY <2>5
        <3>3. SumFunctionOnSet(off, L) = SumFunctionOnSet(off, ids)
            <4> HIDE DEF ids
            <4> QED BY <1>1, <3>1, <3>2, SumOfSupport
        <3>4. SumFunctionOnSet(off, ids) = SumFunctionOnSet(takes, ids)
            <4>1. IntegerOn(off, ids) /\ \A i \in ids : off[i] = takes[i]
                BY <1>1, <2>5 DEF IntegerOn
            <4> HIDE DEF ids
            <4> QED BY <1>1, <4>1, SumSame
        <3> QED BY <2>4, <3>1, <3>3, <3>4 DEF SumFunction
    <2>8. ASSUME NEW i \in ids PROVE off[i] * base - raw * net[i] \in 1 - base .. base - 1
        <3>1. off[i] = takes[i]
            BY <1>1, <2>5
        <3> QED BY <2>4, <3>1
    <2> QED BY <1>3, <1>5, <2>5, <2>6, <2>7, <2>8 DEF TakesExactly
<1> QED BY <1>8, <1>9

\* With credit lines a discount still leaves whole cents.
LEMMA TakeOffType ==
    ASSUME lines \in Seq(LineRecord), NEW net \in Costs, NEW d \in Discounts
    PROVE  TakeOff(net, d) \in Costs
<1> DEFINE L == DOMAIN lines
           ids == Matched(d.coupon)
           takes == Takes(d, net)
           base == SumFunctionOnSet(net, ids)
           raw == RawDiscount(d.coupon, base)
<1>1. CASE NoCredits
    <2> DEFINE amount == IF Applies(d) THEN raw ELSE 0
               off == [i \in L |-> net[i] - TakeOff(net, d)[i]]
    <2>1. /\ base = SumFunctionOnSet(net, Matched(d.coupon))
          /\ amount = IF Applies(d) THEN RawDiscount(d.coupon, base) ELSE 0
          /\ off = [i \in DOMAIN lines |-> net[i] - TakeOff(net, d)[i]]
        OBVIOUS
    <2> HIDE DEF base, amount, off
    <2> QED BY <1>1, <2>1, TakeOffIsExact
<1>2. CASE ~NoCredits
    <2>1. Costs = [L -> Int]
        BY <1>2 DEF Costs, Money
    <2>2. IsFiniteSet(ids) /\ ids \in SUBSET L
        BY MatchedType
    <2>3. base \in Int
        <3>1. IntegerOn(net, ids)
            BY <2>1, <2>2 DEF IntegerOn
        <3> QED BY <2>2, <3>1, SumType
    <2>4. ASSUME base > 0 PROVE raw \in Nat
        <3>1. base \in Nat /\ d.coupon \in Coupons
            BY <2>3, <2>4 DEF Discounts
        <3> HIDE DEF base
        <3> QED BY <3>1, RawDiscountType
    <2>5. ASSUME base > 0
          PROVE  \A i \in ids : i \in DOMAIN AllocateProportional(raw, ids, net)
                                => AllocateProportional(raw, ids, net)[i] \in Int
        <3> DEFINE share(i) == Quotient(net[i] * raw, base)
                   remainder(i) == net[i] * raw - base * share(i)
                   leftover == raw - SumFunction([i \in ids |-> share(i)])
                   rank(i) == Cardinality({j \in ids : remainder(j) > remainder(i)
                                                        \/ (remainder(j) = remainder(i) /\ j < i)})
                   extra(i) == IF rank(i) < leftover THEN 1 ELSE 0
        <3>1. AllocateProportional(raw, ids, net) = [i \in ids |-> share(i) + extra(i)]
            BY Zenon DEF AllocateProportional
        <3>2. \A n \in Int, b \in Nat \ {0} : Quotient(n, b) \in Int
            <4> TAKE n \in Int, b \in Nat \ {0}
            <4>1. n \div b \in Int /\ (-n) \div b \in Int
                OBVIOUS
            <4> QED BY <4>1 DEF Quotient
        <3>3. \A i \in ids : net[i] \in Int
            BY <2>1, <2>2
        <3>4. base \in Nat \ {0} /\ raw \in Int
            BY <2>3, <2>4, <2>5
        <3> HIDE DEF base, raw, rank, leftover
        <3>5. \A i \in ids : net[i] * raw \in Int
            BY <3>3, <3>4
        <3>6. \A i \in ids : share(i) \in Int
            BY <3>2, <3>4, <3>5
        <3>7. \A i \in ids : extra(i) \in Int
            OBVIOUS
        <3> HIDE DEF share, extra
        <3> QED BY <3>1, <3>6, <3>7
    <2>6. takes = IF Applies(d) /\ base > 0 /\ raw > 0 THEN AllocateProportional(raw, ids, net) ELSE <<>>
        BY DEF Takes, Applies
    <2>7. \A i \in L : i \in DOMAIN takes => takes[i] \in Int
        <3>1. CASE Applies(d) /\ base > 0 /\ raw > 0
            <4>1. takes = AllocateProportional(raw, ids, net)
                BY <2>6, <3>1
            <4>2. DOMAIN AllocateProportional(raw, ids, net) = ids
                BY DEF AllocateProportional
            <4> HIDE DEF takes, raw, base, ids
            <4> QED BY <2>5, <3>1, <4>1, <4>2
        <3>2. CASE ~(Applies(d) /\ base > 0 /\ raw > 0)
            <4>1. takes = <<>>
                BY <2>6, <3>2
            <4> QED BY <4>1
        <3> QED BY <3>1, <3>2
    <2>8. TakeOff(net, d) = [i \in L |-> net[i] - IF i \in DOMAIN takes THEN takes[i] ELSE 0]
        BY <2>1 DEF TakeOff
    <2>9. \A i \in L : net[i] \in Int
        BY <2>1
    <2> HIDE DEF takes
    <2>10. \A i \in L : net[i] - (IF i \in DOMAIN takes THEN takes[i] ELSE 0) \in Int
        BY <2>7, <2>9
    <2> QED BY <2>1, <2>8, <2>10
<1> QED BY <1>1, <1>2

Totals == [i \in DOMAIN lines |-> lines[i].total]

\* One discount after the other: g[k] is what the lines cost after the first k.
TakenInTurn(g, ds) == g[0] = Totals /\ \A k \in 1 .. Len(ds) : g[k] = TakeOff(g[k - 1], ds[k])

LEMMA NetAfterIs ==
    ASSUME lines \in Seq(LineRecord), NEW ds \in Seq(Discounts), NEW g, TakenInTurn(g, ds)
    PROVE  NetAfter(ds) = g[Len(ds)]
<1> DEFINE n == Len(ds)
           P(h) == h = [s \in SUBSET DOMAIN ds |-> IF s = {} THEN Totals
                                                   ELSE TakeOff(h[s \ {Max(s)}], ds[Max(s)])]
           H == CHOOSE h : P(h)
           op == [k \in 1 .. n |-> [net \in Costs |-> TakeOff(net, ds[k])]]
<1>1. n \in Nat /\ DOMAIN ds = 1 .. n /\ \A k \in DOMAIN ds : ds[k] \in Discounts
    BY SequenceType
<1>2. Totals \in Costs
    BY LinesType DEF Totals, Costs
<1>3. ASSUME NEW k \in 1 .. n, NEW net \in Costs PROVE TakeOff(net, ds[k]) \in Costs
    BY <1>1, TakeOffType
<1>4. \A k \in 1 .. n : \A net \in Costs : op[k][net] \in Costs /\ op[k][net] = TakeOff(net, ds[k])
    BY <1>3
<1> HIDE DEF op, n
<1>5. PICK h \in [SUBSET (1 .. n) -> Costs] : Folds(h, 1 .. n, Totals, Largest(n), op)
    BY <1>1, <1>2, <1>4, LeftFoldExists
<1>6. P(h)
    <2>1. ASSUME NEW s \in SUBSET (1 .. n), s # {} PROVE h[s] = TakeOff(h[s \ {Max(s)}], ds[Max(s)])
        <3>1. Largest(n)[s] = Max(s) /\ Max(s) \in s
            BY <1>1, <2>1, LargestIs, Zenon
        <3>3. h[s] = op[Max(s)][h[s \ {Max(s)}]]
            BY <1>5, <2>1, <3>1 DEF Folds
        <3>4. h[s \ {Max(s)}] \in Costs /\ Max(s) \in 1 .. n
            BY <3>1
        <3> QED BY <1>4, <3>3, <3>4
    <2>2. h[{}] = Totals
        BY <1>5 DEF Folds
    <2>3. h = [s \in SUBSET (1 .. n) |-> h[s]]
        OBVIOUS
    <2> QED BY <1>1, <2>1, <2>2, <2>3
<1>7. P(H)
    BY <1>6
<1>8. NetAfter(ds) = H[DOMAIN ds]
    BY Zenon DEF NetAfter, FoldLeft, MapThenFoldSet, Totals
<1> HIDE DEF H
<1>9. \A k \in 0 .. n : H[1 .. k] = g[k]
    <2> DEFINE Good == {k \in 0 .. n : H[1 .. k] = g[k]}
    <2>1. 0 \in Good
        <3>1. 1 .. 0 = {} /\ 0 \in 0 .. n
            BY <1>1
        <3>2. H[{}] = Totals
            BY <1>7
        <3> QED BY <3>1, <3>2 DEF TakenInTurn
    <2>2. ASSUME NEW k \in 1 .. n, k - 1 \in Good PROVE k \in Good
        <3>1. /\ Max(1 .. k) = k /\ (1 .. k) \ {k} = 1 .. k - 1
              /\ 1 .. k \in SUBSET DOMAIN ds /\ 1 .. k # {} /\ k \in 0 .. n
            BY <1>1, FirstPlaces, Zenon
        <3>2. H[1 .. k] = TakeOff(H[(1 .. k) \ {Max(1 .. k)}], ds[Max(1 .. k)])
            BY <1>7, <3>1
        <3>3. H[1 .. k] = TakeOff(H[1 .. k - 1], ds[k])
            BY <3>1, <3>2
        <3>4. H[1 .. k - 1] = g[k - 1]
            BY <2>2
        <3>5. g[k] = TakeOff(g[k - 1], ds[k])
            BY DEF TakenInTurn, n
        <3>6. H[1 .. k] = g[k]
            BY <3>3, <3>4, <3>5
        <3> HIDE DEF P
        <3> QED BY <3>1, <3>6
    <2> HIDE DEF Good
    <2>3. \A k \in 0 .. n : k \in Good
        BY <1>1, <2>1, <2>2, PrefixInduction
    <2> QED BY <2>3 DEF Good
<1>10. n \in 0 .. n
    BY <1>1
<1> QED BY <1>1, <1>8, <1>9, <1>10 DEF n

\* There are such values, and they never grow if no line is a credit.
LEMMA TakenInTurnExists ==
    ASSUME lines \in Seq(LineRecord), NEW ds \in Seq(Discounts)
    PROVE  \E g \in [0 .. Len(ds) -> Costs] :
               /\ TakenInTurn(g, ds)
               /\ NoCredits => \A k \in 0 .. Len(ds) : \A i \in DOMAIN lines : g[k][i] <= lines[i].total
<1> DEFINE n == Len(ds)
           op == [k \in 1 .. n |-> [net \in Costs |-> TakeOff(net, ds[k])]]
<1>1. n \in Nat /\ DOMAIN ds = 1 .. n /\ \A k \in DOMAIN ds : ds[k] \in Discounts
    BY SequenceType
<1>2. Totals \in Costs
    BY LinesType DEF Totals, Costs
<1>3. ASSUME NEW k \in 1 .. n, NEW net \in Costs
      PROVE  /\ TakeOff(net, ds[k]) \in Costs
             /\ NoCredits => \A i \in DOMAIN lines : TakeOff(net, ds[k])[i] <= net[i]
    <2>0. TakeOff(net, ds[k]) \in Costs
        BY <1>1, TakeOffType
    <2> SUFFICES ASSUME NoCredits PROVE \A i \in DOMAIN lines : TakeOff(net, ds[k])[i] <= net[i]
        BY <2>0
    <2> DEFINE off == [i \in DOMAIN lines |-> net[i] - TakeOff(net, ds[k])[i]]
    <2>1. ds[k] \in Discounts
        BY <1>1
    <2>2. TakeOff(net, ds[k]) \in Costs /\ \A i \in DOMAIN lines : off[i] \in Nat
        <3> HIDE DEF off
        <3>1. off = [i \in DOMAIN lines |-> net[i] - TakeOff(net, ds[k])[i]]
            BY DEF off
        <3> QED BY <2>1, <3>1, TakeOffIsExact DEF TakesExactly
    <2>3. \A i \in DOMAIN lines : net[i] \in Int /\ TakeOff(net, ds[k])[i] \in Int
                                  /\ net[i] - TakeOff(net, ds[k])[i] \in Nat
        BY <2>2 DEF Costs, Money
    <2>4. ASSUME NEW i \in DOMAIN lines PROVE TakeOff(net, ds[k])[i] <= net[i]
        BY <2>3
    <2> QED BY <2>4
<1>4. \A k \in 1 .. n : \A net \in Costs : op[k][net] \in Costs /\ op[k][net] = TakeOff(net, ds[k])
    BY <1>3
<1> HIDE DEF op, n
<1>5. PICK g \in [0 .. n -> Costs] : g[0] = Totals /\ \A k \in 1 .. n : g[k] = op[k][g[k - 1]]
    <2>1. \E g \in [0 .. n -> Costs] : Steps(g, n, Totals, op)
        BY <1>1, <1>2, <1>4, StepsExist
    <2> QED BY <2>1 DEF Steps
<1>6. \A k \in 1 .. n : g[k - 1] \in Costs /\ g[k] \in Costs /\ g[k] = TakeOff(g[k - 1], ds[k])
    <2> TAKE k \in 1 .. n
    <2>1. g[k - 1] \in Costs /\ g[k] \in Costs
        BY <1>1
    <2> QED BY <1>4, <1>5, <2>1
<1>7. TakenInTurn(g, ds)
    BY <1>5, <1>6 DEF TakenInTurn, n
<1>8. ASSUME NoCredits
      PROVE  \A k \in 0 .. n : \A i \in DOMAIN lines : g[k][i] <= lines[i].total
    <2> DEFINE Good == {k \in 0 .. n : \A i \in DOMAIN lines : g[k][i] <= lines[i].total}
    <2>1. 0 \in Good
        <3>1. \A i \in DOMAIN lines : g[0][i] = lines[i].total /\ lines[i].total \in Int
            BY <1>5, LinesType DEF Totals
        <3> QED BY <1>1, <3>1
    <2>2. ASSUME NEW k \in 1 .. n, k - 1 \in Good PROVE k \in Good
        <3>1. ASSUME NEW i \in DOMAIN lines PROVE g[k][i] <= lines[i].total
            <4>1. g[k - 1] \in Costs /\ g[k] = TakeOff(g[k - 1], ds[k]) /\ g[k] \in Costs
                BY <1>6
            <4>2. g[k][i] <= g[k - 1][i]
                BY <1>3, <1>8, <4>1
            <4>3. g[k - 1][i] <= lines[i].total
                BY <2>2
            <4>4. g[k][i] \in Nat /\ g[k - 1][i] \in Nat /\ lines[i].total \in Int
                BY <1>8, <4>1, LinesType DEF Costs, Money
            <4> QED BY <4>2, <4>3, <4>4
        <3>2. k \in 0 .. n
            BY <1>1
        <3> QED BY <3>1, <3>2
    <2> HIDE DEF Good
    <2>3. \A k \in 0 .. n : k \in Good
        BY <1>1, <2>1, <2>2, PrefixInduction
    <2> QED BY <2>3 DEF Good
<1> QED BY <1>7, <1>8 DEF n

----------------------------------------------------------------------------
(* A built invoice. *)

\* The lines of a built invoice carry what its discounts took in turn.
Built ==
    phase = "built" =>
        \E g \in [0 .. Len(discounts) -> Costs] :
            /\ TakenInTurn(g, ByRedeemedAt(discounts))
            /\ \A i \in DOMAIN lines : lines[i].discount = lines[i].total - g[Len(discounts)][i]

RedeemedAt(ds) == [k \in DOMAIN ds |-> ds[k].redeemedAt]

LEMMA RedeemedAtType ==
    ASSUME NEW ds \in Seq(Discounts)
    PROVE  /\ RedeemedAt(ds) \in [1 .. Len(ds) -> Int] /\ RedeemedAt(ds) \in [DOMAIN ds -> Int]
           /\ ByRedeemedAt(ds) = StableSort(ds, RedeemedAt(ds))
<1>1. Len(ds) \in Nat /\ DOMAIN ds = 1 .. Len(ds) /\ \A k \in DOMAIN ds : ds[k] \in Discounts
    BY SequenceType
<1>2. \A k \in DOMAIN ds : ds[k].redeemedAt \in Int
    BY <1>1 DEF Discounts
<1> QED BY <1>1, <1>2 DEF RedeemedAt, ByRedeemedAt

LEMMA ByRedeemedAtType ==
    ASSUME NEW ds \in Seq(Discounts)
    PROVE  /\ ByRedeemedAt(ds) \in Seq(Discounts) /\ Len(ByRedeemedAt(ds)) = Len(ds)
           /\ \A k \in 1 .. Len(ds) : ByRedeemedAt(ds)[k] = ds[Placed(RedeemedAt(ds), k)]
<1>1. DOMAIN ds = 1 .. Len(ds) /\ RedeemedAt(ds) \in [DOMAIN ds -> Int]
    BY SequenceType, RedeemedAtType
<1>2. /\ StableSort(ds, RedeemedAt(ds)) \in Seq(Discounts)
      /\ Len(StableSort(ds, RedeemedAt(ds))) = Len(ds)
      /\ \A k \in DOMAIN ds : StableSort(ds, RedeemedAt(ds))[k] = ds[Placed(RedeemedAt(ds), k)]
    BY <1>1, StableSortType, Zenon
<1> QED BY <1>1, <1>2, RedeemedAtType

\* Counting the discounts that were redeemed before finds the same places.
LEMMA PlacesByCounting ==
    ASSUME NEW ds \in Seq(Discounts), Redeemed(ds), NEW k \in 1 .. Len(ds)
    PROVE  (CHOOSE i \in 1 .. Len(ds) :
               Cardinality({j \in 1 .. Len(ds) : ds[j].redeemedAt <= ds[i].redeemedAt}) = k)
           = Placed(RedeemedAt(ds), k)
<1> DEFINE n == Len(ds)
           key == RedeemedAt(ds)
           count(i) == Cardinality({j \in 1 .. n : ds[j].redeemedAt <= ds[i].redeemedAt})
<1>1. n \in Nat /\ DOMAIN ds = 1 .. n /\ key \in [1 .. n -> Int] /\ DOMAIN key = 1 .. n
    BY SequenceType, RedeemedAtType
<1>2. \A i \in 1 .. n : key[i] = ds[i].redeemedAt /\ key[i] \in Int
    BY <1>1 DEF RedeemedAt
<1>3. \A i, j \in 1 .. n : i # j => key[i] # key[j]
    BY <1>1, <1>2 DEF Redeemed
<1>4. ASSUME NEW i \in 1 .. n PROVE count(i) = Position(key, i)
    <2>1. \A j \in 1 .. n : ds[j].redeemedAt <= ds[i].redeemedAt
                            <=> key[j] < key[i] \/ (key[j] = key[i] /\ j <= i)
        BY <1>2, <1>3
    <2>2. {j \in 1 .. n : ds[j].redeemedAt <= ds[i].redeemedAt}
          = {j \in DOMAIN key : key[j] < key[i] \/ (key[j] = key[i] /\ j <= i)}
        BY <1>1, <2>1
    <2> QED BY <2>2 DEF Position
<1> HIDE DEF key, count, n
<1>5. Placed(key, k) \in 1 .. n /\ Position(key, Placed(key, k)) = k
    BY <1>1, Sorting DEF n
<1>6. \E i \in 1 .. n : count(i) = k
    BY <1>4, <1>5
<1> DEFINE c == CHOOSE i \in 1 .. n : count(i) = k
<1>7. c \in 1 .. n /\ count(c) = k
    BY <1>6
<1> HIDE DEF c
<1>8. Position(key, c) = k
    BY <1>4, <1>7
<1>9. Placed(key, Position(key, c)) = c
    BY <1>1, <1>7, Sorting
<1>10. c = Placed(key, k)
    BY <1>8, <1>9
<1> QED BY <1>10 DEF c, count, key, n

LEMMA BuiltIsExact ==
    ASSUME lines \in Seq(LineRecord), discounts \in Seq(Discounts), Redeemed(discounts), Built
    PROVE  DiscountsAreExact
<1> SUFFICES ASSUME phase = "built", NoCredits PROVE DiscountsAreExact
    BY DEF DiscountsAreExact
<1> DEFINE n == Len(discounts)
           sorted == ByRedeemedAt(discounts)
           inOrder == [k \in 1 .. n |-> discounts[CHOOSE i \in 1 .. n :
                          Cardinality({j \in 1 .. n : discounts[j].redeemedAt
                                                        <= discounts[i].redeemedAt}) = k]]
           net(k) == NetAfter(SubSeq(inOrder, 1, k))
           due(d, base) == IF d.coupon.type = "fixed"
                           THEN IF d.coupon.off < base THEN d.coupon.off ELSE base
                           ELSE DivRound(base * d.coupon.off, 100)
<1>1. n \in Nat /\ DOMAIN discounts = 1 .. n
    BY SequenceType
<1>2. /\ sorted \in Seq(Discounts) /\ Len(sorted) = n
      /\ \A k \in 1 .. n : sorted[k] = discounts[Placed(RedeemedAt(discounts), k)]
      /\ DOMAIN sorted = 1 .. n /\ \A k \in 1 .. n : sorted[k] \in Discounts
    BY ByRedeemedAtType, SequenceType
<1>3. inOrder = sorted
    <2>1. \A k \in 1 .. n : inOrder[k] = discounts[Placed(RedeemedAt(discounts), k)]
        BY PlacesByCounting
    <2>2. DOMAIN inOrder = 1 .. n /\ inOrder = [k \in 1 .. n |-> inOrder[k]]
        OBVIOUS
    <2>3. sorted = [k \in 1 .. n |-> sorted[k]]
        <3> HIDE DEF sorted
        <3> QED BY <1>2
    <2> HIDE DEF inOrder, sorted, n
    <2>4. \A k \in 1 .. n : inOrder[k] = sorted[k]
        BY <1>2, <2>1
    <2> QED BY <2>2, <2>3, <2>4
<1>4. PICK g \in [0 .. n -> Costs] :
          TakenInTurn(g, sorted) /\ \A i \in DOMAIN lines : lines[i].discount = lines[i].total - g[n][i]
    BY DEF Built
<1> HIDE DEF inOrder, sorted
<1>5. ASSUME NEW k \in 0 .. n PROVE net(k) = g[k]
    <2> DEFINE s == SubSeq(sorted, 1, k)
    <2>1. /\ s \in Seq(Discounts) /\ Len(s) = k /\ \A j \in 1 .. k : s[j] = sorted[j]
        BY <1>1, <1>2
    <2>2. \A j \in 1 .. k : j \in 1 .. n
        BY <1>1
    <2> HIDE DEF s
    <2>3. TakenInTurn(g, s)
        BY <1>2, <1>4, <2>1, <2>2 DEF TakenInTurn
    <2>4. NetAfter(s) = g[k]
        BY <2>1, <2>3, NetAfterIs
    <2> QED BY <1>3, <2>4 DEF s
<1>6. \A i \in DOMAIN lines : lines[i].total - lines[i].discount = net(n)[i]
    <2>1. n \in 0 .. n /\ g[n] \in Costs
        BY <1>1
    <2>2. net(n) = g[n]
        BY <1>5, <2>1
    <2> HIDE DEF n, net
    <2> TAKE i \in DOMAIN lines
    <2>3. g[n][i] \in Nat /\ lines[i].total \in Int /\ lines[i].discount \in Int
        BY <2>1, LinesType DEF Costs, Money
    <2>4. lines[i].discount = lines[i].total - g[n][i]
        BY <1>4
    <2> QED BY <2>2, <2>3, <2>4
<1>7. ASSUME NEW k \in 1 .. n
      PROVE  LET d == inOrder[k]
                 before == net(k - 1)
                 off  == [i \in DOMAIN lines |-> before[i] - net(k)[i]]
                 base == SumFunctionOnSet(before, Matched(d.coupon))
                 applies == InWindow(d) /\ (d.coupon.type = "fixed" => d.coupon.sameCurrency)
                 raw == IF applies THEN due(d, base) ELSE 0
             IN  /\ SumFunction(off) = raw
                 /\ \A i \in DOMAIN lines :
                       /\ 0 <= off[i] /\ off[i] <= before[i]
                       /\ i \notin Matched(d.coupon) => off[i] = 0
                       /\ i \in Matched(d.coupon) /\ base > 0 =>
                             off[i] * base - raw * before[i] \in 1 - base .. base - 1
    <2> DEFINE d == inOrder[k]
               before == net(k - 1)
               off  == [i \in DOMAIN lines |-> before[i] - net(k)[i]]
               base == SumFunctionOnSet(before, Matched(d.coupon))
               applies == InWindow(d) /\ (d.coupon.type = "fixed" => d.coupon.sameCurrency)
               raw == IF applies THEN due(d, base) ELSE 0
    <2>1. k - 1 \in 0 .. n /\ k \in 0 .. n
        BY <1>1
    <2>2. before = g[k - 1] /\ net(k) = g[k]
        BY <1>5, <2>1
    <2>3. before \in Costs
        BY <1>4, <2>1, <2>2
    <2>4. d \in Discounts /\ d = sorted[k] /\ d.coupon \in Coupons
        BY <1>2, <1>3 DEF Discounts
    <2>5. net(k) = TakeOff(before, d)
        BY <1>2, <1>4, <2>2, <2>4 DEF TakenInTurn
    <2> HIDE DEF net, d, before
    <2>6. off = [i \in DOMAIN lines |-> before[i] - TakeOff(before, d)[i]]
        BY <2>5
    <2> DEFINE raw2 == IF Applies(d) THEN RawDiscount(d.coupon, base) ELSE 0
    <2>7. TakesExactly(before, d, base, raw2, off)
        <3> HIDE DEF base, off, raw2, raw, applies, due, n
        <3>1. base = SumFunctionOnSet(before, Matched(d.coupon))
            BY DEF base
        <3>2. raw2 = IF Applies(d) THEN RawDiscount(d.coupon, base) ELSE 0
            BY DEF raw2
        <3> QED BY <2>3, <2>4, <2>6, <3>1, <3>2, TakeOffIsExact
    <2>8. raw = raw2
        <3> HIDE DEF base
        <3>1. base \in Nat
            BY <2>7 DEF TakesExactly
        <3> QED BY <2>4, <3>1, RawDiscountType DEF Applies
    <2> HIDE DEF off, base, raw, raw2
    <2>9. \A i \in DOMAIN lines : 0 <= off[i]
        BY <2>7 DEF TakesExactly
    <2>10. /\ SumFunction(off) = raw
           /\ \A i \in DOMAIN lines :
                 /\ 0 <= off[i] /\ off[i] <= before[i]
                 /\ i \notin Matched(d.coupon) => off[i] = 0
                 /\ i \in Matched(d.coupon) /\ base > 0 =>
                       off[i] * base - raw * before[i] \in 1 - base .. base - 1
        BY <2>7, <2>8, <2>9 DEF TakesExactly
    <2> QED BY <2>10 DEF off, base, raw, d, before
<1> QED BY <1>6, <1>7 DEF DiscountsAreExact, inOrder

----------------------------------------------------------------------------
(* The replay of a history. *)

Times == 0 .. To - 1
Closed == [seat : Seats, from : Times, to : Times]
Replay == {r \in [open : [Seats -> Times \cup {NotOpen}], out : Seq(Closed)] :
              IsFiniteSet({i \in Seats : r.open[i] # NotOpen})}
Nothing == [open |-> [i \in Seats |-> NotOpen], out |-> <<>>]

LEMMA PeriodType == /\ From \in Nat \ {0} /\ To \in Nat /\ From < To /\ One \in Nat \ {0}
                    /\ To - From \in Nat \ {0} /\ Levels \subseteq Int /\ Digits \in Nat \ {0}
                    /\ Grain \in Nat \ {0} /\ One = Digits * Grain
                    /\ NotOpen \notin Times /\ Times \subseteq Nat
BY RatingAssumption, Scales DEF NotOpen, Times

LEMMA TimeIs == /\ \A t \in Times : t \in Int /\ t \in Nat /\ t # NotOpen /\ t < To
                /\ NotOpen \notin Times
BY RatingAssumption DEF NotOpen, Times

LEMMA EventType ==
    ASSUME NEW e \in Events
    PROVE  /\ e.at \in Times /\ e.op \in {"add", "remove", "report"}
           /\ e.op # "report" => e.seat \in Seats
           /\ e.op = "report" => e.level \in Levels /\ e.level \in Int
BY PeriodType DEF Events, Times

\* The fields of a replay.
LEMMA ReplayType ==
    ASSUME NEW r \in Replay
    PROVE  /\ r.open \in [Seats -> Times \cup {NotOpen}] /\ r.out \in Seq(Closed)
           /\ IsFiniteSet({i \in Seats : r.open[i] # NotOpen})
           /\ Len(r.out) \in Nat /\ DOMAIN r.out = 1 .. Len(r.out)
           /\ \A m \in DOMAIN r.out : /\ r.out[m] \in Closed /\ r.out[m].seat \in Seats
                                      /\ r.out[m].from \in Times /\ r.out[m].to \in Times
           /\ r = [open |-> r.open, out |-> r.out]
<1>1. r.open \in [Seats -> Times \cup {NotOpen}] /\ r.out \in Seq(Closed)
      /\ IsFiniteSet({i \in Seats : r.open[i] # NotOpen}) /\ r = [open |-> r.open, out |-> r.out]
    BY DEF Replay
<1>2. /\ Len(r.out) \in Nat /\ DOMAIN r.out = 1 .. Len(r.out)
      /\ \A m \in DOMAIN r.out : r.out[m] \in Closed
    BY <1>1, SequenceType
<1>3. \A m \in DOMAIN r.out : /\ r.out[m].seat \in Seats /\ r.out[m].from \in Times /\ r.out[m].to \in Times
    BY <1>2 DEF Closed
<1> QED BY <1>1, <1>2, <1>3

\* What one event does.
Opens(r, e) == e.op = "add" /\ r.open[e.seat] = NotOpen
Closes(r, e) == e.op = "remove" /\ r.open[e.seat] # NotOpen

LEMMA OpenOrCloseIs ==
    ASSUME NEW r \in Replay, NEW e \in Events
    PROVE  /\ Opens(r, e) => OpenOrClose(r, e) = [open |-> [r.open EXCEPT ![e.seat] = e.at], out |-> r.out]
           /\ Closes(r, e) => OpenOrClose(r, e) = Close(r, e)
           /\ ~Opens(r, e) /\ ~Closes(r, e) => OpenOrClose(r, e) = r
           /\ OpenOrClose(r, e) \in Replay
<1>1. /\ r.open \in [Seats -> Times \cup {NotOpen}] /\ r.out \in Seq(Closed)
      /\ IsFiniteSet({i \in Seats : r.open[i] # NotOpen}) /\ r = [open |-> r.open, out |-> r.out]
    BY ReplayType
<1>2. e.at \in Times /\ (e.op # "report" => e.seat \in Seats) /\ NotOpen \notin Times
    BY EventType, PeriodType
<1>3. ASSUME Opens(r, e) PROVE OpenOrClose(r, e) = [open |-> [r.open EXCEPT ![e.seat] = e.at], out |-> r.out]
    <2>1. OpenOrClose(r, e) = [r EXCEPT !.open[e.seat] = e.at]
        BY <1>3 DEF Opens, OpenOrClose
    <2> QED BY <1>1, <2>1
<1>4. ASSUME Closes(r, e) PROVE OpenOrClose(r, e) = Close(r, e)
    BY <1>4 DEF Closes, OpenOrClose
<1>5. ASSUME ~Opens(r, e), ~Closes(r, e) PROVE OpenOrClose(r, e) = r
    BY <1>5 DEF Closes, Opens, OpenOrClose
<1>6. ASSUME Opens(r, e)
      PROVE  [open |-> [r.open EXCEPT ![e.seat] = e.at], out |-> r.out] \in Replay
    <2>1. e.seat \in Seats
        BY <1>2, <1>6 DEF Opens
    <2> DEFINE open == [r.open EXCEPT ![e.seat] = e.at]
    <2>2. open \in [Seats -> Times \cup {NotOpen}]
        BY <1>1, <1>2, <2>1
    <2>3. {i \in Seats : open[i] # NotOpen} = {i \in Seats : r.open[i] # NotOpen} \cup {e.seat}
        BY <1>1, <1>2, <2>1
    <2> HIDE DEF open
    <2> DEFINE was == {i \in Seats : r.open[i] # NotOpen}
    <2>4. IsFiniteSet(was)
        BY <1>1
    <2> HIDE DEF was
    <2>5. IsFiniteSet(was \cup {e.seat})
        BY <2>4, FS_AddElement
    <2>6. IsFiniteSet({i \in Seats : open[i] # NotOpen})
        BY <2>3, <2>5 DEF was
    <2>7. [open |-> open, out |-> r.out] \in [open : [Seats -> Times \cup {NotOpen}], out : Seq(Closed)]
        BY <1>1, <2>2
    <2> QED BY <2>6, <2>7 DEF Replay, open
<1>7. ASSUME Closes(r, e) PROVE Close(r, e) \in Replay
    <2>1. e.seat \in Seats /\ r.open[e.seat] \in Times
        BY <1>1, <1>2, <1>7 DEF Closes
    <2> DEFINE open == [r.open EXCEPT ![e.seat] = NotOpen]
               iv == [seat |-> e.seat, from |-> r.open[e.seat], to |-> e.at]
    <2>2. open \in [Seats -> Times \cup {NotOpen}]
        BY <1>1, <2>1
    <2>3. {i \in Seats : open[i] # NotOpen} \in SUBSET {i \in Seats : r.open[i] # NotOpen}
        BY <1>1, <2>1
    <2>4. IsFiniteSet({i \in Seats : open[i] # NotOpen})
        BY <1>1, <2>3, FS_Subset
    <2>5. iv \in Closed
        BY <1>2, <2>1 DEF Closed
    <2>6. Append(r.out, iv) \in Seq(Closed)
        BY <1>1, <2>5
    <2>7. Close(r, e) = [open |-> open, out |-> Append(r.out, iv)]
        BY DEF Close
    <2> HIDE DEF open, iv
    <2>8. Close(r, e) \in [open : [Seats -> Times \cup {NotOpen}], out : Seq(Closed)]
        BY <2>2, <2>6, <2>7
    <2>9. Close(r, e).open = open
        BY <2>7
    <2> QED BY <2>4, <2>8, <2>9 DEF Replay
<1> QED BY <1>3, <1>4, <1>5, <1>6, <1>7

\* One event after the other: g[k] is what the first k events leave.
Replays(g, s) == g[0] = Nothing /\ \A k \in 1 .. Len(s) : g[k] = OpenOrClose(g[k - 1], s[k])

LEMMA NothingType == Nothing \in Replay
<1>1. {i \in Seats : Nothing.open[i] # NotOpen} = {}
    BY DEF Nothing
<1>2. IsFiniteSet({i \in Seats : Nothing.open[i] # NotOpen})
    BY <1>1, FS_EmptySet
<1>3. Nothing \in [open : [Seats -> Times \cup {NotOpen}], out : Seq(Closed)]
    BY DEF Nothing
<1> QED BY <1>2, <1>3 DEF Replay

LEMMA ReplayExists ==
    ASSUME NEW s \in Seq(Events)
    PROVE  \E g \in [0 .. Len(s) -> Replay] : Replays(g, s)
<1> DEFINE n == Len(s)
           op == [k \in 1 .. n |-> [r \in Replay |-> OpenOrClose(r, s[k])]]
<1>1. n \in Nat /\ DOMAIN s = 1 .. n /\ \A k \in DOMAIN s : s[k] \in Events
    BY SequenceType
<1>2. \A k \in 1 .. n : \A r \in Replay : op[k][r] \in Replay /\ op[k][r] = OpenOrClose(r, s[k])
    BY <1>1, OpenOrCloseIs
<1> HIDE DEF op, n
<1>3. PICK g \in [0 .. n -> Replay] : Steps(g, n, Nothing, op)
    BY <1>1, <1>2, NothingType, StepsExist
<1>4. \A k \in 1 .. n : g[k] = OpenOrClose(g[k - 1], s[k])
    <2> TAKE k \in 1 .. n
    <2>1. g[k - 1] \in Replay
        BY <1>1
    <2> QED BY <1>2, <1>3, <2>1 DEF Steps
<1> QED BY <1>3, <1>4 DEF Replays, Steps, n

LEMMA ReplayIs ==
    ASSUME NEW s \in Seq(Events), NEW g, Replays(g, s)
    PROVE  FoldLeft(OpenOrClose, Nothing, s) = g[Len(s)]
<1> DEFINE n == Len(s)
           P(h) == h = [t \in SUBSET DOMAIN s |-> IF t = {} THEN Nothing
                                                  ELSE OpenOrClose(h[t \ {Max(t)}], s[Max(t)])]
           H == CHOOSE h : P(h)
           op == [k \in 1 .. n |-> [r \in Replay |-> OpenOrClose(r, s[k])]]
<1>1. n \in Nat /\ DOMAIN s = 1 .. n /\ \A k \in DOMAIN s : s[k] \in Events
    BY SequenceType
<1>2. \A k \in 1 .. n : \A r \in Replay : op[k][r] \in Replay /\ op[k][r] = OpenOrClose(r, s[k])
    BY <1>1, OpenOrCloseIs
<1> HIDE DEF op, n
<1>5. PICK h \in [SUBSET (1 .. n) -> Replay] : Folds(h, 1 .. n, Nothing, Largest(n), op)
    BY <1>1, <1>2, NothingType, LeftFoldExists
<1>6. P(h)
    <2>1. ASSUME NEW t \in SUBSET (1 .. n), t # {} PROVE h[t] = OpenOrClose(h[t \ {Max(t)}], s[Max(t)])
        <3>1. Largest(n)[t] = Max(t) /\ Max(t) \in t
            BY <1>1, <2>1, LargestIs, Zenon
        <3>3. h[t] = op[Max(t)][h[t \ {Max(t)}]]
            BY <1>5, <2>1, <3>1 DEF Folds
        <3>4. h[t \ {Max(t)}] \in Replay /\ Max(t) \in 1 .. n
            BY <3>1
        <3> QED BY <1>2, <3>3, <3>4
    <2>2. h[{}] = Nothing
        BY <1>5 DEF Folds
    <2>3. h = [t \in SUBSET (1 .. n) |-> h[t]]
        OBVIOUS
    <2> QED BY <1>1, <2>1, <2>2, <2>3
<1>7. P(H)
    BY <1>6
<1>8. FoldLeft(OpenOrClose, Nothing, s) = H[DOMAIN s]
    BY Zenon DEF FoldLeft, MapThenFoldSet
<1> HIDE DEF H
<1>9. \A k \in 0 .. n : H[1 .. k] = g[k]
    <2> DEFINE Good == {k \in 0 .. n : H[1 .. k] = g[k]}
    <2>1. 0 \in Good
        <3>1. 1 .. 0 = {} /\ 0 \in 0 .. n
            BY <1>1
        <3>2. H[{}] = Nothing
            BY <1>7
        <3> QED BY <3>1, <3>2 DEF Replays
    <2>2. ASSUME NEW k \in 1 .. n, k - 1 \in Good PROVE k \in Good
        <3>1. /\ Max(1 .. k) = k /\ (1 .. k) \ {k} = 1 .. k - 1
              /\ 1 .. k \in SUBSET DOMAIN s /\ 1 .. k # {} /\ k \in 0 .. n
            BY <1>1, FirstPlaces, Zenon
        <3>2. H[1 .. k] = OpenOrClose(H[(1 .. k) \ {Max(1 .. k)}], s[Max(1 .. k)])
            BY <1>7, <3>1
        <3>3. H[1 .. k] = OpenOrClose(H[1 .. k - 1], s[k])
            BY <3>1, <3>2
        <3>4. H[1 .. k - 1] = g[k - 1]
            BY <2>2
        <3>5. g[k] = OpenOrClose(g[k - 1], s[k])
            BY DEF Replays, n
        <3>6. H[1 .. k] = g[k]
            BY <3>3, <3>4, <3>5
        <3> HIDE DEF P
        <3> QED BY <3>1, <3>6
    <2> HIDE DEF Good
    <2>3. \A k \in 0 .. n : k \in Good
        BY <1>1, <2>1, <2>2, PrefixInduction
    <2> QED BY <2>3 DEF Good
<1>10. n \in 0 .. n
    BY <1>1
<1> QED BY <1>1, <1>8, <1>9, <1>10 DEF n

----------------------------------------------------------------------------
(* The readings are naturals. *)

Interval == [seat : Seats, from : Times, to : 0 .. Open]
TimesOf(s) == [i \in DOMAIN s |-> s[i].at]

\* The history in order.
LEMMA SortedEvents ==
    ASSUME NEW s \in Seq(Events)
    PROVE  /\ SortedByTime(s) \in Seq(Events) /\ Len(SortedByTime(s)) = Len(s) /\ Len(s) \in Nat
           /\ DOMAIN s = 1 .. Len(s) /\ DOMAIN SortedByTime(s) = 1 .. Len(s)
           /\ \A k \in 1 .. Len(s) : s[k] \in Events /\ SortedByTime(s)[k] \in Events
           /\ TimesOf(s) \in [1 .. Len(s) -> Times]
           /\ \A k \in 1 .. Len(s) : /\ SortedByTime(s)[k] = s[Placed(TimesOf(s), k)]
                                     /\ Placed(TimesOf(s), k) \in 1 .. Len(s)
           /\ \A j, k \in 1 .. Len(s) : j <= k => SortedByTime(s)[j].at <= SortedByTime(s)[k].at
<1> DEFINE n == Len(s)
           key == TimesOf(s)
           sorted == SortedByTime(s)
<1>1. n \in Nat /\ DOMAIN s = 1 .. n /\ \A k \in 1 .. n : s[k] \in Events
    BY SequenceType
<1>2. \A k \in 1 .. n : s[k].at \in Times /\ s[k].at \in Int
    <2>1. \A e \in Events : e.at \in Times
        BY EventType
    <2>2. Times \subseteq Int
        BY PeriodType DEF Times
    <2> HIDE DEF n
    <2> QED BY <1>1, <2>1, <2>2
<1>3. key \in [DOMAIN s -> Int] /\ key \in [1 .. n -> Times] /\ \A k \in 1 .. n : key[k] = s[k].at
    BY <1>1, <1>2 DEF TimesOf
<1>4. sorted = StableSort(s, key)
    BY DEF SortedByTime, TimesOf
<1> HIDE DEF key, sorted, n
<1>5. /\ sorted \in Seq(Events) /\ Len(sorted) = Len(s)
      /\ \A k \in DOMAIN s : sorted[k] = s[Placed(key, k)] /\ Placed(key, k) \in DOMAIN s
    BY <1>3, <1>4, StableSortType
<1>6. DOMAIN sorted = 1 .. n /\ \A k \in 1 .. n : sorted[k] \in Events
    BY <1>5, SequenceType DEF n
<1>7. ASSUME NEW j \in 1 .. n, NEW k \in 1 .. n, j <= k PROVE sorted[j].at <= sorted[k].at
    <2> DEFINE a == Placed(key, j)
               b == Placed(key, k)
    <2>1. a \in 1 .. n /\ Position(key, a) = j /\ b \in 1 .. n /\ Position(key, b) = k
        BY <1>1, <1>3, Sorting
    <2>2. Position(key, b) < Position(key, a) <=> key[b] < key[a] \/ (key[b] = key[a] /\ b < a)
        BY <1>1, <1>3, <2>1, Sorting
    <2>3. sorted[j] = s[a] /\ sorted[k] = s[b]
        BY <1>1, <1>5
    <2> HIDE DEF a, b
    <2>4. ~(key[b] < key[a])
        BY <1>7, <2>1, <2>2
    <2> QED BY <1>2, <1>3, <2>1, <2>3, <2>4
<1>8. \A k \in 1 .. n : sorted[k] = s[Placed(key, k)] /\ Placed(key, k) \in 1 .. n
    BY <1>1, <1>5
<1> QED BY <1>1, <1>3, <1>5, <1>6, <1>7, <1>8 DEF key, sorted, n

\* The intervals are those that were closed, and after them those that are open.
Standings(r) == {[seat |-> i, from |-> r.open[i], to |-> Open] : i \in {j \in Seats : r.open[j] # NotOpen}}

LEMMA StandingsType ==
    ASSUME NEW r \in Replay
    PROVE  /\ IsFiniteSet(Standings(r))
           /\ \A iv \in Standings(r) : /\ iv \in Interval /\ iv.seat \in Seats /\ iv.from \in Times
                                       /\ iv.to = Open /\ iv.from = r.open[iv.seat]
                                       /\ r.open[iv.seat] # NotOpen
           /\ \A i \in Seats : r.open[i] # NotOpen =>
                  \E iv \in Standings(r) : iv.seat = i
<1> DEFINE A == {j \in Seats : r.open[j] # NotOpen}
           f == [i \in A |-> [seat |-> i, from |-> r.open[i], to |-> Open]]
<1>1. IsFiniteSet(A) /\ r.open \in [Seats -> Times \cup {NotOpen}]
    BY ReplayType
<1>2. Standings(r) = {f[i] : i \in A}
    BY DEF Standings
<1>3. IsFiniteSet({f[i] : i \in A})
    <2> HIDE DEF A, f
    <2> QED BY <1>1, ImageIsFinite
<1>4. ASSUME NEW i \in A PROVE r.open[i] \in Times /\ f[i] \in Interval /\ f[i].seat = i
                               /\ f[i].from = r.open[i] /\ f[i].to = Open
    <2>1. r.open[i] \in Times /\ i \in Seats
        BY <1>1
    <2>2. Open \in 0 .. Open
        BY PeriodType DEF Open
    <2> QED BY <2>1, <2>2 DEF Interval
<1> HIDE DEF f
<1>5. ASSUME NEW iv \in Standings(r)
      PROVE  /\ iv \in Interval /\ iv.seat \in Seats /\ iv.from \in Times
             /\ iv.to = Open /\ iv.from = r.open[iv.seat] /\ r.open[iv.seat] # NotOpen
    <2>1. PICK i \in A : iv = f[i]
        BY <1>2
    <2> QED BY <1>4, <2>1
<1>6. ASSUME NEW i \in Seats, r.open[i] # NotOpen PROVE \E iv \in Standings(r) : iv.seat = i
    <2>1. i \in A
        BY <1>6
    <2> QED BY <1>2, <1>4, <2>1
<1> QED BY <1>2, <1>3, <1>5, <1>6

\* What the whole history leaves, and the intervals told from it.
LEMMA IntervalsOf ==
    ASSUME NEW s \in Seq(Events)
    PROVE  \E g \in [0 .. Len(s) -> Replay] :
               /\ Replays(g, SortedByTime(s))
               /\ ReconstructIntervals(s) = g[Len(s)].out \o SetToSeq(Standings(g[Len(s)]))
<1>1. SortedByTime(s) \in Seq(Events) /\ Len(SortedByTime(s)) = Len(s)
    BY SortedEvents
<1>2. PICK g \in [0 .. Len(s) -> Replay] : Replays(g, SortedByTime(s))
    BY <1>1, ReplayExists
<1>3. FoldLeft(OpenOrClose, Nothing, SortedByTime(s)) = g[Len(s)]
    BY <1>1, <1>2, ReplayIs
<1>4. ReconstructIntervals(s) = g[Len(s)].out \o SetToSeq(Standings(g[Len(s)]))
    BY <1>3 DEF ReconstructIntervals, Standings, Nothing
<1> QED BY <1>2, <1>4

LEMMA IntervalsType ==
    ASSUME NEW s \in Seq(Events)
    PROVE  ReconstructIntervals(s) \in Seq(Interval)
<1>1. PICK g \in [0 .. Len(s) -> Replay] :
          ReconstructIntervals(s) = g[Len(s)].out \o SetToSeq(Standings(g[Len(s)]))
    BY IntervalsOf
<1> DEFINE r == g[Len(s)]
<1>2. r \in Replay
    BY SortedEvents
<1> HIDE DEF r
<1>3. Closed \subseteq Interval
    <2>1. Times \subseteq 0 .. Open
        BY PeriodType DEF Times, Open
    <2> QED BY <2>1 DEF Closed, Interval
<1>4. r.out \in Seq(Closed)
    BY <1>2, ReplayType
<1>5. r.out \in Seq(Interval)
    BY <1>3, <1>4
<1>6. SetToSeq(Standings(r)) \in Seq(Standings(r)) /\ Standings(r) \subseteq Interval
    BY <1>2, StandingsType, SetToSeqIs
<1>7. SetToSeq(Standings(r)) \in Seq(Interval)
    BY <1>6
<1> QED BY <1>1, <1>5, <1>7 DEF r

\* A sequence of intervals, and those that overlap the period.
LEMMA IntervalType ==
    ASSUME NEW ivs \in Seq(Interval)
    PROVE  /\ Len(ivs) \in Nat /\ DOMAIN ivs = 1 .. Len(ivs)
           /\ IsFiniteSet(DOMAIN ivs) /\ IsFiniteSet({k \in DOMAIN ivs : Overlaps(ivs[k])})
           /\ \A k \in DOMAIN ivs : /\ ivs[k].seat \in Seats /\ ivs[k].from \in Times
                                    /\ ivs[k].from \in Nat /\ ivs[k].to \in Nat
<1>1. Len(ivs) \in Nat /\ DOMAIN ivs = 1 .. Len(ivs) /\ \A k \in DOMAIN ivs : ivs[k] \in Interval
    BY SequenceType
<1>2. \A k \in DOMAIN ivs : /\ ivs[k].seat \in Seats /\ ivs[k].from \in Times
                            /\ ivs[k].from \in Nat /\ ivs[k].to \in Nat
    <2>1. Times \subseteq Nat /\ 0 .. Open \subseteq Nat
        BY PeriodType DEF Open
    <2> TAKE k \in DOMAIN ivs
    <2>2. ivs[k].seat \in Seats /\ ivs[k].from \in Times /\ ivs[k].to \in 0 .. Open
        BY <1>1 DEF Interval
    <2> QED BY <2>1, <2>2
<1>3. IsFiniteSet(DOMAIN ivs)
    <2>1. 1 \in Int /\ Len(ivs) \in Int
        BY <1>1
    <2> QED BY <1>1, <2>1, FS_Interval
<1>4. {k \in DOMAIN ivs : Overlaps(ivs[k])} \in SUBSET DOMAIN ivs
    OBVIOUS
<1> QED BY <1>1, <1>2, <1>3, <1>4, FS_Subset

LEMMA IntervalTimes ==
    ASSUME NEW ivs \in Seq(Interval)
    PROVE  \A m \in DOMAIN ivs : /\ ivs[m].seat \in Seats /\ ivs[m].from \in Int /\ ivs[m].to \in Int
                                 /\ 0 <= ivs[m].from /\ ivs[m].from < To /\ 0 <= ivs[m].to
<1> TAKE m \in DOMAIN ivs
<1>1. ivs[m].seat \in Seats /\ ivs[m].from \in Times /\ ivs[m].from \in Nat /\ ivs[m].to \in Nat
    BY IntervalType, Zenon
<1>2. ivs[m].from < To
    BY <1>1, TimeIs, Zenon
<1> QED BY <1>1, <1>2

LEMMA TimeFractionType ==
    ASSUME NEW d \in Nat PROVE TimeFraction(d) \in Nat
<1>1. d * Digits \in Nat
    BY PeriodType
<1> QED BY <1>1, PeriodType, DivRoundType DEF TimeFraction

LEMMA CountsType ==
    ASSUME NEW ivs \in Seq(Interval)
    PROVE  CountStandingAtEnd(ivs) \in Nat /\ CountDistinctActive(ivs) \in Nat
<1>1. CountStandingAtEnd(ivs) \in Nat
    <2> DEFINE A == {k \in DOMAIN ivs : ivs[k].from < To /\ ivs[k].to >= To}
    <2>1. IsFiniteSet(DOMAIN ivs) /\ A \in SUBSET DOMAIN ivs
        BY IntervalType
    <2> HIDE DEF A
    <2>2. Cardinality(A) \in Nat
        BY <2>1, FS_Subset, FS_CardinalityType
    <2> QED BY <2>2 DEF A, CountStandingAtEnd
<1>2. CountDistinctActive(ivs) \in Nat
    <2> DEFINE A == {j \in DOMAIN ivs : Overlaps(ivs[j])}
               f == [k \in A |-> ivs[k].seat]
    <2>1. IsFiniteSet(A)
        BY IntervalType
    <2>2. {f[k] : k \in A} = {ivs[k].seat : k \in A}
        OBVIOUS
    <2>3. CountDistinctActive(ivs) = Cardinality({f[k] : k \in A})
        BY <2>2 DEF CountDistinctActive
    <2> HIDE DEF A, f
    <2>4. Cardinality({f[k] : k \in A}) \in Nat
        BY <2>1, ImageIsFinite, FS_CardinalityType
    <2> QED BY <2>3, <2>4
<1> QED BY <1>1, <1>2

\* The sweep: g[k] is the depth after the first k edges, and the most so far.
Edge == [at : Nat, delta : {1, -1}, of : Nat]
Depths == [depth : Int, peak : Nat]
Ground == [depth |-> 0, peak |-> 0]
Sweeps(g, s) == g[0] = Ground /\ \A k \in 1 .. Len(s) : g[k] = Sweep(g[k - 1], s[k])

LEMMA SweepIs ==
    ASSUME NEW r \in Depths, NEW e \in Edge
    PROVE  /\ Sweep(r, e) \in Depths /\ Sweep(r, e).depth = r.depth + e.delta
           /\ Sweep(r, e).peak = IF r.peak >= r.depth + e.delta THEN r.peak ELSE r.depth + e.delta
<1>1. r.depth \in Int /\ r.peak \in Nat /\ e.delta \in Int /\ r.depth + e.delta \in Int
    BY DEF Depths, Edge
<1>2. Max({r.peak, r.depth + e.delta}) = IF r.peak >= r.depth + e.delta THEN r.peak ELSE r.depth + e.delta
    BY <1>1, MaxOfPair
<1>3. Sweep(r, e) = [depth |-> r.depth + e.delta, peak |-> Max({r.peak, r.depth + e.delta})]
    BY DEF Sweep
<1> QED BY <1>1, <1>2, <1>3 DEF Depths

LEMMA SweepOf ==
    ASSUME NEW s \in Seq(Edge)
    PROVE  \E g \in [0 .. Len(s) -> Depths] : Sweeps(g, s) /\ FoldLeft(Sweep, Ground, s) = g[Len(s)]
<1> DEFINE n == Len(s)
           P(h) == h = [t \in SUBSET DOMAIN s |-> IF t = {} THEN Ground
                                                  ELSE Sweep(h[t \ {Max(t)}], s[Max(t)])]
           H == CHOOSE h : P(h)
           op == [k \in 1 .. n |-> [r \in Depths |-> Sweep(r, s[k])]]
<1>1. n \in Nat /\ DOMAIN s = 1 .. n /\ \A k \in DOMAIN s : s[k] \in Edge
    BY SequenceType
<1>2. \A k \in 1 .. n : \A r \in Depths : op[k][r] \in Depths /\ op[k][r] = Sweep(r, s[k])
    BY <1>1, SweepIs
<1>3. Ground \in Depths
    BY DEF Ground, Depths
<1> HIDE DEF op, n
<1>4. PICK g \in [0 .. n -> Depths] : Steps(g, n, Ground, op)
    BY <1>1, <1>2, <1>3, StepsExist
<1>40. PICK h \in [SUBSET (1 .. n) -> Depths] : Folds(h, 1 .. n, Ground, Largest(n), op)
    BY <1>1, <1>2, <1>3, LeftFoldExists
<1>5. /\ h[{}] = Ground
      /\ \A t \in SUBSET (1 .. n) : t # {} => Max(t) \in t /\ h[t] = op[Max(t)][h[t \ {Max(t)}]]
    <2> SUFFICES ASSUME NEW t \in SUBSET (1 .. n), t # {}
                 PROVE  Max(t) \in t /\ h[t] = op[Max(t)][h[t \ {Max(t)}]]
        BY <1>40 DEF Folds
    <2>1. Largest(n)[t] = Max(t) /\ Max(t) \in t
        BY <1>1, LargestIs, Zenon
    <2> QED BY <1>40, <2>1 DEF Folds
<1>6. P(h)
    <2>1. ASSUME NEW t \in SUBSET (1 .. n), t # {} PROVE h[t] = Sweep(h[t \ {Max(t)}], s[Max(t)])
        <3>1. Max(t) \in 1 .. n /\ h[t \ {Max(t)}] \in Depths /\ h[t] = op[Max(t)][h[t \ {Max(t)}]]
            BY <1>5, <2>1
        <3> QED BY <1>2, <3>1
    <2>2. h = [t \in SUBSET (1 .. n) |-> h[t]]
        OBVIOUS
    <2> QED BY <1>1, <1>5, <2>1, <2>2
<1>7. P(H)
    BY <1>6
<1>8. FoldLeft(Sweep, Ground, s) = H[DOMAIN s]
    BY Zenon DEF FoldLeft, MapThenFoldSet
<1> HIDE DEF H
<1>9. H[{}] = Ground
    BY <1>1, <1>7
<1>10. ASSUME NEW t \in SUBSET (1 .. n), t # {}, H[t \ {Max(t)}] \in Depths
       PROVE  H[t] = op[Max(t)][H[t \ {Max(t)}]]
    <2>1. H[t] = Sweep(H[t \ {Max(t)}], s[Max(t)])
        BY <1>1, <1>7, <1>10
    <2>2. Max(t) \in 1 .. n
        BY <1>5, <1>10
    <2> QED BY <1>2, <1>10, <2>1, <2>2
<1>11. H[1 .. n] = g[n]
    <2> HIDE DEF P
    <2>1. \A t \in SUBSET (1 .. n) : t # {} /\ H[t \ {Max(t)}] \in Depths =>
              H[t] = op[Max(t)][H[t \ {Max(t)}]]
        BY <1>10
    <2>2. FoldsLeft(H, n, Depths, Ground, op)
        BY <1>9, <2>1 DEF FoldsLeft
    <2> QED BY <1>1, <1>4, <2>2, LeftFoldIs
<1>12. \A k \in 1 .. n : g[k] = Sweep(g[k - 1], s[k])
    <2> TAKE k \in 1 .. n
    <2>1. g[k - 1] \in Depths
        BY <1>1
    <2> QED BY <1>2, <1>4, <2>1 DEF Steps
<1>13. Sweeps(g, s)
    BY <1>4, <1>12 DEF Sweeps, Steps, n
<1>14. FoldLeft(Sweep, Ground, s) = g[n]
    BY <1>1, <1>8, <1>11
<1> QED BY <1>13, <1>14 DEF n

\* The edges of the intervals that overlap the period.
Live(ivs) == {k \in DOMAIN ivs : Overlaps(ivs[k])}
StartOf(ivs, k) == [at |-> Max({ivs[k].from, From}), delta |-> 1, of |-> k]
EndOf(ivs, k) == [at |-> Min({ivs[k].to, To}), delta |-> -1, of |-> k]
Edges(ivs) == {StartOf(ivs, k) : k \in Live(ivs)} \cup {EndOf(ivs, k) : k \in Live(ivs)}
EdgeOrder(edges) == [i \in DOMAIN edges |-> 3 * edges[i].at + edges[i].delta]

LEMMA EdgesType ==
    ASSUME NEW ivs \in Seq(Interval)
    PROVE  /\ IsFiniteSet(Live(ivs)) /\ Live(ivs) \subseteq Nat
           /\ \A k \in Live(ivs) : /\ StartOf(ivs, k) \in Edge /\ EndOf(ivs, k) \in Edge
                                   /\ StartOf(ivs, k).at = IF ivs[k].from >= From THEN ivs[k].from ELSE From
                                   /\ EndOf(ivs, k).at = IF ivs[k].to <= To THEN ivs[k].to ELSE To
           /\ IsFiniteSet(Edges(ivs)) /\ Edges(ivs) \subseteq Edge
<1> DEFINE A == Live(ivs)
           f == [k \in A |-> StartOf(ivs, k)]
           h == [k \in A |-> EndOf(ivs, k)]
<1>1. IsFiniteSet(A)
    BY IntervalType DEF Live
<1>2. ASSUME NEW k \in A
      PROVE  /\ StartOf(ivs, k) \in Edge /\ EndOf(ivs, k) \in Edge
             /\ StartOf(ivs, k).at = IF ivs[k].from >= From THEN ivs[k].from ELSE From
             /\ EndOf(ivs, k).at = IF ivs[k].to <= To THEN ivs[k].to ELSE To
    <2>1. k \in DOMAIN ivs /\ k \in Nat
        BY IntervalType DEF Live
    <2>2. ivs[k].from \in Nat /\ ivs[k].to \in Nat
        BY <2>1, IntervalType
    <2>3. From \in Nat /\ To \in Nat
        BY PeriodType
    <2>4. Max({ivs[k].from, From}) = IF ivs[k].from >= From THEN ivs[k].from ELSE From
        BY <2>2, <2>3, MaxOfPair
    <2>5. Min({ivs[k].to, To}) = IF ivs[k].to <= To THEN ivs[k].to ELSE To
        BY <2>2, <2>3, MinOfPair
    <2> QED BY <2>1, <2>2, <2>3, <2>4, <2>5 DEF StartOf, EndOf, Edge
<1>3. Edges(ivs) = {f[k] : k \in A} \cup {h[k] : k \in A}
    BY DEF Edges
<1>4. Edges(ivs) \subseteq Edge
    BY <1>2, <1>3
<1>5. IsFiniteSet({f[k] : k \in A}) /\ IsFiniteSet({h[k] : k \in A})
    <2> HIDE DEF A, f, h
    <2> QED BY <1>1, ImageIsFinite
<1>6. IsFiniteSet(Edges(ivs))
    <2> HIDE DEF A, f, h
    <2> QED BY <1>3, <1>5, FS_Union
<1>7. A \subseteq Nat
    BY IntervalType DEF Live
<1> QED BY <1>1, <1>2, <1>4, <1>6, <1>7

\* The peak is what the sweep over all the edges, in order, comes to.
LEMMA PeakOf ==
    ASSUME NEW ivs \in Seq(Interval)
    PROVE  LET edges == SetToSeq(Edges(ivs))
               sorted == StableSort(edges, EdgeOrder(edges))
           IN  /\ EdgeOrder(edges) \in [DOMAIN edges -> Int] /\ edges \in Seq(Edge)
               /\ sorted \in Seq(Edge) /\ Len(sorted) = Len(edges)
               /\ \E g \in [0 .. Len(sorted) -> Depths] :
                     Sweeps(g, sorted) /\ CountPeakConcurrent(ivs) = g[Len(sorted)].peak
<1> DEFINE edges == SetToSeq(Edges(ivs))
           sorted == StableSort(edges, EdgeOrder(edges))
<1>1. edges \in Seq(Edge)
    <2>1. edges \in Seq(Edges(ivs)) /\ Edges(ivs) \subseteq Edge
        BY EdgesType, SetToSeqIs
    <2> QED BY <2>1
<1>2. CountPeakConcurrent(ivs) = FoldLeft(Sweep, Ground, sorted).peak
    BY DEF CountPeakConcurrent, Live, StartOf, EndOf, Edges, EdgeOrder, Ground
<1> HIDE DEF edges
<1>3. EdgeOrder(edges) \in [DOMAIN edges -> Int]
    <2>1. \A i \in DOMAIN edges : edges[i] \in Edge
        BY <1>1, SequenceType
    <2>2. \A i \in DOMAIN edges : edges[i].at \in Int /\ edges[i].delta \in Int
        BY <2>1 DEF Edge
    <2> QED BY <2>2 DEF EdgeOrder
<1>4. sorted \in Seq(Edge) /\ Len(sorted) = Len(edges)
    BY <1>1, <1>3, StableSortType
<1> HIDE DEF sorted
<1>5. PICK g \in [0 .. Len(sorted) -> Depths] :
          Sweeps(g, sorted) /\ FoldLeft(Sweep, Ground, sorted) = g[Len(sorted)]
    BY <1>4, SweepOf
<1>6. CountPeakConcurrent(ivs) = g[Len(sorted)].peak
    BY <1>2, <1>5
<1> QED BY <1>1, <1>3, <1>4, <1>5, <1>6 DEF edges, sorted

LEMMA PeakType ==
    ASSUME NEW ivs \in Seq(Interval) PROVE CountPeakConcurrent(ivs) \in Nat
<1> DEFINE sorted == StableSort(SetToSeq(Edges(ivs)), EdgeOrder(SetToSeq(Edges(ivs))))
<1>1. sorted \in Seq(Edge)
    BY PeakOf
<1>2. PICK g \in [0 .. Len(sorted) -> Depths] : CountPeakConcurrent(ivs) = g[Len(sorted)].peak
    BY PeakOf
<1>3. Len(sorted) \in 0 .. Len(sorted)
    BY <1>1, SequenceType
<1> HIDE DEF sorted
<1> QED BY <1>2, <1>3 DEF Depths

LEMMA WeightType ==
    ASSUME NEW ivs \in Seq(Interval), NEW prorate, NEW credit
    PROVE  WeightIntervals(ivs, prorate, credit) \in Nat
<1> DEFINE A == Live(ivs)
           active(k) == (IF credit THEN Min({ivs[k].to, To}) ELSE To)
                        - (IF prorate THEN Max({ivs[k].from, From}) ELSE From)
           w == [k \in A |-> IF active(k) > 0 THEN TimeFraction(active(k)) ELSE 0]
<1>1. ASSUME NEW k \in A PROVE w[k] \in Nat
    <2>1. Max({ivs[k].from, From}) \in Int /\ Min({ivs[k].to, To}) \in Int
        <3>0. k \in DOMAIN ivs
            BY DEF Live
        <3>1. ivs[k].from \in Int /\ ivs[k].to \in Int
            BY <3>0, IntervalTimes
        <3>2. From \in Int /\ To \in Int
            BY PeriodType
        <3>3. Max({ivs[k].from, From}) = IF ivs[k].from >= From THEN ivs[k].from ELSE From
            BY <3>1, <3>2, MaxOfPair, Zenon
        <3>4. Min({ivs[k].to, To}) = IF ivs[k].to <= To THEN ivs[k].to ELSE To
            BY <3>1, <3>2, MinOfPair, Zenon
        <3> QED BY <3>1, <3>2, <3>3, <3>4
    <2>2. active(k) \in Int
        BY <2>1, PeriodType
    <2> HIDE DEF active
    <2> QED BY <2>2, TimeFractionType
<1>2. IsFiniteSet(A)
    BY EdgesType
<1>3. WeightIntervals(ivs, prorate, credit) = SumFunctionOnSet(w, A)
    <2>1. DOMAIN w = A
        OBVIOUS
    <2>2. WeightIntervals(ivs, prorate, credit) = SumFunction(w)
        BY DEF WeightIntervals, Live
    <2> HIDE DEF w
    <2> QED BY <2>1, <2>2 DEF SumFunction
<1> HIDE DEF w, A
<1> QED BY <1>1, <1>2, <1>3, SumOfNaturals

----------------------------------------------------------------------------
(* Level reports. *)

LEMMA ReportsOnly ==
    ASSUME NEW s \in Seq(Events), ~HasOperations(s)
    PROVE  \A k \in 1 .. Len(s) :
               /\ SortedByTime(s)[k].level \in Levels /\ SortedByTime(s)[k].level \in Int
               /\ SortedByTime(s)[k].at \in Times /\ SortedByTime(s)[k].at \in Nat
<1> TAKE k \in 1 .. Len(s)
<1>1. SortedByTime(s)[k] = s[Placed(TimesOf(s), k)] /\ Placed(TimesOf(s), k) \in DOMAIN s
    BY SortedEvents
<1> DEFINE e == SortedByTime(s)[k]
<1>2. e.op = "report"
    BY <1>1 DEF HasOperations
<1>3. e \in Events
    BY SortedEvents
<1> HIDE DEF e
<1>4. e.level \in Levels /\ e.level \in Int /\ e.at \in Times
    BY <1>2, <1>3, EventType
<1>5. Times \subseteq Nat
    BY PeriodType
<1> QED BY <1>4, <1>5 DEF e

\* What the levels have come to: g[k] is the weight after the first k reports.
Weights == [total : Int, level : Int, cursor : Int]
Unweighed == [total |-> 0, level |-> 0, cursor |-> From]
Weighs(g, s) == g[0] = Unweighed /\ \A k \in 1 .. Len(s) : g[k] = Weigh(g[k - 1], s[k])

LEMMA WeighIs ==
    ASSUME NEW r \in Weights, NEW e, e.level \in Int, e.at \in Nat
    PROVE  /\ Weigh(r, e) \in Weights /\ Weigh(r, e).level = e.level
           /\ e.at <= From => Weigh(r, e).total = r.total /\ Weigh(r, e).cursor = r.cursor
           /\ e.at > From => /\ Weigh(r, e).total = r.total + r.level * TimeFraction(e.at - r.cursor)
                             /\ Weigh(r, e).cursor = e.at
<1>1. /\ r.total \in Int /\ r.level \in Int /\ r.cursor \in Int
      /\ r = [total |-> r.total, level |-> r.level, cursor |-> r.cursor]
    BY DEF Weights
<1>2. From \in Nat /\ Digits \in Nat /\ To - From \in Nat \ {0}
    BY PeriodType
<1>3. CASE e.at <= From
    <2>1. Weigh(r, e) = [r EXCEPT !.level = e.level]
        BY <1>3 DEF Weigh
    <2>2. Weigh(r, e) = [total |-> r.total, level |-> e.level, cursor |-> r.cursor]
        BY <1>1, <2>1
    <2> QED BY <1>1, <1>2, <1>3, <2>2 DEF Weights
<1>4. CASE ~(e.at <= From)
    <2>1. Weigh(r, e) = [total |-> r.total + r.level * TimeFraction(e.at - r.cursor),
                         level |-> e.level, cursor |-> e.at]
        BY <1>4 DEF Weigh
    <2>2. (e.at - r.cursor) * Digits \in Int
        BY <1>1, <1>2
    <2>3. TimeFraction(e.at - r.cursor) \in Int
        BY <1>2, <2>2, DivRoundInteger DEF TimeFraction
    <2>4. r.total + r.level * TimeFraction(e.at - r.cursor) \in Int
        BY <1>1, <2>3
    <2> QED BY <1>2, <1>4, <2>1, <2>4 DEF Weights
<1> QED BY <1>3, <1>4

LEMMA WeighOf ==
    ASSUME NEW s, NEW n \in Nat, DOMAIN s = 1 .. n, Len(s) = n,
           \A k \in 1 .. n : s[k].level \in Int /\ s[k].at \in Nat
    PROVE  \E g \in [0 .. n -> Weights] : Weighs(g, s) /\ FoldLeft(Weigh, Unweighed, s) = g[n]
<1> DEFINE P(h) == h = [t \in SUBSET DOMAIN s |-> IF t = {} THEN Unweighed
                                                  ELSE Weigh(h[t \ {Max(t)}], s[Max(t)])]
           H == CHOOSE h : P(h)
           op == [k \in 1 .. n |-> [r \in Weights |-> Weigh(r, s[k])]]
<1>2. \A k \in 1 .. n : \A r \in Weights : op[k][r] \in Weights /\ op[k][r] = Weigh(r, s[k])
    BY WeighIs
<1>3. Unweighed \in Weights
    BY PeriodType DEF Unweighed, Weights
<1> HIDE DEF op
<1>4. PICK g \in [0 .. n -> Weights] : Steps(g, n, Unweighed, op)
    BY <1>2, <1>3, StepsExist
<1>40. PICK h \in [SUBSET (1 .. n) -> Weights] : Folds(h, 1 .. n, Unweighed, Largest(n), op)
    BY <1>2, <1>3, LeftFoldExists
<1>5. /\ h[{}] = Unweighed
      /\ \A t \in SUBSET (1 .. n) : t # {} => Max(t) \in t /\ h[t] = op[Max(t)][h[t \ {Max(t)}]]
    <2> SUFFICES ASSUME NEW t \in SUBSET (1 .. n), t # {}
                 PROVE  Max(t) \in t /\ h[t] = op[Max(t)][h[t \ {Max(t)}]]
        BY <1>40 DEF Folds
    <2>1. Largest(n)[t] = Max(t) /\ Max(t) \in t
        BY LargestIs, Zenon
    <2> QED BY <1>40, <2>1 DEF Folds
<1>6. P(h)
    <2>1. ASSUME NEW t \in SUBSET (1 .. n), t # {} PROVE h[t] = Weigh(h[t \ {Max(t)}], s[Max(t)])
        <3>1. Max(t) \in 1 .. n /\ h[t \ {Max(t)}] \in Weights /\ h[t] = op[Max(t)][h[t \ {Max(t)}]]
            BY <1>5, <2>1
        <3> QED BY <1>2, <3>1
    <2>2. h = [t \in SUBSET (1 .. n) |-> h[t]]
        OBVIOUS
    <2> QED BY <1>5, <2>1, <2>2
<1>7. P(H)
    BY <1>6
<1>8. FoldLeft(Weigh, Unweighed, s) = H[DOMAIN s]
    BY Zenon DEF FoldLeft, MapThenFoldSet
<1> HIDE DEF H
<1>9. H[{}] = Unweighed
    BY <1>7
<1>10. ASSUME NEW t \in SUBSET (1 .. n), t # {}, H[t \ {Max(t)}] \in Weights
       PROVE  H[t] = op[Max(t)][H[t \ {Max(t)}]]
    <2>1. H[t] = Weigh(H[t \ {Max(t)}], s[Max(t)])
        BY <1>7, <1>10
    <2>2. Max(t) \in 1 .. n
        BY <1>5, <1>10
    <2> QED BY <1>2, <1>10, <2>1, <2>2
<1>11. H[1 .. n] = g[n]
    <2> HIDE DEF P
    <2>1. \A t \in SUBSET (1 .. n) : t # {} /\ H[t \ {Max(t)}] \in Weights =>
              H[t] = op[Max(t)][H[t \ {Max(t)}]]
        BY <1>10
    <2>2. FoldsLeft(H, n, Weights, Unweighed, op)
        BY <1>9, <2>1 DEF FoldsLeft
    <2> QED BY <1>4, <2>2, LeftFoldIs
<1>12. \A k \in 1 .. n : g[k] = Weigh(g[k - 1], s[k])
    <2> TAKE k \in 1 .. n
    <2>1. g[k - 1] \in Weights
        OBVIOUS
    <2> QED BY <1>2, <1>4, <2>1 DEF Steps
<1>13. Weighs(g, s)
    BY <1>4, <1>12 DEF Weighs, Steps
<1> QED BY <1>8, <1>11, <1>13

\* The weight is an amount, and the instant it has come to is that of the last report.
Cursor(g, s, k) ==
    /\ g[k].total \in Amounts /\ g[k].level \in Amounts /\ g[k].cursor \in From .. To
    /\ g[k].cursor = From \/ (k > 0 /\ g[k].cursor <= s[k].at)
    /\ k > 0 => s[k].at <= g[k].cursor

LEMMA CursorFollows ==
    ASSUME NEW s \in Seq(Events), ~HasOperations(s),
           NEW g \in [0 .. Len(s) -> Weights], Weighs(g, SortedByTime(s))
    PROVE  \A k \in 0 .. Len(s) : Cursor(g, SortedByTime(s), k)
<1> DEFINE n == Len(s)
           t == SortedByTime(s)
           Good == {k \in 0 .. n : Cursor(g, t, k)}
<1>1. n \in Nat /\ Len(t) = n
    BY SortedEvents
<1>2. \A k \in 1 .. n : t[k].level \in Int /\ t[k].at \in Times /\ t[k].at \in Nat
    BY ReportsOnly
<1>20. \A k \in 1 .. n : t[k].level \in Amounts
    BY ReportsOnly, AmountsType
<1>3. \A j, k \in 1 .. n : j <= k => t[j].at <= t[k].at
    BY SortedEvents
<1>4. From \in Nat /\ To \in Nat /\ From < To
    BY PeriodType
<1> HIDE DEF n, t
<1>5. g \in [0 .. n -> Weights] /\ g[0] = Unweighed /\ \A k \in 1 .. n : g[k] = Weigh(g[k - 1], t[k])
    BY <1>1 DEF Weighs, n, t
<1>6. 0 \in Good
    <2>1. 0 \in Amounts
        BY AmountsType
    <2> QED BY <1>1, <1>4, <1>5, <2>1 DEF Cursor, Unweighed
<1>7. ASSUME NEW k \in 1 .. n, k - 1 \in Good PROVE k \in Good
    <2> DEFINE r == g[k - 1]
               e == t[k]
               q == g[k]
    <2>0. e.level \in Amounts
        BY <1>20
    <2>1. r \in Weights /\ q = Weigh(r, e) /\ k - 1 \in 0 .. n
        BY <1>1, <1>5
    <2>2. e.level \in Int /\ e.at \in Nat /\ e.at < To
        <3>1. e.at \in Times
            BY <1>2
        <3> QED BY <1>2, <1>4, <3>1 DEF Times
    <2>3. /\ r.total \in Amounts /\ r.level \in Amounts /\ r.cursor \in From .. To
          /\ r.cursor = From \/ (k - 1 > 0 /\ r.cursor <= t[k - 1].at)
        BY <1>7 DEF Cursor
    <2>4. k - 1 > 0 => t[k - 1].at <= e.at /\ t[k - 1].at \in Nat
        <3>1. k - 1 > 0 => k - 1 \in 1 .. n /\ k - 1 <= k
            BY <1>1
        <3> QED BY <1>2, <1>3, <3>1
    <2>5. r.cursor = From \/ r.cursor <= e.at
        BY <1>4, <2>2, <2>3, <2>4
    <2> HIDE DEF r, e, q
    <2>6. CASE e.at <= From
        <3>1. q.total = r.total /\ q.cursor = r.cursor /\ q.level = e.level
            BY <2>1, <2>2, <2>6, WeighIs
        <3>2. /\ q.total \in Amounts /\ q.level \in Amounts /\ q.cursor \in From .. To
              /\ q.cursor = From \/ q.cursor <= e.at
            BY <2>0, <2>3, <2>5, <3>1
        <3>3. e.at <= q.cursor
            BY <1>4, <2>2, <2>3, <2>6, <3>1
        <3> QED BY <1>1, <3>2, <3>3 DEF Cursor, q, e
    <2>7. CASE e.at > From
        <3>1. /\ q.total = r.total + r.level * TimeFraction(e.at - r.cursor)
              /\ q.cursor = e.at /\ q.level = e.level
            BY <2>1, <2>2, <2>7, WeighIs
        <3>2. e.at - r.cursor \in Nat
            BY <1>4, <2>2, <2>3, <2>5, <2>7
        <3>3. TimeFraction(e.at - r.cursor) \in Nat
            BY <3>2, TimeFractionType
        <3>4. r.level * TimeFraction(e.at - r.cursor) \in Amounts
            BY <2>3, <3>3, AmountsType, AmountsAreClosed
        <3>5. q.total \in Amounts
            BY <2>3, <3>1, <3>4, AmountsAreClosed
        <3>6. q.level \in Amounts
            BY <2>0, <3>1
        <3>7. q.cursor \in From .. To /\ q.cursor <= e.at /\ e.at <= q.cursor
            BY <1>4, <2>2, <2>7, <3>1
        <3> QED BY <3>5, <3>6, <3>7 DEF Cursor, q, e
    <2> QED BY <1>4, <2>2, <2>6, <2>7
<1> HIDE DEF Good
<1>8. \A k \in 0 .. n : k \in Good
    BY <1>1, <1>6, <1>7, PrefixInduction
<1> QED BY <1>8 DEF Good, n, t

LEMMA ReportedType ==
    ASSUME NEW s \in Seq(Events), ~HasOperations(s)
    PROVE  /\ LastReportedLevel(s) \in Amounts /\ PeakReportedLevel(s) \in Nat
           /\ WeightReportedLevels(s) \in Amounts
<1> DEFINE n == Len(s)
           t == SortedByTime(s)
<1>1. n \in Nat /\ Len(t) = n /\ DOMAIN s = 1 .. n /\ DOMAIN t = 1 .. n
    BY SortedEvents
<1>2. \A k \in 1 .. n : t[k].level \in Int /\ t[k].level \in Amounts /\ t[k].at \in Nat
    BY ReportsOnly, AmountsType
<1>3. LastReportedLevel(s) \in Amounts
    <2>1. s # <<>> => n \in 1 .. n
        BY <1>1
    <2>2. 0 \in Amounts
        BY AmountsType
    <2> HIDE DEF t, n
    <2> QED BY <1>2, <2>1, <2>2 DEF LastReportedLevel, t, n
<1>4. PeakReportedLevel(s) \in Nat
    <2> DEFINE before == {k \in DOMAIN s : t[k].at <= From}
               standing == IF before = {} THEN 0 ELSE t[Max(before)].level
               after == {t[k].level : k \in DOMAIN s \ before}
    <2> HIDE DEF t, n
    <2>0. IsFiniteSet(1 .. n)
        BY <1>1, LargestType
    <2>1. before \in SUBSET (1 .. n) /\ DOMAIN s \ before \in SUBSET (1 .. n)
        BY <1>1
    <2>2. before # {} => Max(before) \in 1 .. n
        <3> HIDE DEF before
        <3> QED BY <1>1, <2>1, LargestIs, Zenon
    <2>3. standing \in Int
        BY <1>2, <2>2
    <2>4. after \subseteq Int
        BY <1>2, <2>1
    <2>5. IsFiniteSet(after)
        <3> DEFINE A == DOMAIN s \ before
                   f == [k \in A |-> t[k].level]
        <3>1. after = {f[k] : k \in A}
            OBVIOUS
        <3>2. IsFiniteSet(A)
            BY <2>0, <2>1, FS_Subset
        <3> HIDE DEF A, f, after
        <3> QED BY <3>1, <3>2, ImageIsFinite
    <2> HIDE DEF before, standing, after
    <2> DEFINE all == {0, standing} \cup after
    <2>6. IsFiniteSet(all)
        <3>1. IsFiniteSet(after \cup {standing})
            BY <2>5, FS_AddElement
        <3>2. IsFiniteSet((after \cup {standing}) \cup {0})
            BY <3>1, FS_AddElement
        <3>3. all = (after \cup {standing}) \cup {0}
            OBVIOUS
        <3> QED BY <3>2, <3>3
    <2>7. all \in SUBSET Int /\ 0 \in all
        BY <2>3, <2>4
    <2>8. PeakReportedLevel(s) = Max(all)
        BY DEF PeakReportedLevel, standing, after, before, t
    <2> HIDE DEF all
    <2>9. Max(all) \in all /\ Max(all) >= 0
        BY <2>6, <2>7, MaxExists
    <2>10. Max(all) \in Nat
        <3>1. \A x \in Int : x >= 0 => x \in Nat
            OBVIOUS
        <3>2. Max(all) \in Int
            BY <2>7, <2>9, Zenon
        <3> QED BY <2>9, <3>1, <3>2, Zenon
    <2> QED BY <2>8, <2>10
<1>5. WeightReportedLevels(s) \in Amounts
    <2> HIDE DEF t, n
    <2>1. PICK g \in [0 .. n -> Weights] : Weighs(g, t) /\ FoldLeft(Weigh, Unweighed, t) = g[n]
        BY <1>1, <1>2, WeighOf
    <2>2. Cursor(g, t, n)
        BY <1>1, <2>1, CursorFollows DEF t, n
    <2>3. g[n].total \in Amounts /\ g[n].level \in Amounts /\ g[n].cursor \in From .. To
        BY <2>2 DEF Cursor
    <2>4. To - g[n].cursor \in Nat
        BY <2>3, PeriodType
    <2>5. TimeFraction(To - g[n].cursor) \in Nat
        BY <2>4, TimeFractionType
    <2>6. WeightReportedLevels(s) = g[n].total + g[n].level * TimeFraction(To - g[n].cursor)
        BY <2>1 DEF WeightReportedLevels, t, Unweighed
    <2>7. g[n].level * TimeFraction(To - g[n].cursor) \in Amounts
        BY <2>3, <2>5, AmountsType, AmountsAreClosed
    <2>8. g[n].total + g[n].level * TimeFraction(To - g[n].cursor) \in Amounts
        BY <2>3, <2>7, AmountsAreClosed
    <2> QED BY <2>6, <2>8
<1> QED BY <1>3, <1>4, <1>5

LEMMA ReadingType ==
    ASSUME log \in Seq(Events), NEW aggregation \in Aggregations, NEW prorate, NEW credit
    PROVE  AggregateCarryOver(aggregation, prorate, credit) \in Amounts
<1>1. One \in Nat /\ Grain \in Nat /\ Digits \in Nat
    BY PeriodType
<1>2. \A a \in Nat : One * a \in Amounts /\ Grain * a \in Amounts
    <2>1. \A a \in Nat : One * a \in Nat /\ Grain * a \in Nat
        BY <1>1
    <2> QED BY <2>1, AmountsType
<1>20. 0 \in Amounts /\ \A a \in Amounts : Digits * a \in Amounts
    BY <1>1, AmountsType, AmountsAreClosed
<1>3. CASE HasOperations(log)
    <2> DEFINE ivs == ReconstructIntervals(log)
    <2>1. ivs \in Seq(Interval)
        BY IntervalsType
    <2> HIDE DEF ivs
    <2>2. /\ CountStandingAtEnd(ivs) \in Nat /\ CountDistinctActive(ivs) \in Nat
          /\ CountPeakConcurrent(ivs) \in Nat /\ WeightIntervals(ivs, prorate, credit) \in Nat
        BY <2>1, CountsType, PeakType, WeightType
    <2> QED BY <1>2, <1>3, <2>2 DEF AggregateCarryOver, Aggregations, ivs
<1>4. CASE ~HasOperations(log)
    <2>1. /\ LastReportedLevel(log) \in Amounts /\ PeakReportedLevel(log) \in Amounts
          /\ WeightReportedLevels(log) \in Amounts
        BY <1>4, ReportedType, AmountsType
    <2> QED BY <1>20, <1>4, <2>1 DEF AggregateCarryOver, Aggregations
<1> QED BY <1>3, <1>4

----------------------------------------------------------------------------
(* Quantities and prices are amounts. *)

LEMMA CeilDivType ==
    ASSUME NEW m \in Nat, NEW d \in Nat \ {0} PROVE CeilDiv(m, d) \in Nat
BY DEF CeilDiv

LEMMA RoundingType ==
    ASSUME NEW mode, NEW u \in Amounts PROVE ApplyRounding(mode, u) \in Amounts
<1>1. One \in Nat \ {0} /\ One \in Amounts
    BY PeriodType, AmountsType
<1>2. CeilDiv(u, One) \in Amounts /\ DivRound(u, One) \in Amounts /\ u \div One \in Amounts
    BY <1>1, QuotientsAreAmounts
<1>3. \A a \in Amounts : One * a \in Amounts
    BY <1>1, AmountsAreClosed
<1> QED BY <1>2, <1>3 DEF ApplyRounding

LEMMA FixedPriceType ==
    ASSUME NEW p, p.unitPrice \in Nat, p.unitCount \in Nat, NEW u \in Amounts
    PROVE  PriceFixed(p, u) \in Amounts /\ PricePackage(p, u) \in Amounts
<1>1. One \in Nat \ {0} /\ Digits \in Nat \ {0} /\ Grain \in Nat \ {0}
    BY PeriodType
<1>2. Max({p.unitCount, 1}) \in Nat \ {0}
    BY MaxOfPair
<1>3. \A a, b \in Nat \ {0} : a * b \in Nat \ {0}
    OBVIOUS
<1>4. p.unitPrice \in Amounts /\ p.unitPrice * u \in Amounts
    BY AmountsType, AmountsAreClosed
<1>5. PriceFixed(p, u) \in Amounts
    <2>1. CASE p.unitCount > 1
        <3>1. Grain * p.unitCount \in Nat \ {0}
            BY <1>1, <1>3, <2>1
        <3>2. DivRound(p.unitPrice * u, Grain * p.unitCount) \in Amounts
            BY <1>4, <3>1, QuotientsAreAmounts
        <3>3. DivRound(DivRound(p.unitPrice * u, Grain * p.unitCount), Digits) \in Amounts
            BY <1>1, <3>2, QuotientsAreAmounts
        <3> QED BY <2>1, <3>3 DEF PriceFixed
    <2>2. CASE ~(p.unitCount > 1)
        <3>1. DivRound(p.unitPrice * u, One) \in Amounts
            BY <1>1, <1>4, QuotientsAreAmounts
        <3> QED BY <2>2, <3>1 DEF PriceFixed
    <2> QED BY <2>1, <2>2
<1>6. PricePackage(p, u) \in Amounts
    <2> DEFINE size == Grain * Max({p.unitCount, 1})
    <2>1. size \in Nat \ {0}
        BY <1>1, <1>2, <1>3
    <2>2. PricePackage(p, u) = IF u <= 0 THEN 0 ELSE CeilDiv(DivRound(u, size), Digits) * p.unitPrice
        BY DEF PricePackage
    <2> HIDE DEF size
    <2>3. CeilDiv(DivRound(u, size), Digits) * p.unitPrice \in Amounts
        <3>1. DivRound(u, size) \in Amounts
            BY <2>1, QuotientsAreAmounts
        <3>2. CeilDiv(DivRound(u, size), Digits) \in Amounts
            BY <1>1, <3>1, QuotientsAreAmounts
        <3> QED BY <1>4, <3>2, AmountsAreClosed
    <2> QED BY <2>2, <2>3, AmountsType
<1> QED BY <1>5, <1>6

LEMMA GraduatedType ==
    ASSUME NEW p \in Prices, NEW u \in Int PROVE PriceGraduated(p, u) \in Nat
<1> DEFINE A == TiersUsed(p, u)
           charge == [k \in A |-> UnitsInTier(p.tiers[k], u) * p.tiers[k].rate + One * p.tiers[k].flat]
<1>1. A \in SUBSET (1 .. Len(p.tiers)) /\ DOMAIN p.tiers = 1 .. Len(p.tiers) /\ IsFiniteSet(1 .. Len(p.tiers))
    BY PriceTypes, LargestType DEF TiersUsed
<1>2. IsFiniteSet(A)
    <2> HIDE DEF A
    <2> QED BY <1>1, FS_Subset
<1>3. ASSUME NEW k \in A PROVE charge[k] \in Nat
    <2>1. /\ p.tiers[k].from \in Nat /\ p.tiers[k].to \in Nat /\ p.tiers[k].rate \in Nat
          /\ p.tiers[k].flat \in Nat /\ One \in Nat
        BY <1>1, PriceTypes
    <2>2. UnitsInTier(p.tiers[k], u) \in Int /\ UnitsInTier(p.tiers[k], u) > 0
        <3>1. p.tiers[k].from * One \in Int /\ p.tiers[k].to * One \in Int
            BY <2>1
        <3>2. UnitsInTier(p.tiers[k], u) \in Int
            BY <3>1 DEF UnitsInTier
        <3>3. UnitsInTier(p.tiers[k], u) > 0
            BY DEF TiersUsed
        <3> QED BY <3>2, <3>3
    <2>3. \A a, b, c, d \in Nat : a * b + c * d \in Nat
        OBVIOUS
    <2>4. UnitsInTier(p.tiers[k], u) \in Nat
        BY <2>2
    <2> QED BY <2>1, <2>3, <2>4
<1>4. DOMAIN charge = A /\ PriceGraduated(p, u) = DivRound(SumFunction(charge), One)
    BY DEF PriceGraduated
<1> HIDE DEF A, charge
<1>5. SumFunction(charge) \in Nat
    BY <1>2, <1>3, <1>4, SumOfNaturals DEF SumFunction
<1> QED BY <1>4, <1>5, PeriodType, DivRoundType

LEMMA VolumeType ==
    ASSUME NEW p \in Prices, NEW u \in Int PROVE PriceVolume(p, u) \in Nat
<1> DEFINE A == {k \in DOMAIN p.tiers : p.tiers[k].from * One <= u /\ Reaches(p.tiers[k], u)}
<1>1. A \in SUBSET (1 .. Len(p.tiers)) /\ DOMAIN p.tiers = 1 .. Len(p.tiers) /\ IsFiniteSet(1 .. Len(p.tiers))
    BY PriceTypes, LargestType
<1>2. CASE A = {}
    BY <1>2 DEF PriceVolume
<1>3. CASE A # {}
    <2>1. IsFiniteSet(A) /\ A \in SUBSET Int
        <3>1. A \in SUBSET Int
            BY <1>1
        <3> HIDE DEF A
        <3> QED BY <1>1, <3>1, FS_Subset
    <2>2. Min(A) \in A
        <3> HIDE DEF A
        <3> QED BY <1>3, <2>1, MinExists
    <2>3. Min(A) \in DOMAIN p.tiers
        BY <2>2
    <2> DEFINE t == p.tiers[Min(A)]
    <2>4. t.rate \in Nat /\ t.flat \in Nat /\ u \in Nat
        <3>1. t.rate \in Nat /\ t.flat \in Nat /\ t.from \in Nat
            BY <2>3, PriceTypes
        <3>2. t.from * One \in Nat /\ t.from * One <= u
            BY <2>2, <3>1, PeriodType
        <3> QED BY <3>1, <3>2
    <2>5. PriceVolume(p, u) = DivRound(u * t.rate, One) + t.flat
        BY <1>3 DEF PriceVolume
    <2> HIDE DEF t, A
    <2>6. u * t.rate \in Nat
        BY <2>4
    <2>7. DivRound(u * t.rate, One) \in Nat
        BY <2>6, PeriodType, DivRoundType
    <2> QED BY <2>4, <2>5, <2>7
<1> QED BY <1>2, <1>3

LEMMA PriceType ==
    ASSUME NEW p \in Prices, NEW u \in Amounts PROVE PriceUsage(p, u) \in Amounts
<1>1. /\ p.scheme \in {"fixed", "package", "graduated", "volume"}
      /\ p.unitPrice \in Nat /\ p.unitCount \in Nat
    BY PriceTypes
<1>2. PriceFixed(p, u) \in Amounts /\ PricePackage(p, u) \in Amounts
    BY <1>1, FixedPriceType
<1>3. PriceGraduated(p, u) \in Amounts /\ PriceVolume(p, u) \in Amounts
    BY GraduatedType, VolumeType, AmountsType
<1> QED BY <1>1, <1>2, <1>3 DEF PriceUsage

----------------------------------------------------------------------------
(* What is invariant while an invoice is built. *)

Products == {p.product : p \in Prices \cup FixedPrices}

\* Of an invoice without credit lines no line is discounted below zero.
DiscountsFit == NoCredits => \A i \in DOMAIN lines : lines[i].discount \in 0 .. lines[i].total

RatingInv ==
    /\ phase \in {"metering", "pricing", "building", "built"}
    /\ log \in Seq(Events) /\ Len(log) <= MaxEvents
    /\ units \in Amounts
    /\ lines \in Seq(LineRecord) /\ Len(lines) <= MaxLines /\ DiscountsFit
    /\ phase \in {"metering", "pricing"} => lines = <<>>
    /\ discounts \in Seq(Discounts) /\ Redeemed(discounts)
    /\ phase # "built" => discounts = <<>>
    /\ Built

LEMMA RatingInit == Init => RatingInv
<1> SUFFICES ASSUME Init PROVE RatingInv
    OBVIOUS
<1>1. MaxEvents \in Nat /\ MaxLines \in Nat
    BY RatingAssumption
<1>2. log = <<>> /\ lines = <<>> /\ discounts = <<>> /\ phase = "metering" /\ units = 0
    BY DEF Init
<1>3. Redeemed(<<>>)
    BY DEF Redeemed
<1>4. 0 \in Amounts
    BY AmountsType
<1> QED BY <1>1, <1>2, <1>3, <1>4 DEF RatingInv, Built, DiscountsFit

\* One more line.
LEMMA LineIsAdded ==
    ASSUME RatingInv, NEW p \in Prices \cup FixedPrices, NEW total \in Amounts, Len(lines) < MaxLines,
           lines' = Append(lines, Line(p.product, total))
    PROVE  lines' \in Seq(LineRecord) /\ Len(lines') <= MaxLines /\ DiscountsFit'
<1>1. Line(p.product, total) \in LineRecord
    BY AmountsType DEF Line, LineRecord
<1>2. lines \in Seq(LineRecord) /\ Len(lines) \in Nat /\ MaxLines \in Nat /\ DiscountsFit
    BY RatingAssumption DEF RatingInv
<1>3. Len(lines') = Len(lines) + 1 /\ lines' \in Seq(LineRecord)
    BY <1>1, <1>2
<1>4. DOMAIN lines' = 1 .. Len(lines) + 1 /\ DOMAIN lines = 1 .. Len(lines)
    BY <1>2, <1>3, SequenceType
<1>5. (\A i \in DOMAIN lines : lines'[i] = lines[i]) /\ lines'[Len(lines) + 1] = Line(p.product, total)
    BY <1>1, <1>2
<1>6. DiscountsFit'
    <2> SUFFICES ASSUME NoCredits' PROVE \A i \in DOMAIN lines' : lines'[i].discount \in 0 .. lines'[i].total
        BY DEF DiscountsFit
    <2>1. \A i \in DOMAIN lines' : lines'[i].total >= 0
        BY DEF NoCredits
    <2>2. \A i \in DOMAIN lines : i \in DOMAIN lines'
        BY <1>2, <1>4
    <2>3. NoCredits
        BY <1>5, <2>1, <2>2 DEF NoCredits
    <2>4. \A i \in DOMAIN lines : lines'[i].discount \in 0 .. lines'[i].total
        BY <1>2, <1>5, <2>3 DEF DiscountsFit
    <2>5. Len(lines) + 1 \in DOMAIN lines'
        BY <1>2, <1>4
    <2>6. total \in Int /\ total >= 0
        BY <1>5, <2>1, <2>5, AmountsType DEF Line
    <2>7. lines'[Len(lines) + 1].discount \in 0 .. lines'[Len(lines) + 1].total
        BY <1>5, <2>6 DEF Line
    <2>8. \A i \in DOMAIN lines' : i \in DOMAIN lines \/ i = Len(lines) + 1
        BY <1>2, <1>4
    <2> QED BY <2>4, <2>7, <2>8
<1> QED BY <1>2, <1>3, <1>6

\* The discounts are applied: the lines cost what they did, and what the discounts
\* take in turn is what the lines carry.
LEMMA DiscountsAreCarried ==
    ASSUME RatingInv, NEW ds \in Seq(Discounts), ApplyDiscountTotals(ds)
    PROVE  lines' \in Seq(LineRecord) /\ Len(lines') = Len(lines) /\ Built' /\ DiscountsFit'
<1> DEFINE n == Len(ds)
           sorted == ByRedeemedAt(ds)
<1>1. lines \in Seq(LineRecord)
    BY DEF RatingInv
<1>2. sorted \in Seq(Discounts) /\ Len(sorted) = n /\ n \in Nat
    BY ByRedeemedAtType, SequenceType
<1> HIDE DEF sorted, n
<1>3. PICK g \in [0 .. n -> Costs] :
          /\ TakenInTurn(g, sorted)
          /\ NoCredits => \A k \in 0 .. n : \A i \in DOMAIN lines : g[k][i] <= lines[i].total
    BY <1>1, <1>2, TakenInTurnExists
<1>4. NetAfter(sorted) = g[n]
    BY <1>1, <1>2, <1>3, NetAfterIs
<1>5. n \in 0 .. n /\ g[n] \in Costs
    BY <1>2, <1>3
<1>6. lines' = [i \in DOMAIN lines |-> [lines[i] EXCEPT !.discount = lines[i].total - g[n][i]]]
    BY <1>4 DEF ApplyDiscountTotals, ApplyDiscounts, sorted
<1>7. ASSUME NEW i \in DOMAIN lines
      PROVE  /\ lines'[i] \in LineRecord /\ lines'[i].product = lines[i].product
             /\ lines'[i].total = lines[i].total /\ lines'[i].discount = lines[i].total - g[n][i]
    <2>1. lines[i] \in LineRecord /\ lines[i].total \in Amounts /\ lines[i].total \in Int
        BY <1>1, LinesType
    <2>2. lines'[i] = [lines[i] EXCEPT !.discount = lines[i].total - g[n][i]]
        BY <1>6
    <2>3. lines[i].total - g[n][i] \in Amounts
        <3>1. CASE Amounts = Nat
            <4>1. NoCredits
                BY <1>1, <3>1, LinesType DEF NoCredits
            <4>2. g[n][i] \in Nat /\ g[n][i] <= lines[i].total
                BY <1>3, <1>5, <4>1 DEF Costs, Money
            <4> QED BY <2>1, <3>1, <4>2
        <3>2. CASE Amounts = Int
            <4>1. g[n][i] \in Int
                BY <1>5 DEF Costs, Money
            <4> QED BY <2>1, <3>2, <4>1
        <3> QED BY <3>1, <3>2, AmountsType
    <2> QED BY <2>1, <2>2, <2>3 DEF LineRecord
<1>8. DOMAIN lines' = DOMAIN lines
    BY <1>6
<1>9. lines' \in Seq(LineRecord) /\ Len(lines') = Len(lines)
    <2>1. DOMAIN lines = 1 .. Len(lines) /\ Len(lines) \in Nat
        BY <1>1, SequenceType
    <2>2. lines' \in [1 .. Len(lines) -> LineRecord]
        <3>1. lines' = [i \in 1 .. Len(lines) |-> lines'[i]]
            BY <1>6, <2>1
        <3> QED BY <1>7, <2>1, <3>1
    <2> QED BY <2>1, <2>2
<1>10. Costs' = Costs /\ NoCredits' = NoCredits
    <2>1. NoCredits' = NoCredits
        BY <1>7, <1>8 DEF NoCredits
    <2> QED BY <1>8, <2>1 DEF Costs, Money
<1>11. Totals' = Totals
    BY <1>7, <1>8 DEF Totals
<1>12. ASSUME NEW c PROVE Matched(c)' = Matched(c)
    BY <1>7, <1>8 DEF Matched
<1>13. ASSUME NEW d, NEW net PROVE TakeOff(net, d)' = TakeOff(net, d)
    <2>1. Matched(d.coupon)' = Matched(d.coupon)
        BY <1>12
    <2>2. Takes(d, net)' = Takes(d, net)
        BY <2>1 DEF Takes
    <2> QED BY <2>2 DEF TakeOff
<1>14. TakenInTurn(g, sorted)'
    BY <1>3, <1>11, <1>13 DEF TakenInTurn
<1>15. Len(discounts') = n /\ (ByRedeemedAt(discounts))' = sorted
    BY DEF ApplyDiscountTotals, n, sorted
<1>16. Built'
    <2>1. g \in [0 .. n -> Costs']
        BY <1>10
    <2>2. \A i \in DOMAIN lines' : lines'[i].discount = lines'[i].total - g[n][i]
        BY <1>7, <1>8
    <2> QED BY <1>14, <1>15, <2>1, <2>2 DEF Built
<1>17. DiscountsFit'
    <2> SUFFICES ASSUME NoCredits' PROVE \A i \in DOMAIN lines' : lines'[i].discount \in 0 .. lines'[i].total
        BY DEF DiscountsFit
    <2> TAKE i \in DOMAIN lines'
    <2>1. i \in DOMAIN lines /\ NoCredits
        BY <1>8, <1>10
    <2>2. g[n][i] \in Nat /\ g[n][i] <= lines[i].total
        BY <1>3, <1>5, <2>1 DEF Costs, Money
    <2>3. lines[i].total \in Int
        BY <1>1, <2>1, LinesType
    <2>4. lines[i].total - g[n][i] \in 0 .. lines[i].total
        BY <2>2, <2>3
    <2> QED BY <1>7, <2>1, <2>4
<1> QED BY <1>9, <1>16, <1>17

LEMMA RatingStep == RatingInv /\ [Next]_vars => RatingInv'
<1> SUFFICES ASSUME RatingInv, [Next]_vars PROVE RatingInv'
    OBVIOUS
<1>0. MaxEvents \in Nat /\ MaxLines \in Nat \ {0} /\ MaxDiscounts \in Nat /\ Len(log) \in Nat /\ Len(lines) \in Nat
    BY RatingAssumption DEF RatingInv
<1>1. ASSUME NEW e \in Events, RecordEvent(e) PROVE RatingInv'
    <2>1. log' \in Seq(Events) /\ Len(log') <= MaxEvents
        <3>1. log \in Seq(Events) /\ Len(log) < MaxEvents /\ log' = Append(log, e)
            BY <1>1 DEF RecordEvent, RatingInv
        <3>2. Len(log') = Len(log) + 1 /\ log' \in Seq(Events)
            BY <3>1
        <3> QED BY <1>0, <3>1, <3>2
    <2>2. UNCHANGED <<phase, units, lines, discounts>> /\ phase = "metering"
        BY <1>1 DEF RecordEvent
    <2> QED BY <2>1, <2>2 DEF RatingInv, Built, Redeemed, DiscountsFit, NoCredits
<1>2. ASSUME NEW aggregation \in Aggregations, NEW prorate \in BOOLEAN, NEW credit \in BOOLEAN,
             NEW mode \in {"none", "ceil", "floor", "round"},
             ReadUsage(aggregation, prorate, credit, mode)
      PROVE  RatingInv'
    <2>1. units' \in Amounts
        <3>1. AggregateCarryOver(aggregation, prorate, credit) \in Amounts
            BY ReadingType DEF RatingInv
        <3> QED BY <1>2, <3>1, RoundingType DEF ReadUsage
    <2>2. /\ log' = <<>> /\ phase' = "pricing" /\ UNCHANGED <<lines, discounts>>
          /\ phase = "metering"
        BY <1>2 DEF ReadUsage
    <2>3. Len(<<>>) = 0
        OBVIOUS
    <2> QED BY <1>0, <2>1, <2>2, <2>3 DEF RatingInv, Built, Redeemed, DiscountsFit, NoCredits
<1>3. ASSUME NEW p \in Prices, AddUsageLine(p) PROVE RatingInv'
    <2>1. PriceUsage(p, units) \in Amounts /\ 0 \in Amounts
        BY PriceType, AmountsType DEF RatingInv
    <2>2. lines = <<>>
        BY <1>3 DEF AddUsageLine, RatingInv
    <2>3. lines' \in Seq(LineRecord) /\ Len(lines') <= MaxLines /\ DiscountsFit'
        <3>1. Len(lines) < MaxLines
            BY <1>0, <2>2
        <3> QED BY <1>3, <2>1, <3>1, LineIsAdded DEF AddUsageLine
    <2>4. /\ units' = 0 /\ phase' = "building" /\ UNCHANGED <<log, discounts>>
          /\ phase = "pricing"
        BY <1>3 DEF AddUsageLine
    <2> QED BY <2>1, <2>3, <2>4 DEF RatingInv, Built, Redeemed
<1>4. ASSUME NEW p \in FixedPrices, NEW quantity \in 1 .. 2, AddBaseLine(p, quantity) PROVE RatingInv'
    <2>1. PriceFixed(p, quantity * One) \in Amounts
        <3>1. p.unitPrice \in Nat /\ p.unitCount \in Nat
            BY RatingAssumption DEF PriceOK
        <3>2. quantity * One \in Amounts
            <4>1. quantity * One \in Nat
                BY PeriodType
            <4> QED BY <4>1, AmountsType
        <3> QED BY <3>1, <3>2, FixedPriceType
    <2>2. lines' \in Seq(LineRecord) /\ Len(lines') <= MaxLines /\ DiscountsFit'
        <3>1. Len(lines) < MaxLines /\ lines' = Append(lines, Line(p.product, PriceFixed(p, quantity * One)))
            BY <1>4 DEF AddBaseLine
        <3> QED BY <2>1, <3>1, LineIsAdded
    <2>3. UNCHANGED <<phase, log, units, discounts>> /\ phase = "building"
        BY <1>4 DEF AddBaseLine
    <2> QED BY <2>2, <2>3 DEF RatingInv, Built, Redeemed
<1>5. ASSUME NEW ds \in ActiveDiscounts, ApplyDiscountTotals(ds) PROVE RatingInv'
    <2>1. ds \in Seq(Discounts) /\ Redeemed(ds)
        <3>1. ds \in BoundedSeq(Discounts, MaxDiscounts) /\ Redeemed(ds)
            BY DEF ActiveDiscounts
        <3>2. PICK m \in 0 .. MaxDiscounts : ds \in [1 .. m -> Discounts]
            BY <3>1 DEF BoundedSeq, SeqOf
        <3>3. m \in Nat
            BY <1>0, <3>2
        <3> QED BY <3>1, <3>2, <3>3
    <2>2. lines' \in Seq(LineRecord) /\ Len(lines') = Len(lines) /\ Built' /\ DiscountsFit'
        BY <1>5, <2>1, DiscountsAreCarried
    <2>3. discounts' = ds /\ phase' = "built" /\ UNCHANGED <<log, units>>
        BY <1>5 DEF ApplyDiscountTotals
    <2> QED BY <2>1, <2>2, <2>3 DEF RatingInv, Redeemed
<1>6. CASE UNCHANGED vars
    <2>1. UNCHANGED <<phase, log, units, lines, discounts>>
        BY <1>6 DEF vars
    <2>2. Costs' = Costs /\ Totals' = Totals
        BY <2>1 DEF Costs, Money, NoCredits, Totals
    <2>3. \A net, d : TakeOff(net, d)' = TakeOff(net, d)
        BY <2>1 DEF TakeOff, Takes, Matched
    <2>4. \A g, ds : TakenInTurn(g, ds)' <=> TakenInTurn(g, ds)
        BY <2>2, <2>3 DEF TakenInTurn
    <2>5. Built'
        <3>1. Built
            BY DEF RatingInv
        <3> QED BY <2>1, <2>2, <2>4, <3>1 DEF Built
    <2>6. DiscountsFit'
        BY <2>1 DEF RatingInv, DiscountsFit, NoCredits
    <2> QED BY <2>1, <2>5, <2>6 DEF RatingInv, Redeemed
<1> QED BY <1>1, <1>2, <1>3, <1>4, <1>5, <1>6 DEF Next

LEMMA RatingTypes == RatingInv => TypeOK
<1> SUFFICES ASSUME RatingInv PROVE TypeOK
    OBVIOUS
<1>1. \A i \in DOMAIN log : log[i] \in Events
    BY SequenceType DEF RatingInv
<1>2. \A i \in DOMAIN lines : lines[i].total \in Amounts /\ lines[i].discount \in Amounts
    BY LinesType DEF RatingInv
<1> QED BY <1>1, <1>2 DEF RatingInv, TypeOK, DiscountsFit

\* Whatever levels are reported, the amounts of an invoice are whole cents from its
\* first reading to its last discount; they fall below zero only if a level does, and
\* unless a line is a credit no discount is negative or more than its line costs.
THEOREM RatingIsTyped == Spec => []TypeOK
<1>1. Spec => []RatingInv
    BY RatingInit, RatingStep, PTL DEF Spec
<1> QED BY <1>1, RatingTypes, PTL

\* A graduated price charges each step of the quantity at the rate of the tier it
\* falls into: the loop over the tiers neither skips nor repeats one.
THEOREM UnitsAreChargedOnce == Spec => []GraduatedChargesEachUnit
<1>1. Spec => []RatingInv
    BY RatingInit, RatingStep, PTL DEF Spec
<1>2. RatingInv => GraduatedChargesEachUnit
    <2> SUFFICES ASSUME RatingInv PROVE GraduatedChargesEachUnit
        OBVIOUS
    <2>1. units \in Int
        BY AmountsType DEF RatingInv
    <2> QED BY <2>1, QuantityIsPricedBySlices
<1> QED BY <1>1, <1>2, PTL

\* The discounts of a built invoice take exactly their amounts, in the order of
\* their redemption, and no line is driven below zero.
THEOREM DiscountsTakeTheirAmounts == Spec => []DiscountsAreExact
<1>1. Spec => []RatingInv
    BY RatingInit, RatingStep, PTL DEF Spec
<1>2. RatingInv => DiscountsAreExact
    BY BuiltIsExact DEF RatingInv
<1> QED BY <1>1, <1>2, PTL

----------------------------------------------------------------------------
(* The stock, told from the events in order. *)

\* The places of the events in order are those of the events.
LEMMA PlacesOfEvents ==
    ASSUME log \in Seq(Events)
    PROVE  /\ \A i \in 1 .. Len(log) : /\ Position(TimesOf(log), i) \in 1 .. Len(log)
                                       /\ SortedByTime(log)[Position(TimesOf(log), i)] = log[i]
           /\ \A k \in 1 .. Len(log) : /\ Placed(TimesOf(log), k) \in 1 .. Len(log)
                                       /\ Position(TimesOf(log), Placed(TimesOf(log), k)) = k
                                       /\ log[Placed(TimesOf(log), k)] = SortedByTime(log)[k]
           /\ \A i, j \in 1 .. Len(log) :
                 Later(j, i) <=> Position(TimesOf(log), i) < Position(TimesOf(log), j)
           /\ Len(log) \in Nat /\ DOMAIN log = 1 .. Len(log)
<1> DEFINE n == Len(log)
           key == TimesOf(log)
           sorted == SortedByTime(log)
<1>1. n \in Nat /\ DOMAIN log = 1 .. n /\ key \in [1 .. n -> Times]
    BY SortedEvents
<1>2. \A k \in 1 .. n : sorted[k] = log[Placed(key, k)]
    BY SortedEvents
<1>3. \A i \in 1 .. n : key[i] = log[i].at
    BY <1>1 DEF TimesOf
<1> HIDE DEF n, key, sorted
<1>4. key \in [1 .. n -> Int]
    <2>1. Times \subseteq Int
        BY PeriodType DEF Times
    <2> QED BY <1>1, <2>1
<1>5. /\ \A i \in 1 .. n : Position(key, i) \in 1 .. n /\ Placed(key, Position(key, i)) = i
      /\ \A k \in 1 .. n : Placed(key, k) \in 1 .. n /\ Position(key, Placed(key, k)) = k
    BY <1>1, <1>4, Sorting
<1>6. \A i, j \in 1 .. n : Position(key, i) < Position(key, j)
                           <=> key[i] < key[j] \/ (key[i] = key[j] /\ i < j)
    BY <1>1, <1>4, Sorting
<1>7. \A i, j \in 1 .. n : Later(j, i) <=> Position(key, i) < Position(key, j)
    <2> TAKE i, j \in 1 .. n
    <2>1. key[i] \in Int /\ key[j] \in Int /\ i \in Int /\ j \in Int
        BY <1>1, <1>4
    <2>2. Later(j, i) <=> key[j] > key[i] \/ (key[j] = key[i] /\ j > i)
        BY <1>3 DEF Later
    <2> QED BY <1>6, <2>1, <2>2
<1>8. \A i \in 1 .. n : sorted[Position(key, i)] = log[i]
    BY <1>2, <1>5
<1> QED BY <1>1, <1>2, <1>5, <1>7, <1>8 DEF n, key, sorted

\* After the first k events in order: the last operation on the seat up to t was an add.
AddOf(s, a, seat) == s[a].op = "add" /\ s[a].seat = seat
RemoveOf(s, b, seat) == s[b].op = "remove" /\ s[b].seat = seat
StandsAt(s, k, seat, t) ==
    \E a \in 1 .. k :
        /\ AddOf(s, a, seat) /\ s[a].at <= t
        /\ \A b \in 1 .. k : RemoveOf(s, b, seat) /\ s[b].at <= t => ~(a < b)

LEMMA StandsIs ==
    ASSUME log \in Seq(Events), NEW seat, NEW t
    PROVE  Stands(seat, t) <=> StandsAt(SortedByTime(log), Len(log), seat, t)
<1> DEFINE n == Len(log)
           s == SortedByTime(log)
           pos(i) == Position(TimesOf(log), i)
           placed(k) == Placed(TimesOf(log), k)
<1>1. DOMAIN log = 1 .. n /\ \A i \in 1 .. n : pos(i) \in 1 .. n /\ s[pos(i)] = log[i]
    BY PlacesOfEvents
<1>2. \A k \in 1 .. n : placed(k) \in 1 .. n /\ pos(placed(k)) = k /\ log[placed(k)] = s[k]
    BY PlacesOfEvents
<1>3. \A i, j \in 1 .. n : Later(j, i) <=> pos(i) < pos(j)
    BY PlacesOfEvents
<1> HIDE DEF n, s, pos, placed
<1>4. ASSUME Stands(seat, t) PROVE StandsAt(s, n, seat, t)
    <2>1. PICK i \in 1 .. n : /\ log[i].op = "add" /\ log[i].seat = seat /\ log[i].at <= t
                              /\ ~\E j \in 1 .. n : /\ log[j].op = "remove" /\ log[j].seat = seat
                                                    /\ log[j].at <= t /\ Later(j, i)
        BY <1>1, <1>4 DEF Stands
    <2>2. pos(i) \in 1 .. n /\ AddOf(s, pos(i), seat) /\ s[pos(i)].at <= t
        BY <1>1, <2>1 DEF AddOf
    <2>3. ASSUME NEW b \in 1 .. n, RemoveOf(s, b, seat), s[b].at <= t PROVE ~(pos(i) < b)
        <3>1. placed(b) \in 1 .. n /\ pos(placed(b)) = b /\ log[placed(b)] = s[b]
            BY <1>2
        <3>2. ~Later(placed(b), i)
            BY <2>1, <2>3, <3>1 DEF RemoveOf
        <3> QED BY <1>3, <3>1, <3>2
    <2> QED BY <2>2, <2>3 DEF StandsAt
<1>5. ASSUME StandsAt(s, n, seat, t) PROVE Stands(seat, t)
    <2>1. PICK a \in 1 .. n : /\ AddOf(s, a, seat) /\ s[a].at <= t
                              /\ \A b \in 1 .. n : RemoveOf(s, b, seat) /\ s[b].at <= t => ~(a < b)
        BY <1>5 DEF StandsAt
    <2>2. placed(a) \in 1 .. n /\ pos(placed(a)) = a /\ log[placed(a)] = s[a]
        BY <1>2
    <2>3. ASSUME NEW j \in 1 .. n, log[j].op = "remove", log[j].seat = seat, log[j].at <= t,
                 Later(j, placed(a))
          PROVE  FALSE
        <3>1. pos(j) \in 1 .. n /\ s[pos(j)] = log[j]
            BY <1>1
        <3>2. a < pos(j)
            BY <1>3, <2>2, <2>3
        <3>3. RemoveOf(s, pos(j), seat) /\ s[pos(j)].at <= t
            BY <2>3, <3>1 DEF RemoveOf
        <3> QED BY <2>1, <3>1, <3>2, <3>3
    <2>4. placed(a) \in DOMAIN log /\ log[placed(a)].op = "add" /\ log[placed(a)].seat = seat /\ log[placed(a)].at <= t
        BY <1>1, <2>1, <2>2 DEF AddOf
    <2> QED BY <1>1, <2>3, <2>4 DEF Stands
<1> QED BY <1>4, <1>5 DEF n, s

\* The seat is covered at t by an interval of the replay.
Within(iv, seat, t) == iv.seat = seat /\ iv.from <= t /\ t < iv.to
CoveredBy(r, seat, t) ==
    \/ r.open[seat] # NotOpen /\ r.open[seat] <= t
    \/ \E m \in DOMAIN r.out : Within(r.out[m], seat, t)

\* What holds of the replay of the first k events of s.
StandsRight(r, s, k) ==
    \A seat \in Seats, t \in Times : StandsAt(s, k, seat, t) <=> CoveredBy(r, seat, t)

Past(r, s, k) ==
    \A j \in k + 1 .. Len(s) :
        /\ \A seat \in Seats : r.open[seat] # NotOpen => r.open[seat] <= s[j].at
        /\ \A m \in DOMAIN r.out : r.out[m].to <= s[j].at

Apart(r) ==
    /\ \A m \in DOMAIN r.out : r.out[m].from <= r.out[m].to
    /\ \A l, m \in DOMAIN r.out : l # m /\ r.out[l].seat = r.out[m].seat =>
          r.out[l].to <= r.out[m].from \/ r.out[m].to <= r.out[l].from
    /\ \A m \in DOMAIN r.out : r.open[r.out[m].seat] # NotOpen => r.out[m].to <= r.open[r.out[m].seat]

AddsLie(r, s, k) ==
    \A a \in 1 .. k : s[a].op = "add" =>
        \/ r.open[s[a].seat] # NotOpen /\ r.open[s[a].seat] <= s[a].at
        \/ \E m \in DOMAIN r.out : /\ r.out[m].seat = s[a].seat
                                   /\ r.out[m].from <= s[a].at /\ s[a].at <= r.out[m].to

StartsAreAdds(r, s, k) ==
    /\ \A seat \in Seats : r.open[seat] # NotOpen =>
          \E a \in 1 .. k : AddOf(s, a, seat) /\ s[a].at = r.open[seat]
    /\ \A m \in DOMAIN r.out : \E a \in 1 .. k : AddOf(s, a, r.out[m].seat) /\ s[a].at = r.out[m].from

OpenSeats(r) == {seat \in Seats : r.open[seat] # NotOpen}
FewIntervals(r, k) == Len(r.out) + Cardinality(OpenSeats(r)) <= k

Told(r, s, k) == /\ StandsRight(r, s, k) /\ Past(r, s, k) /\ Apart(r)
                 /\ AddsLie(r, s, k) /\ StartsAreAdds(r, s, k) /\ FewIntervals(r, k)

LEMMA ToldAtFirst ==
    ASSUME NEW s \in Seq(Events) PROVE Told(Nothing, s, 0)
<1>1. Nothing.open = [i \in Seats |-> NotOpen] /\ Nothing.out = <<>> /\ DOMAIN Nothing.out = {} /\ Len(Nothing.out) = 0
    BY DEF Nothing
<1>2. 1 .. 0 = {}
    OBVIOUS
<1>3. StandsRight(Nothing, s, 0)
    BY <1>1, <1>2 DEF StandsRight, StandsAt, CoveredBy
<1>4. Past(Nothing, s, 0) /\ Apart(Nothing) /\ AddsLie(Nothing, s, 0) /\ StartsAreAdds(Nothing, s, 0)
    BY <1>1, <1>2 DEF Past, Apart, AddsLie, StartsAreAdds
<1>5. FewIntervals(Nothing, 0)
    <2>1. OpenSeats(Nothing) = {}
        BY <1>1 DEF OpenSeats
    <2>2. Cardinality(OpenSeats(Nothing)) = 0
        BY <2>1, FS_EmptySet
    <2> QED BY <1>1, <2>2 DEF FewIntervals
<1> QED BY <1>3, <1>4, <1>5 DEF Told

\* One more event, in order.
InOrder(s) == \A i, j \in 1 .. Len(s) : i <= j => s[i].at <= s[j].at

LEMMA StandsNext ==
    ASSUME NEW s \in Seq(Events), NEW k \in 1 .. Len(s), NEW seat, NEW t \in Times
    PROVE  /\ s[k].op = "report" \/ s[k].seat # seat \/ t < s[k].at =>
                  (StandsAt(s, k, seat, t) <=> StandsAt(s, k - 1, seat, t))
           /\ AddOf(s, k, seat) /\ s[k].at <= t => StandsAt(s, k, seat, t)
           /\ RemoveOf(s, k, seat) /\ s[k].at <= t => ~StandsAt(s, k, seat, t)
<1>1. k \in Nat /\ k - 1 \in Nat /\ 1 .. k = (1 .. k - 1) \cup {k} /\ k \in 1 .. k
    <2>1. Len(s) \in Nat
        BY SequenceType
    <2> QED BY <2>1
<1>2. s[k].at \in Int /\ t \in Int
    <2>1. s[k].at \in Times
        BY SequenceType, EventType
    <2>2. Times \subseteq Int
        BY PeriodType DEF Times
    <2> QED BY <2>1, <2>2
<1>3. ASSUME s[k].op = "report" \/ s[k].seat # seat \/ t < s[k].at
      PROVE  StandsAt(s, k, seat, t) <=> StandsAt(s, k - 1, seat, t)
    <2>1. ~(AddOf(s, k, seat) /\ s[k].at <= t) /\ ~(RemoveOf(s, k, seat) /\ s[k].at <= t)
        BY <1>2, <1>3 DEF AddOf, RemoveOf
    <2>2. ASSUME StandsAt(s, k, seat, t) PROVE StandsAt(s, k - 1, seat, t)
        <3>1. PICK a \in 1 .. k : /\ AddOf(s, a, seat) /\ s[a].at <= t
                                  /\ \A b \in 1 .. k : RemoveOf(s, b, seat) /\ s[b].at <= t => ~(a < b)
            BY <2>2 DEF StandsAt
        <3>2. a \in 1 .. k - 1
            BY <1>1, <2>1, <3>1
        <3> QED BY <1>1, <3>1, <3>2 DEF StandsAt
    <2>3. ASSUME StandsAt(s, k - 1, seat, t) PROVE StandsAt(s, k, seat, t)
        <3>1. PICK a \in 1 .. k - 1 : /\ AddOf(s, a, seat) /\ s[a].at <= t
                                      /\ \A b \in 1 .. k - 1 : RemoveOf(s, b, seat) /\ s[b].at <= t => ~(a < b)
            BY <2>3 DEF StandsAt
        <3>2. \A b \in 1 .. k : RemoveOf(s, b, seat) /\ s[b].at <= t => ~(a < b)
            BY <1>1, <2>1, <3>1
        <3> QED BY <1>1, <3>1, <3>2 DEF StandsAt
    <2> QED BY <2>2, <2>3
<1>4. ASSUME AddOf(s, k, seat), s[k].at <= t PROVE StandsAt(s, k, seat, t)
    <2>1. \A b \in 1 .. k : ~(k < b)
        BY <1>1
    <2> QED BY <1>1, <1>4, <2>1 DEF StandsAt
<1>5. ASSUME RemoveOf(s, k, seat), s[k].at <= t PROVE ~StandsAt(s, k, seat, t)
    <2>1. \A a \in 1 .. k : AddOf(s, a, seat) => a < k
        <3> TAKE a \in 1 .. k
        <3>1. ~AddOf(s, k, seat)
            BY <1>5 DEF AddOf, RemoveOf
        <3> QED BY <1>1, <3>1
    <2> QED BY <1>1, <1>5, <2>1 DEF StandsAt
<1> QED BY <1>3, <1>4, <1>5

\* What one event does to the intervals.
Closing(r, e) == [seat |-> e.seat, from |-> r.open[e.seat], to |-> e.at]

LEMMA StepIs ==
    ASSUME NEW r \in Replay, NEW e \in Events, NEW q, q = OpenOrClose(r, e)
    PROVE  /\ q \in Replay
           /\ Opens(r, e) => /\ e.seat \in Seats /\ q.out = r.out /\ q.open[e.seat] = e.at
                             /\ \A i \in Seats : i # e.seat => q.open[i] = r.open[i]
           /\ Closes(r, e) => /\ e.seat \in Seats /\ q.open[e.seat] = NotOpen
                              /\ \A i \in Seats : i # e.seat => q.open[i] = r.open[i]
                              /\ DOMAIN q.out = DOMAIN r.out \cup {Len(r.out) + 1}
                              /\ Len(q.out) = Len(r.out) + 1 /\ Len(r.out) + 1 \notin DOMAIN r.out
                              /\ \A m \in DOMAIN r.out : q.out[m] = r.out[m]
                              /\ q.out[Len(r.out) + 1] = Closing(r, e)
           /\ ~Opens(r, e) /\ ~Closes(r, e) => q = r
<1>1. /\ r.open \in [Seats -> Times \cup {NotOpen}] /\ r.out \in Seq(Closed)
      /\ Len(r.out) \in Nat /\ DOMAIN r.out = 1 .. Len(r.out)
    BY ReplayType
<1>2. q \in Replay /\ (~Opens(r, e) /\ ~Closes(r, e) => q = r)
    BY OpenOrCloseIs
<1>3. ASSUME Opens(r, e)
      PROVE  /\ e.seat \in Seats /\ q.out = r.out /\ q.open[e.seat] = e.at
             /\ \A i \in Seats : i # e.seat => q.open[i] = r.open[i]
    <2>1. e.seat \in Seats
        BY <1>3, EventType DEF Opens
    <2>2. q = [open |-> [r.open EXCEPT ![e.seat] = e.at], out |-> r.out]
        BY <1>3, OpenOrCloseIs
    <2>3. q.out = r.out /\ q.open = [r.open EXCEPT ![e.seat] = e.at]
        BY <2>2
    <2> QED BY <1>1, <2>1, <2>3
<1>4. ASSUME Closes(r, e)
      PROVE  /\ e.seat \in Seats /\ q.open[e.seat] = NotOpen
             /\ \A i \in Seats : i # e.seat => q.open[i] = r.open[i]
             /\ DOMAIN q.out = DOMAIN r.out \cup {Len(r.out) + 1}
             /\ Len(q.out) = Len(r.out) + 1 /\ Len(r.out) + 1 \notin DOMAIN r.out
             /\ \A m \in DOMAIN r.out : q.out[m] = r.out[m]
             /\ q.out[Len(r.out) + 1] = Closing(r, e)
    <2>1. e.seat \in Seats
        BY <1>4, EventType DEF Closes
    <2>2. q = [open |-> [r.open EXCEPT ![e.seat] = NotOpen], out |-> Append(r.out, Closing(r, e))]
        BY <1>4, OpenOrCloseIs DEF Close, Closing
    <2>3. q.out = Append(r.out, Closing(r, e)) /\ q.open = [r.open EXCEPT ![e.seat] = NotOpen]
        BY <2>2
    <2>4. q.open[e.seat] = NotOpen /\ \A i \in Seats : i # e.seat => q.open[i] = r.open[i]
        BY <1>1, <2>1, <2>3
    <2>5. /\ Len(q.out) = Len(r.out) + 1 /\ DOMAIN q.out = 1 .. Len(r.out) + 1
          /\ q.out[Len(r.out) + 1] = Closing(r, e) /\ \A m \in DOMAIN r.out : q.out[m] = r.out[m]
        BY <1>1, <2>3
    <2>6. 1 .. Len(r.out) + 1 = DOMAIN r.out \cup {Len(r.out) + 1} /\ Len(r.out) + 1 \notin DOMAIN r.out
        BY <1>1
    <2> QED BY <2>1, <2>4, <2>5, <2>6
<1> QED BY <1>2, <1>3, <1>4

LEMMA CoveredNext ==
    ASSUME NEW r \in Replay, NEW e \in Events, NEW q, q = OpenOrClose(r, e),
           \A i \in Seats : r.open[i] # NotOpen => r.open[i] <= e.at,
           \A m \in DOMAIN r.out : r.out[m].to <= e.at,
           NEW seat \in Seats, NEW t \in Times
    PROVE  /\ e.op = "report" \/ e.seat # seat \/ t < e.at => (CoveredBy(q, seat, t) <=> CoveredBy(r, seat, t))
           /\ e.op = "add" /\ e.seat = seat /\ e.at <= t => CoveredBy(q, seat, t)
           /\ e.op = "remove" /\ e.seat = seat /\ e.at <= t => ~CoveredBy(q, seat, t)
<1> DEFINE l == Len(r.out) + 1
<1>1. /\ q \in Replay
      /\ Opens(r, e) => /\ e.seat \in Seats /\ q.out = r.out /\ q.open[e.seat] = e.at
                        /\ \A i \in Seats : i # e.seat => q.open[i] = r.open[i]
      /\ Closes(r, e) => /\ e.seat \in Seats /\ q.open[e.seat] = NotOpen
                         /\ \A i \in Seats : i # e.seat => q.open[i] = r.open[i]
                         /\ DOMAIN q.out = DOMAIN r.out \cup {l}
                         /\ \A m \in DOMAIN r.out : q.out[m] = r.out[m]
                         /\ q.out[l] = Closing(r, e)
      /\ ~Opens(r, e) /\ ~Closes(r, e) => q = r
    BY StepIs
<1> HIDE DEF l
<1>2. e.at \in Int /\ t \in Int /\ t \in Times /\ e.at \in Times /\ NotOpen \notin Times /\ e.at # NotOpen
    <2>1. e.at \in Times
        BY EventType
    <2> QED BY <2>1, TimeIs
<1>3. r.open[seat] \in Times \cup {NotOpen} /\ (r.open[seat] # NotOpen => r.open[seat] \in Int)
    <2>1. r.open[seat] \in Times \cup {NotOpen}
        BY ReplayType
    <2> QED BY <2>1, TimeIs
<1>4. \A m \in DOMAIN r.out : r.out[m].to \in Int /\ r.out[m].from \in Int
    <2>1. \A m \in DOMAIN r.out : r.out[m].to \in Times /\ r.out[m].from \in Times
        BY ReplayType
    <2> QED BY <2>1, TimeIs
<1>5. Closing(r, e).seat = e.seat /\ Closing(r, e).from = r.open[e.seat] /\ Closing(r, e).to = e.at
    BY DEF Closing
<1>6. CASE Opens(r, e)
    <2>1. e.op = "add" /\ r.open[e.seat] = NotOpen
        BY <1>6 DEF Opens
    <2>2. \A i \in Seats : (\E m \in DOMAIN q.out : Within(q.out[m], i, t)) <=> (\E m \in DOMAIN r.out : Within(r.out[m], i, t))
        BY <1>1, <1>6
    <2>3. CASE e.seat # seat
        <3>1. q.open[seat] = r.open[seat]
            BY <1>1, <1>6, <2>3
        <3> QED BY <2>2, <2>3, <3>1 DEF CoveredBy
    <2>4. CASE e.seat = seat
        <3>1. q.open[seat] = e.at /\ r.open[seat] = NotOpen
            BY <1>1, <1>6, <2>1, <2>4
        <3>2. t < e.at => ~(e.at <= t)
            BY <1>2
        <3> QED BY <1>2, <2>1, <2>2, <2>4, <3>1, <3>2 DEF CoveredBy
    <2> QED BY <2>3, <2>4
<1>7. CASE Closes(r, e)
    <2>1. e.op = "remove" /\ r.open[e.seat] # NotOpen
        BY <1>7 DEF Closes
    <2>2. (\E m \in DOMAIN q.out : Within(q.out[m], seat, t))
          <=> (\E m \in DOMAIN r.out : Within(r.out[m], seat, t)) \/ Within(Closing(r, e), seat, t)
        BY <1>1, <1>7
    <2>3. CASE e.seat # seat
        <3>1. q.open[seat] = r.open[seat]
            BY <1>1, <1>7, <2>3
        <3>2. ~Within(Closing(r, e), seat, t)
            BY <1>5, <2>3 DEF Within
        <3> QED BY <2>2, <2>3, <3>1, <3>2 DEF CoveredBy
    <2>4. CASE e.seat = seat
        <3>1. q.open[seat] = NotOpen /\ r.open[seat] # NotOpen
            BY <1>1, <1>7, <2>1, <2>4
        <3>2. Within(Closing(r, e), seat, t) <=> r.open[seat] <= t /\ t < e.at
            BY <1>5, <2>4 DEF Within
        <3>3. e.at <= t => ~\E m \in DOMAIN r.out : Within(r.out[m], seat, t)
            BY <1>2, <1>4 DEF Within
        <3>4. e.at <= t => ~(t < e.at)
            BY <1>2
        <3> QED BY <2>1, <2>2, <2>4, <3>1, <3>2, <3>3, <3>4 DEF CoveredBy
    <2> QED BY <2>3, <2>4
<1>8. CASE ~Opens(r, e) /\ ~Closes(r, e)
    <2>1. q = r
        BY <1>1, <1>8
    <2>2. e.op = "add" /\ e.seat = seat => r.open[seat] # NotOpen
        BY <1>8 DEF Opens
    <2>3. e.op = "remove" /\ e.seat = seat => r.open[seat] = NotOpen
        BY <1>8 DEF Closes
    <2>4. e.op = "add" /\ e.seat = seat /\ e.at <= t => r.open[seat] <= t
        BY <1>2, <1>3, <2>2
    <2>5. e.at <= t => ~\E m \in DOMAIN r.out : Within(r.out[m], seat, t)
        BY <1>2, <1>4 DEF Within
    <2> QED BY <2>1, <2>2, <2>3, <2>4, <2>5 DEF CoveredBy
<1> QED BY <1>6, <1>7, <1>8

LEMMA ToldNext ==
    ASSUME NEW s \in Seq(Events), InOrder(s), NEW k \in 1 .. Len(s), NEW r \in Replay, Told(r, s, k - 1),
           NEW q, q = OpenOrClose(r, s[k])
    PROVE  Told(q, s, k)
<1> DEFINE e == s[k]
           n == Len(s)
           l == Len(r.out) + 1
<1>1. /\ n \in Nat /\ k \in Nat /\ k - 1 \in Nat /\ (k - 1) + 1 = k /\ 1 .. k = (1 .. k - 1) \cup {k}
      /\ k \in 1 .. k /\ k \in k .. n /\ k + 1 .. n \subseteq k .. n
    <2>1. Len(s) \in Nat
        BY SequenceType
    <2> QED BY <2>1
<1>2. e \in Events /\ \A j \in 1 .. n : s[j] \in Events
    BY SequenceType
<1>3. \A j \in 1 .. n : s[j].at \in Times /\ s[j].at \in Int /\ s[j].at # NotOpen
    BY <1>2, EventType, TimeIs
<1>4. /\ \A j \in 1 .. k : s[j].at <= e.at
      /\ \A j \in k .. n : e.at <= s[j].at
    <2>1. ASSUME NEW j \in 1 .. k PROVE s[j].at <= e.at
        <3>1. j \in 1 .. Len(s) /\ j <= k
            BY <1>1
        <3> QED BY <3>1 DEF InOrder
    <2>2. ASSUME NEW j \in k .. n PROVE e.at <= s[j].at
        <3>1. j \in 1 .. Len(s) /\ k <= j
            BY <1>1
        <3> QED BY <3>1 DEF InOrder
    <2> QED BY <2>1, <2>2
<1>5. /\ q \in Replay
      /\ Opens(r, e) => /\ e.seat \in Seats /\ q.out = r.out /\ q.open[e.seat] = e.at
                        /\ \A i \in Seats : i # e.seat => q.open[i] = r.open[i]
      /\ Closes(r, e) => /\ e.seat \in Seats /\ q.open[e.seat] = NotOpen
                         /\ \A i \in Seats : i # e.seat => q.open[i] = r.open[i]
                         /\ DOMAIN q.out = DOMAIN r.out \cup {l}
                         /\ Len(q.out) = l /\ l \notin DOMAIN r.out
                         /\ \A m \in DOMAIN r.out : q.out[m] = r.out[m]
                         /\ q.out[l] = Closing(r, e)
      /\ ~Opens(r, e) /\ ~Closes(r, e) => q = r
    BY <1>2, StepIs
<1>6. /\ StandsRight(r, s, k - 1) /\ Past(r, s, k - 1) /\ Apart(r)
      /\ AddsLie(r, s, k - 1) /\ StartsAreAdds(r, s, k - 1) /\ FewIntervals(r, k - 1)
    BY DEF Told
<1> HIDE DEF e, l
<1>7. \A j \in k .. n : /\ \A i \in Seats : r.open[i] # NotOpen => r.open[i] <= s[j].at
                        /\ \A m \in DOMAIN r.out : r.out[m].to <= s[j].at
    BY <1>1, <1>6 DEF Past
<1>8. /\ \A i \in Seats : r.open[i] # NotOpen => r.open[i] <= e.at
      /\ \A m \in DOMAIN r.out : r.out[m].to <= e.at
    BY <1>1, <1>7 DEF e
<1>9. Closing(r, e).seat = e.seat /\ Closing(r, e).from = r.open[e.seat] /\ Closing(r, e).to = e.at
    BY DEF Closing
<1>10. /\ \A i \in Seats : q.open[i] # NotOpen =>
              (Opens(r, e) /\ i = e.seat /\ q.open[i] = e.at) \/ q.open[i] = r.open[i]
       /\ \A m \in DOMAIN q.out : \/ m \in DOMAIN r.out /\ q.out[m] = r.out[m]
                                  \/ Closes(r, e) /\ m = l /\ q.out[m] = Closing(r, e)
       /\ \A m \in DOMAIN r.out : m \in DOMAIN q.out /\ q.out[m] = r.out[m]
    <2>1. CASE Opens(r, e)
        BY <1>5, <2>1
    <2>2. CASE Closes(r, e)
        BY <1>5, <2>2
    <2>3. CASE ~Opens(r, e) /\ ~Closes(r, e)
        BY <1>5, <2>3
    <2> QED BY <2>1, <2>2, <2>3
<1>11. Closes(r, e) => /\ e.seat \in Seats /\ r.open[e.seat] # NotOpen /\ r.open[e.seat] <= e.at
                       /\ q.open[e.seat] = NotOpen /\ l \in DOMAIN q.out /\ q.out[l] = Closing(r, e)
    BY <1>5, <1>8 DEF Closes
<1>12. StandsRight(q, s, k)
    <2> SUFFICES ASSUME NEW seat \in Seats, NEW t \in Times
                 PROVE  StandsAt(s, k, seat, t) <=> CoveredBy(q, seat, t)
        BY DEF StandsRight
    <2>1. StandsAt(s, k - 1, seat, t) <=> CoveredBy(r, seat, t)
        BY <1>6 DEF StandsRight
    <2>2. /\ e.op = "report" \/ e.seat # seat \/ t < e.at =>
                    (StandsAt(s, k, seat, t) <=> StandsAt(s, k - 1, seat, t))
          /\ AddOf(s, k, seat) /\ e.at <= t => StandsAt(s, k, seat, t)
          /\ RemoveOf(s, k, seat) /\ e.at <= t => ~StandsAt(s, k, seat, t)
        BY StandsNext DEF e
    <2>3. /\ e.op = "report" \/ e.seat # seat \/ t < e.at => (CoveredBy(q, seat, t) <=> CoveredBy(r, seat, t))
          /\ e.op = "add" /\ e.seat = seat /\ e.at <= t => CoveredBy(q, seat, t)
          /\ e.op = "remove" /\ e.seat = seat /\ e.at <= t => ~CoveredBy(q, seat, t)
        <3>1. q = OpenOrClose(r, e) /\ e \in Events
            BY <1>2 DEF e
        <3> QED BY <1>8, <3>1, CoveredNext
    <2>4. e.op \in {"add", "remove", "report"} /\ (t < e.at \/ e.at <= t)
        <3>1. t \in Int /\ e.at \in Int
            BY <1>3, TimeIs DEF e
        <3> QED BY <1>2, <3>1, EventType DEF e
    <2> QED BY <2>1, <2>2, <2>3, <2>4 DEF AddOf, RemoveOf, e
<1>13. Past(q, s, k)
    <2> SUFFICES ASSUME NEW j \in k + 1 .. n
                 PROVE  /\ \A i \in Seats : q.open[i] # NotOpen => q.open[i] <= s[j].at
                        /\ \A m \in DOMAIN q.out : q.out[m].to <= s[j].at
        BY DEF Past
    <2>1. j \in k .. n /\ e.at <= s[j].at
        BY <1>1, <1>4
    <2> QED BY <1>7, <1>9, <1>10, <2>1
<1>14. Apart(q)
    <2>1. /\ \A m \in DOMAIN r.out : r.out[m].from <= r.out[m].to
          /\ \A h, m \in DOMAIN r.out : h # m /\ r.out[h].seat = r.out[m].seat =>
                 r.out[h].to <= r.out[m].from \/ r.out[m].to <= r.out[h].from
          /\ \A m \in DOMAIN r.out : r.open[r.out[m].seat] # NotOpen => r.out[m].to <= r.open[r.out[m].seat]
        BY <1>6 DEF Apart
    <2>2. \A m \in DOMAIN q.out : q.out[m].from <= q.out[m].to
        BY <1>9, <1>10, <1>11, <2>1
    <2>3. ASSUME NEW h \in DOMAIN q.out, NEW m \in DOMAIN q.out, h # m, q.out[h].seat = q.out[m].seat
          PROVE  q.out[h].to <= q.out[m].from \/ q.out[m].to <= q.out[h].from
        <3>1. CASE h \in DOMAIN r.out /\ m \in DOMAIN r.out
            BY <1>10, <2>1, <2>3, <3>1
        <3>2. CASE h \notin DOMAIN r.out
            BY <1>9, <1>10, <1>11, <2>1, <2>3, <3>2
        <3>3. CASE m \notin DOMAIN r.out
            BY <1>9, <1>10, <1>11, <2>1, <2>3, <3>3
        <3> QED BY <3>1, <3>2, <3>3
    <2>4. ASSUME NEW m \in DOMAIN q.out, q.open[q.out[m].seat] # NotOpen
          PROVE  q.out[m].to <= q.open[q.out[m].seat]
        <3>1. q.out[m].seat \in Seats
            BY <1>5, ReplayType
        <3>2. m \in DOMAIN r.out /\ q.out[m] = r.out[m]
            BY <1>9, <1>10, <1>11, <2>4
        <3> QED BY <1>8, <1>10, <2>1, <2>4, <3>1, <3>2
    <2> QED BY <2>2, <2>3, <2>4 DEF Apart
<1>15. AddsLie(q, s, k)
    <2> SUFFICES ASSUME NEW a \in 1 .. k, s[a].op = "add"
                 PROVE  \/ q.open[s[a].seat] # NotOpen /\ q.open[s[a].seat] <= s[a].at
                        \/ \E m \in DOMAIN q.out : /\ q.out[m].seat = s[a].seat
                                                   /\ q.out[m].from <= s[a].at /\ s[a].at <= q.out[m].to
        BY DEF AddsLie
    <2>0. s[a].seat \in Seats /\ a \in 1 .. n /\ s[a].at \in Int /\ s[a].at <= e.at
        <3>1. a \in 1 .. n
            BY <1>1
        <3> QED BY <1>2, <1>3, <1>4, <3>1, EventType
    <2>1. CASE a = k
        <3>1. e.op = "add" /\ s[a] = e
            BY <2>1 DEF e
        <3>2. CASE Opens(r, e)
            <4>1. q.open[e.seat] = e.at /\ e.at # NotOpen
                BY <1>1, <1>3, <1>5, <3>2 DEF e
            <4> QED BY <2>0, <3>1, <4>1
        <3>3. CASE ~Opens(r, e)
            <4>1. q = r /\ r.open[e.seat] # NotOpen
                BY <1>5, <3>1, <3>3 DEF Opens, Closes
            <4> QED BY <1>8, <2>0, <3>1, <4>1
        <3> QED BY <3>2, <3>3
    <2>2. CASE a # k
        <3>1. a \in 1 .. k - 1
            BY <1>1, <2>2
        <3>2. \/ r.open[s[a].seat] # NotOpen /\ r.open[s[a].seat] <= s[a].at
              \/ \E m \in DOMAIN r.out : /\ r.out[m].seat = s[a].seat
                                         /\ r.out[m].from <= s[a].at /\ s[a].at <= r.out[m].to
            BY <1>6, <3>1 DEF AddsLie
        <3>3. CASE r.open[s[a].seat] # NotOpen /\ r.open[s[a].seat] <= s[a].at
            <4>1. CASE Closes(r, e) /\ s[a].seat = e.seat
                BY <1>9, <1>11, <2>0, <3>3, <4>1
            <4>2. CASE ~(Closes(r, e) /\ s[a].seat = e.seat)
                <5>1. q.open[s[a].seat] = r.open[s[a].seat]
                    BY <1>5, <2>0, <3>3, <4>2 DEF Opens
                <5> QED BY <3>3, <5>1
            <4> QED BY <4>1, <4>2
        <3>4. CASE \E m \in DOMAIN r.out : /\ r.out[m].seat = s[a].seat
                                           /\ r.out[m].from <= s[a].at /\ s[a].at <= r.out[m].to
            BY <1>10, <3>4
        <3> QED BY <3>2, <3>3, <3>4
    <2> QED BY <2>1, <2>2
<1>16. StartsAreAdds(q, s, k)
    <2>1. /\ \A i \in Seats : r.open[i] # NotOpen =>
                \E a \in 1 .. k - 1 : AddOf(s, a, i) /\ s[a].at = r.open[i]
          /\ \A m \in DOMAIN r.out : \E a \in 1 .. k - 1 : AddOf(s, a, r.out[m].seat) /\ s[a].at = r.out[m].from
        BY <1>6 DEF StartsAreAdds
    <2>2. ASSUME NEW i \in Seats, q.open[i] # NotOpen
          PROVE  \E a \in 1 .. k : AddOf(s, a, i) /\ s[a].at = q.open[i]
        <3>1. CASE Opens(r, e) /\ i = e.seat /\ q.open[i] = e.at
            <4>1. AddOf(s, k, i) /\ s[k].at = q.open[i]
                BY <3>1 DEF AddOf, Opens, e
            <4> QED BY <1>1, <4>1
        <3>2. CASE q.open[i] = r.open[i]
            BY <1>1, <2>1, <2>2, <3>2
        <3> QED BY <1>10, <2>2, <3>1, <3>2
    <2>3. ASSUME NEW m \in DOMAIN q.out
          PROVE  \E a \in 1 .. k : AddOf(s, a, q.out[m].seat) /\ s[a].at = q.out[m].from
        <3>1. CASE m \in DOMAIN r.out /\ q.out[m] = r.out[m]
            BY <1>1, <2>1, <3>1
        <3>2. CASE Closes(r, e) /\ m = l /\ q.out[m] = Closing(r, e)
            <4>1. PICK a \in 1 .. k - 1 : AddOf(s, a, e.seat) /\ s[a].at = r.open[e.seat]
                BY <1>11, <2>1, <3>2
            <4> QED BY <1>1, <1>9, <3>2, <4>1
        <3> QED BY <1>10, <3>1, <3>2
    <2> QED BY <2>2, <2>3 DEF StartsAreAdds
<1>17. FewIntervals(q, k)
    <2>1. IsFiniteSet(OpenSeats(r)) /\ Cardinality(OpenSeats(r)) \in Nat /\ Len(r.out) \in Nat
        <3>1. IsFiniteSet(OpenSeats(r)) /\ Len(r.out) \in Nat
            BY ReplayType DEF OpenSeats
        <3> QED BY <3>1, FS_CardinalityType
    <2>2. Len(r.out) + Cardinality(OpenSeats(r)) <= k - 1
        BY <1>6 DEF FewIntervals
    <2>3. CASE Opens(r, e)
        <3>1. OpenSeats(q) = OpenSeats(r) \cup {e.seat} /\ e.seat \notin OpenSeats(r)
            <4>1. e.at # NotOpen /\ r.open[e.seat] = NotOpen
                BY <1>1, <1>3, <2>3 DEF e, Opens
            <4> QED BY <1>5, <2>3, <4>1 DEF OpenSeats
        <3>2. Cardinality(OpenSeats(r) \cup {e.seat}) = Cardinality(OpenSeats(r)) + 1
            BY <2>1, <3>1, FS_AddElement
        <3>3. Cardinality(OpenSeats(q)) = Cardinality(OpenSeats(r)) + 1 /\ Len(q.out) = Len(r.out)
            BY <1>5, <2>3, <3>1, <3>2
        <3> QED BY <1>1, <2>1, <2>2, <3>3 DEF FewIntervals
    <2>4. CASE Closes(r, e)
        <3>1. OpenSeats(q) = OpenSeats(r) \ {e.seat} /\ e.seat \in OpenSeats(r)
            BY <1>5, <1>11, <2>4 DEF OpenSeats
        <3>2. Cardinality(OpenSeats(r) \ {e.seat}) = Cardinality(OpenSeats(r)) - 1
            BY <2>1, <3>1, FS_RemoveElement
        <3>3. Cardinality(OpenSeats(q)) = Cardinality(OpenSeats(r)) - 1 /\ Len(q.out) = Len(r.out) + 1
            BY <1>5, <2>4, <3>1, <3>2 DEF l
        <3> QED BY <1>1, <2>1, <2>2, <3>3 DEF FewIntervals
    <2>5. CASE ~Opens(r, e) /\ ~Closes(r, e)
        <3>1. q = r
            BY <1>5, <2>5
        <3> QED BY <1>1, <2>1, <2>2, <3>1 DEF FewIntervals
    <2> QED BY <2>3, <2>4, <2>5
<1> QED BY <1>12, <1>13, <1>14, <1>15, <1>16, <1>17 DEF Told

LEMMA ToldAtLast ==
    ASSUME NEW s \in Seq(Events), InOrder(s), NEW g \in [0 .. Len(s) -> Replay], Replays(g, s)
    PROVE  Told(g[Len(s)], s, Len(s))
<1> DEFINE n == Len(s)
           Good == {k \in 0 .. n : Told(g[k], s, k)}
<1>1. n \in Nat /\ 0 \in 0 .. n /\ n \in 0 .. n
    BY SequenceType
<1>2. g[0] = Nothing /\ \A k \in 1 .. n : g[k] = OpenOrClose(g[k - 1], s[k])
    BY DEF Replays
<1>3. 0 \in Good
    BY <1>1, <1>2, ToldAtFirst
<1>4. ASSUME NEW k \in 1 .. n, k - 1 \in Good PROVE k \in Good
    <2>1. k \in 0 .. n /\ k - 1 \in 0 .. n
        BY <1>1
    <2>2. g[k - 1] \in Replay /\ Told(g[k - 1], s, k - 1) /\ g[k] = OpenOrClose(g[k - 1], s[k])
        BY <1>2, <1>4, <2>1
    <2>3. Told(g[k], s, k)
        BY <2>2, ToldNext
    <2> QED BY <2>1, <2>3
<1> HIDE DEF Good
<1>5. \A k \in 0 .. n : k \in Good
    BY <1>1, <1>3, <1>4, PrefixInduction
<1> QED BY <1>1, <1>5 DEF Good

\* What the intervals say of the history.
FromHistory(ivs) ==
    /\ \A seat \in Seats, t \in Times : Stands(seat, t) <=> \E m \in DOMAIN ivs : Within(ivs[m], seat, t)
    /\ \A m \in DOMAIN ivs : ivs[m].from <= ivs[m].to
    /\ \A h, m \in DOMAIN ivs : h # m /\ ivs[h].seat = ivs[m].seat =>
          ivs[h].to <= ivs[m].from \/ ivs[m].to <= ivs[h].from
    /\ \A i \in DOMAIN log : log[i].op = "add" =>
          \E m \in DOMAIN ivs : ivs[m].seat = log[i].seat /\ ivs[m].from <= log[i].at /\ log[i].at <= ivs[m].to
    /\ \A m \in DOMAIN ivs : \E i \in DOMAIN log :
          log[i].op = "add" /\ log[i].seat = ivs[m].seat /\ log[i].at = ivs[m].from
    /\ Len(ivs) <= Len(log)

\* The intervals of a replay: those in out, and one to Open for each open seat.
Shows(ivs, r) ==
    /\ \A m \in DOMAIN ivs : \/ \E h \in DOMAIN r.out : ivs[m] = r.out[h]
                             \/ /\ ivs[m].seat \in Seats /\ r.open[ivs[m].seat] # NotOpen
                                /\ ivs[m].from = r.open[ivs[m].seat] /\ ivs[m].to = Open
    /\ \A h \in DOMAIN r.out : \E m \in DOMAIN ivs : ivs[m] = r.out[h]
    /\ \A i \in Seats : r.open[i] # NotOpen =>
          \E m \in DOMAIN ivs : ivs[m].seat = i /\ ivs[m].from = r.open[i] /\ ivs[m].to = Open
    /\ \A h, m \in DOMAIN ivs : h # m =>
          \/ \E a, b \in DOMAIN r.out : a # b /\ ivs[h] = r.out[a] /\ ivs[m] = r.out[b]
          \/ \E a \in DOMAIN r.out : ivs[h] = r.out[a] /\ ivs[m].to = Open /\ ivs[m].from = r.open[ivs[m].seat]
                                     /\ r.open[ivs[m].seat] # NotOpen
          \/ \E b \in DOMAIN r.out : ivs[m] = r.out[b] /\ ivs[h].to = Open /\ ivs[h].from = r.open[ivs[h].seat]
                                     /\ r.open[ivs[h].seat] # NotOpen
          \/ ivs[h].seat # ivs[m].seat
    /\ Len(ivs) <= Len(r.out) + Cardinality(OpenSeats(r))

LEMMA Concatenation ==
    ASSUME NEW A, NEW s \in Seq(A), NEW B, NEW q \in Seq(B)
    PROVE  /\ Len(s \o q) = Len(s) + Len(q) /\ DOMAIN (s \o q) = 1 .. Len(s) + Len(q)
           /\ \A m \in 1 .. Len(s) : (s \o q)[m] = s[m]
           /\ \A m \in Len(s) + 1 .. Len(s) + Len(q) : (s \o q)[m] = q[m - Len(s)]
OBVIOUS

LEMMA ReplayShows ==
    ASSUME NEW r \in Replay, NEW ivs, ivs = r.out \o SetToSeq(Standings(r))
    PROVE  Shows(ivs, r)
<1> DEFINE S == Standings(r)
           q == SetToSeq(S)
           n == Len(r.out)
           c == Cardinality(S)
<1>1. /\ IsFiniteSet(S)
      /\ \A iv \in S : /\ iv \in Interval /\ iv.seat \in Seats
                       /\ iv.to = Open /\ iv.from = r.open[iv.seat] /\ r.open[iv.seat] # NotOpen
      /\ \A i \in Seats : r.open[i] # NotOpen => \E iv \in S : iv.seat = i
    BY StandingsType
<1>2. \A x, y \in S : x.seat = y.seat => x = y
    BY DEF Standings
<1>3. c <= Cardinality(OpenSeats(r)) /\ Cardinality(OpenSeats(r)) \in Nat
    <2> DEFINE A == OpenSeats(r)
               f == [i \in A |-> [seat |-> i, from |-> r.open[i], to |-> Open]]
    <2>1. S = {f[i] : i \in A}
        BY DEF Standings, OpenSeats
    <2>2. IsFiniteSet(A)
        BY ReplayType DEF OpenSeats
    <2> HIDE DEF A, f, S
    <2> QED BY <2>1, <2>2, ImageIsFinite, FS_CardinalityType DEF A
<1>4. n \in Nat /\ DOMAIN r.out = 1 .. n /\ r.out \in Seq(Closed)
    BY ReplayType
<1>5. /\ c \in Nat /\ q \in Seq(S) /\ Len(q) = c /\ DOMAIN q = 1 .. c
      /\ \A x \in S : \E k \in 1 .. c : q[k] = x
      /\ \A j, k \in 1 .. c : q[j] = q[k] => j = k
    <2> HIDE DEF S
    <2> QED BY <1>1, SetToSeqIs
<1>6. \A k \in 1 .. c : q[k] \in S
    <2> HIDE DEF S
    <2> QED BY <1>5, SequenceType
<1>7. ivs = r.out \o q
    OBVIOUS
<1> HIDE DEF S, q, c
<1>8. /\ Len(ivs) = n + c /\ DOMAIN ivs = 1 .. n + c
      /\ \A m \in 1 .. n : ivs[m] = r.out[m]
      /\ \A m \in n + 1 .. n + c : ivs[m] = q[m - n]
    <2>1. r.out \in Seq(Closed) /\ q \in Seq(S) /\ Len(r.out) = n /\ Len(q) = c
        BY <1>4, <1>5
    <2> HIDE DEF n
    <2>2. /\ Len(r.out \o q) = Len(r.out) + Len(q) /\ DOMAIN (r.out \o q) = 1 .. Len(r.out) + Len(q)
          /\ \A m \in 1 .. Len(r.out) : (r.out \o q)[m] = r.out[m]
          /\ \A m \in Len(r.out) + 1 .. Len(r.out) + Len(q) : (r.out \o q)[m] = q[m - Len(r.out)]
        BY <2>1, Concatenation, Zenon
    <2> QED BY <1>7, <2>1, <2>2, Zenon
<1> HIDE DEF n
<1>9. \A m \in DOMAIN ivs : \/ m \in 1 .. n /\ ivs[m] = r.out[m]
                            \/ m - n \in 1 .. c /\ ivs[m] = q[m - n]
    <2> TAKE m \in DOMAIN ivs
    <2>1. m \in 1 .. n \/ (m \in n + 1 .. n + c /\ m - n \in 1 .. c)
        BY <1>4, <1>5, <1>8
    <2> QED BY <1>8, <2>1
<1>10. \A m \in 1 .. n : m \in DOMAIN ivs /\ ivs[m] = r.out[m]
    BY <1>4, <1>5, <1>8
<1>11. \A k \in 1 .. c : n + k \in DOMAIN ivs /\ ivs[n + k] = q[k]
    <2> TAKE k \in 1 .. c
    <2>1. n + k \in n + 1 .. n + c /\ (n + k) - n = k /\ n + k \in 1 .. n + c
        BY <1>4, <1>5
    <2> QED BY <1>8, <2>1
<1>12. \A m \in DOMAIN ivs : \/ \E h \in DOMAIN r.out : ivs[m] = r.out[h]
                             \/ /\ ivs[m].seat \in Seats /\ r.open[ivs[m].seat] # NotOpen
                                /\ ivs[m].from = r.open[ivs[m].seat] /\ ivs[m].to = Open
    BY <1>1, <1>4, <1>6, <1>9
<1>13. \A h \in DOMAIN r.out : \E m \in DOMAIN ivs : ivs[m] = r.out[h]
    BY <1>4, <1>10
<1>14. ASSUME NEW i \in Seats, r.open[i] # NotOpen
       PROVE  \E m \in DOMAIN ivs : ivs[m].seat = i /\ ivs[m].from = r.open[i] /\ ivs[m].to = Open
    <2>1. PICK iv \in S : iv.seat = i
        BY <1>1, <1>14
    <2>2. PICK k \in 1 .. c : q[k] = iv
        BY <1>5
    <2> QED BY <1>1, <1>11, <2>1, <2>2
<1>15. ASSUME NEW h \in DOMAIN ivs, NEW m \in DOMAIN ivs, h # m
       PROVE  \/ \E a, b \in DOMAIN r.out : a # b /\ ivs[h] = r.out[a] /\ ivs[m] = r.out[b]
              \/ \E a \in DOMAIN r.out : ivs[h] = r.out[a] /\ ivs[m].to = Open /\ ivs[m].from = r.open[ivs[m].seat]
                                         /\ r.open[ivs[m].seat] # NotOpen
              \/ \E b \in DOMAIN r.out : ivs[m] = r.out[b] /\ ivs[h].to = Open /\ ivs[h].from = r.open[ivs[h].seat]
                                         /\ r.open[ivs[h].seat] # NotOpen
              \/ ivs[h].seat # ivs[m].seat
    <2>1. CASE h \in 1 .. n /\ m \in 1 .. n
        BY <1>4, <1>10, <1>15, <2>1
    <2>2. CASE h \in 1 .. n /\ m \notin 1 .. n
        BY <1>1, <1>4, <1>6, <1>9, <1>10, <2>2
    <2>3. CASE h \notin 1 .. n /\ m \in 1 .. n
        BY <1>1, <1>4, <1>6, <1>9, <1>10, <2>3
    <2>4. CASE h \notin 1 .. n /\ m \notin 1 .. n
        <3>1. /\ h - n \in 1 .. c /\ ivs[h] = q[h - n]
              /\ m - n \in 1 .. c /\ ivs[m] = q[m - n]
            BY <1>9, <2>4
        <3>2. h - n # m - n
            BY <1>4, <1>5, <1>8, <1>15
        <3>3. q[h - n] # q[m - n]
            BY <1>5, <3>1, <3>2
        <3> QED BY <1>2, <1>6, <3>1, <3>3
    <2> QED BY <2>1, <2>2, <2>3, <2>4
<1>16. Len(ivs) <= Len(r.out) + Cardinality(OpenSeats(r))
    BY <1>3, <1>4, <1>5, <1>8 DEF n
<1> QED BY <1>12, <1>13, <1>14, <1>15, <1>16 DEF Shows

LEMMA IntervalsTell ==
    ASSUME log \in Seq(Events), NEW ivs, ivs = ReconstructIntervals(log)
    PROVE  FromHistory(ivs)
<1> DEFINE n == Len(log)
           s == SortedByTime(log)
<1>1. /\ s \in Seq(Events) /\ Len(s) = n /\ n \in Nat /\ DOMAIN log = 1 .. n
      /\ \A j, k \in 1 .. n : j <= k => s[j].at <= s[k].at
    BY SortedEvents
<1>2. PICK g \in [0 .. n -> Replay] : Replays(g, s) /\ ivs = g[n].out \o SetToSeq(Standings(g[n]))
    BY IntervalsOf
<1> DEFINE r == g[n]
<1>3. r \in Replay
    BY <1>1
<1>4. Told(r, s, n)
    <2>1. InOrder(s)
        BY <1>1 DEF InOrder
    <2> HIDE DEF s, n
    <2> QED BY <1>1, <1>2, <2>1, ToldAtLast
<1>5. Shows(ivs, r)
    BY <1>2, <1>3, ReplayShows
<1>6. /\ \A seat, t : Stands(seat, t) <=> StandsAt(s, n, seat, t)
      /\ \A i \in 1 .. n : \E a \in 1 .. n : s[a] = log[i]
      /\ \A a \in 1 .. n : \E i \in 1 .. n : log[i] = s[a]
    BY StandsIs, PlacesOfEvents
<1> HIDE DEF r, s, n
<1>7. /\ StandsRight(r, s, n) /\ Apart(r) /\ AddsLie(r, s, n) /\ StartsAreAdds(r, s, n) /\ FewIntervals(r, n)
    BY <1>4 DEF Told
<1>8. /\ \A m \in DOMAIN r.out : /\ r.out[m].seat \in Seats /\ r.out[m].from \in Int /\ r.out[m].to \in Int
                                 /\ r.out[m].to < Open
      /\ \A i \in Seats : r.open[i] # NotOpen => r.open[i] \in Int /\ r.open[i] < Open
      /\ \A t \in Times : t \in Int /\ t < Open
      /\ Open \in Int
    <2>1. \A t \in Times : t \in Int /\ t < Open
        BY TimeIs, PeriodType DEF Open
    <2>2. Open \in Int
        BY PeriodType DEF Open
    <2>3. \A i \in Seats : r.open[i] # NotOpen => r.open[i] \in Times
        BY <1>3, ReplayType
    <2>4. \A m \in DOMAIN r.out : r.out[m].seat \in Seats /\ r.out[m].from \in Times /\ r.out[m].to \in Times
        BY <1>3, ReplayType
    <2> QED BY <2>1, <2>2, <2>3, <2>4
<1>9. ASSUME NEW seat \in Seats, NEW t \in Times
      PROVE  Stands(seat, t) <=> \E m \in DOMAIN ivs : Within(ivs[m], seat, t)
    <2>1. Stands(seat, t) <=> CoveredBy(r, seat, t)
        BY <1>6, <1>7 DEF StandsRight
    <2>2. ASSUME CoveredBy(r, seat, t) PROVE \E m \in DOMAIN ivs : Within(ivs[m], seat, t)
        <3>1. CASE r.open[seat] # NotOpen /\ r.open[seat] <= t
            <4>1. PICK m \in DOMAIN ivs : ivs[m].seat = seat /\ ivs[m].from = r.open[seat] /\ ivs[m].to = Open
                BY <1>5, <3>1 DEF Shows
            <4> QED BY <1>8, <3>1, <4>1 DEF Within
        <3>2. CASE \E h \in DOMAIN r.out : Within(r.out[h], seat, t)
            BY <1>5, <3>2 DEF Shows
        <3> QED BY <2>2, <3>1, <3>2 DEF CoveredBy
    <2>3. ASSUME NEW m \in DOMAIN ivs, Within(ivs[m], seat, t) PROVE CoveredBy(r, seat, t)
        <3>1. CASE \E h \in DOMAIN r.out : ivs[m] = r.out[h]
            BY <2>3, <3>1 DEF CoveredBy
        <3>2. CASE r.open[ivs[m].seat] # NotOpen /\ ivs[m].from = r.open[ivs[m].seat]
            BY <2>3, <3>2 DEF CoveredBy, Within
        <3> QED BY <1>5, <3>1, <3>2 DEF Shows
    <2> QED BY <2>1, <2>2, <2>3
<1>10. ASSUME NEW m \in DOMAIN ivs PROVE ivs[m].from <= ivs[m].to
    <2>1. CASE \E h \in DOMAIN r.out : ivs[m] = r.out[h]
        BY <1>7, <2>1 DEF Apart
    <2>2. CASE /\ ivs[m].seat \in Seats /\ r.open[ivs[m].seat] # NotOpen
               /\ ivs[m].from = r.open[ivs[m].seat] /\ ivs[m].to = Open
        BY <1>8, <2>2
    <2> QED BY <1>5, <2>1, <2>2 DEF Shows
<1>11. ASSUME NEW h \in DOMAIN ivs, NEW m \in DOMAIN ivs, h # m, ivs[h].seat = ivs[m].seat
       PROVE  ivs[h].to <= ivs[m].from \/ ivs[m].to <= ivs[h].from
    <2>1. CASE \E a, b \in DOMAIN r.out : a # b /\ ivs[h] = r.out[a] /\ ivs[m] = r.out[b]
        BY <1>7, <1>11, <2>1 DEF Apart
    <2>2. CASE \E a \in DOMAIN r.out : ivs[h] = r.out[a] /\ ivs[m].to = Open /\ ivs[m].from = r.open[ivs[m].seat]
                                       /\ r.open[ivs[m].seat] # NotOpen
        BY <1>7, <1>11, <2>2 DEF Apart
    <2>3. CASE \E b \in DOMAIN r.out : ivs[m] = r.out[b] /\ ivs[h].to = Open /\ ivs[h].from = r.open[ivs[h].seat]
                                       /\ r.open[ivs[h].seat] # NotOpen
        BY <1>7, <1>11, <2>3 DEF Apart
    <2> QED BY <1>5, <1>11, <2>1, <2>2, <2>3 DEF Shows
<1>12. ASSUME NEW i \in DOMAIN log, log[i].op = "add"
       PROVE  \E m \in DOMAIN ivs : ivs[m].seat = log[i].seat /\ ivs[m].from <= log[i].at /\ log[i].at <= ivs[m].to
    <2>1. PICK a \in 1 .. n : s[a] = log[i]
        BY <1>1, <1>6
    <2>2. log[i] \in Events
        BY SequenceType
    <2>3. log[i].seat \in Seats /\ log[i].at \in Times
        BY <1>12, <2>2, EventType
    <2>4. CASE r.open[log[i].seat] # NotOpen /\ r.open[log[i].seat] <= log[i].at
        <3>1. PICK m \in DOMAIN ivs : /\ ivs[m].seat = log[i].seat /\ ivs[m].from = r.open[log[i].seat]
                                      /\ ivs[m].to = Open
            BY <1>5, <2>3, <2>4 DEF Shows
        <3> QED BY <1>8, <2>3, <2>4, <3>1
    <2>5. CASE \E h \in DOMAIN r.out : /\ r.out[h].seat = log[i].seat
                                       /\ r.out[h].from <= log[i].at /\ log[i].at <= r.out[h].to
        BY <1>5, <2>5 DEF Shows
    <2> QED BY <1>7, <1>12, <2>1, <2>4, <2>5 DEF AddsLie
<1>13. ASSUME NEW m \in DOMAIN ivs
       PROVE  \E i \in DOMAIN log : log[i].op = "add" /\ log[i].seat = ivs[m].seat /\ log[i].at = ivs[m].from
    <2>1. PICK a \in 1 .. n : AddOf(s, a, ivs[m].seat) /\ s[a].at = ivs[m].from
        <3>1. CASE \E h \in DOMAIN r.out : ivs[m] = r.out[h]
            BY <1>7, <3>1 DEF StartsAreAdds
        <3>2. CASE /\ ivs[m].seat \in Seats /\ r.open[ivs[m].seat] # NotOpen
                   /\ ivs[m].from = r.open[ivs[m].seat]
            BY <1>7, <3>2 DEF StartsAreAdds
        <3> QED BY <1>5, <3>1, <3>2 DEF Shows
    <2>2. PICK i \in 1 .. n : log[i] = s[a]
        BY <1>6
    <2>3. s[a].op = "add" /\ s[a].seat = ivs[m].seat /\ s[a].at = ivs[m].from
        BY <2>1 DEF AddOf
    <2> QED BY <1>1, <2>2, <2>3
<1>14. Len(ivs) <= n
    <2>1. Cardinality(OpenSeats(r)) \in Nat
        BY <1>3, ReplayType, FS_CardinalityType DEF OpenSeats
    <2>2. Len(r.out) \in Nat
        BY <1>3, ReplayType
    <2>3. Len(ivs) \in Nat
        BY IntervalsType, SequenceType
    <2> QED BY <1>1, <1>5, <1>7, <2>1, <2>2, <2>3 DEF Shows, FewIntervals
<1> QED BY <1>9, <1>10, <1>11, <1>12, <1>13, <1>14 DEF FromHistory, n

\* The places of the intervals that cover an instant.
Covering(ivs, t) == {m \in DOMAIN ivs : ivs[m].from <= t /\ t < ivs[m].to}

LEMMA HistoryType ==
    ASSUME log \in Seq(Events)
    PROVE  /\ ReconstructIntervals(log) \in Seq(Interval) /\ FromHistory(ReconstructIntervals(log))
           /\ \A t \in Times : t \in Int
           /\ From \in Times /\ To - 1 \in Times /\ Instants \subseteq Times /\ Instants # {}
<1>1. ReconstructIntervals(log) \in Seq(Interval)
    BY IntervalsType
<1>2. FromHistory(ReconstructIntervals(log))
    BY IntervalsTell
<1>3. From \in Times /\ To - 1 \in Times /\ Instants \subseteq Times /\ From \in Instants
    BY PeriodType DEF Times, Instants
<1> QED BY <1>1, <1>2, <1>3, TimeIs

LEMMA StandingIs ==
    ASSUME log \in Seq(Events), NEW ivs \in Seq(Interval), FromHistory(ivs), NEW t \in Times
    PROVE  Cardinality(Covering(ivs, t)) = Cardinality(Standing(t))
           /\ Standing(t) = {ivs[m].seat : m \in Covering(ivs, t)}
<1> DEFINE A == Covering(ivs, t)
           f == [m \in A |-> ivs[m].seat]
<1>1. \A m \in DOMAIN ivs : ivs[m].seat \in Seats /\ ivs[m].from \in Int /\ ivs[m].to \in Int
    BY IntervalTimes
<1>2. t \in Int /\ IsFiniteSet(A) /\ A \subseteq DOMAIN ivs
    <2>1. IsFiniteSet(DOMAIN ivs) /\ A \in SUBSET DOMAIN ivs
        BY IntervalType DEF Covering
    <2> QED BY <2>1, FS_Subset, TimeIs
<1>3. Standing(t) = {f[m] : m \in A}
    <2>1. \A seat \in Seats : Stands(seat, t) <=> \E m \in DOMAIN ivs : Within(ivs[m], seat, t)
        BY DEF FromHistory
    <2>2. \A seat \in Seats : Stands(seat, t) <=> \E m \in A : f[m] = seat
        BY <2>1 DEF Within, Covering
    <2>3. \A m \in A : f[m] \in Seats
        BY <1>1, <1>2
    <2> HIDE DEF A, f
    <2> QED BY <2>2, <2>3 DEF Standing
<1>4. \A h, m \in A : f[h] = f[m] => h = m
    <2> SUFFICES ASSUME NEW h \in A, NEW m \in A, ivs[h].seat = ivs[m].seat, h # m PROVE FALSE
        OBVIOUS
    <2>1. ivs[h].to <= ivs[m].from \/ ivs[m].to <= ivs[h].from
        BY <1>2 DEF FromHistory
    <2>2. ivs[h].from <= t /\ t < ivs[h].to /\ ivs[m].from <= t /\ t < ivs[m].to
        BY DEF Covering
    <2>3. ivs[h].from \in Int /\ ivs[h].to \in Int /\ ivs[m].from \in Int /\ ivs[m].to \in Int
        BY <1>1, <1>2
    <2> QED BY <1>2, <2>1, <2>2, <2>3
<1>5. {f[m] : m \in A} = {ivs[m].seat : m \in A}
    OBVIOUS
<1>6. Cardinality({f[m] : m \in A}) = Cardinality(A)
    <2> HIDE DEF A, f
    <2> QED BY <1>2, <1>4, ImageOfInjection
<1> QED BY <1>3, <1>5, <1>6

\* Latest.
LEMMA LatestFollows ==
    ASSUME log \in Seq(Events), NEW ivs, ivs = ReconstructIntervals(log)
    PROVE  CountStandingAtEnd(ivs) = Cardinality(Standing(To - 1))
<1>1. ivs \in Seq(Interval) /\ FromHistory(ivs) /\ To - 1 \in Times
    BY HistoryType
<1>2. Covering(ivs, To - 1) = {k \in DOMAIN ivs : ivs[k].from < To /\ ivs[k].to >= To}
    <2>1. \A m \in DOMAIN ivs : ivs[m].from \in Int /\ ivs[m].to \in Int
        BY <1>1, IntervalTimes
    <2>2. \A m \in DOMAIN ivs : ivs[m].from <= To - 1 /\ To - 1 < ivs[m].to
                                <=> ivs[m].from < To /\ ivs[m].to >= To
        BY <2>1, PeriodType
    <2> QED BY <2>2 DEF Covering
<1> QED BY <1>1, <1>2, StandingIs DEF CountStandingAtEnd

\* Unique count.
LEMMA LiveIs ==
    ASSUME log \in Seq(Events), NEW ivs \in Seq(Interval), FromHistory(ivs)
    PROVE  {ivs[k].seat : k \in Live(ivs)} = Touched
<1>1. \A m \in DOMAIN ivs : ivs[m].seat \in Seats /\ ivs[m].from \in Int /\ ivs[m].to \in Int /\ ivs[m].from < To
    BY IntervalTimes
<1>2. From \in Times /\ From \in Int /\ To \in Int /\ From < To
    BY HistoryType, PeriodType
<1>3. \A i \in DOMAIN log : log[i].at \in Int /\ log[i].at < To /\ (log[i].op = "add" => log[i].seat \in Seats)
    <2>1. \A i \in DOMAIN log : log[i] \in Events
        BY SequenceType
    <2>2. \A i \in DOMAIN log : log[i].at \in Times /\ (log[i].op = "add" => log[i].seat \in Seats)
        BY <2>1, EventType
    <2> QED BY <2>2, TimeIs
<1>4. ASSUME NEW k \in Live(ivs) PROVE ivs[k].seat \in Touched
    <2>1. k \in DOMAIN ivs /\ ivs[k].to > From
        BY DEF Live, Overlaps
    <2>2. CASE ivs[k].from <= From
        <3>1. k \in Covering(ivs, From)
            BY <1>1, <1>2, <2>1, <2>2 DEF Covering
        <3>2. ivs[k].seat \in Standing(From)
            BY <1>2, <3>1, StandingIs
        <3> QED BY <3>2 DEF Touched
    <2>3. CASE ivs[k].from > From
        <3>1. PICK i \in DOMAIN log : log[i].op = "add" /\ log[i].seat = ivs[k].seat /\ log[i].at = ivs[k].from
            BY <2>1 DEF FromHistory
        <3>2. i \in {h \in DOMAIN log : log[h].op = "add" /\ log[h].at > From}
            BY <2>3, <3>1
        <3> QED BY <3>1, <3>2 DEF Touched
    <2> QED BY <1>1, <1>2, <2>1, <2>2, <2>3
<1>5. ASSUME NEW seat \in Touched PROVE \E k \in Live(ivs) : ivs[k].seat = seat
    <2>1. CASE seat \in Standing(From)
        <3>1. PICK k \in Covering(ivs, From) : ivs[k].seat = seat
            BY <1>2, <2>1, StandingIs
        <3> QED BY <1>1, <1>2, <3>1 DEF Covering, Live, Overlaps
    <2>2. CASE \E i \in DOMAIN log : log[i].op = "add" /\ log[i].at > From /\ seat = log[i].seat
        <3>1. PICK i \in DOMAIN log : log[i].op = "add" /\ log[i].at > From /\ seat = log[i].seat
            BY <2>2
        <3>2. PICK m \in DOMAIN ivs : ivs[m].seat = log[i].seat /\ ivs[m].from <= log[i].at /\ log[i].at <= ivs[m].to
            BY <3>1 DEF FromHistory
        <3>3. ivs[m].from < To /\ ivs[m].to > From
            BY <1>1, <1>2, <1>3, <3>1, <3>2
        <3> QED BY <3>1, <3>2, <3>3 DEF Live, Overlaps
    <2> QED BY <2>1, <2>2 DEF Touched
<1> QED BY <1>4, <1>5

LEMMA DistinctFollows ==
    ASSUME log \in Seq(Events), NEW ivs, ivs = ReconstructIntervals(log)
    PROVE  CountDistinctActive(ivs) = Cardinality(Touched)
<1>1. ivs \in Seq(Interval) /\ FromHistory(ivs)
    BY HistoryType
<1>2. {ivs[k].seat : k \in Live(ivs)} = Touched
    BY <1>1, LiveIs
<1> QED BY <1>2 DEF CountDistinctActive, Live

\* Both switches off: every interval weighs the whole period.
LEMMA DivIs ==
    ASSUME NEW a \in Nat, NEW b \in Nat \ {0}, NEW q \in Nat, b * q <= a, a < b * q + b
    PROVE  a \div b = q
<1> DEFINE p == a \div b
<1>1. p \in Nat /\ a % b \in 0 .. b - 1 /\ a = b * p + (a % b)
    BY DivMod
<1> HIDE DEF p
<1>2. b * p \in Nat /\ b * q \in Nat /\ b * (p + 1) = b * p + b /\ b * (q + 1) = b * q + b
    BY <1>1
<1>3. b * p <= a /\ a < b * p + b
    BY <1>1, <1>2
<1>4. ASSUME p < q PROVE FALSE
    <2>1. p + 1 \in Nat /\ p + 1 <= q /\ b \in Nat
        BY <1>1, <1>4
    <2>2. b * (p + 1) <= b * q
        BY <2>1, ProductOrder
    <2> QED BY <1>2, <1>3, <2>2
<1>5. ASSUME q < p PROVE FALSE
    <2>1. q + 1 \in Nat /\ q + 1 <= p /\ b \in Nat
        BY <1>1, <1>5
    <2>2. b * (q + 1) <= b * p
        BY <1>1, <2>1, ProductOrder
    <2> QED BY <1>2, <1>3, <2>2
<1> QED BY <1>1, <1>4, <1>5 DEF p

LEMMA WholePeriod == TimeFraction(To - From) = Digits
<1> DEFINE d == To - From
           n == d * Digits
<1>1. d \in Nat \ {0} /\ Digits \in Nat /\ n \in Nat
    BY PeriodType
<1>2. DivRound(n, d) = (2 * n + d) \div (2 * d)
    <2>1. n >= 0
        BY <1>1
    <2> QED BY <2>1 DEF DivRound
<1> HIDE DEF d
<1>3. (2 * d) * Digits = 2 * n
    BY <1>1
<1> HIDE DEF n
<1>4. (2 * n + d) \div (2 * d) = Digits
    <2>1. 2 * n + d \in Nat /\ 2 * d \in Nat \ {0} /\ (2 * d) * Digits <= 2 * n + d
          /\ 2 * n + d < (2 * d) * Digits + 2 * d
        BY <1>1, <1>3
    <2> QED BY <1>1, <2>1, DivIs
<1> QED BY <1>2, <1>4 DEF TimeFraction, d, n

\* What an interval weighs, with the switches as they are.
ActiveTime(ivs, k, prorate, credit) ==
    (IF credit THEN Min({ivs[k].to, To}) ELSE To) - (IF prorate THEN Max({ivs[k].from, From}) ELSE From)

Weighing(ivs, prorate, credit) ==
    [k \in Live(ivs) |-> IF ActiveTime(ivs, k, prorate, credit) > 0
                         THEN TimeFraction(ActiveTime(ivs, k, prorate, credit)) ELSE 0]

LEMMA WeightIs ==
    ASSUME NEW ivs \in Seq(Interval), NEW prorate, NEW credit
    PROVE  WeightIntervals(ivs, prorate, credit) = SumFunctionOnSet(Weighing(ivs, prorate, credit), Live(ivs))
<1> DEFINE w == Weighing(ivs, prorate, credit)
<1>1. DOMAIN w = Live(ivs)
    BY DEF Weighing
<1>2. WeightIntervals(ivs, prorate, credit) = SumFunction(w)
    BY DEF WeightIntervals, Live, ActiveTime, Weighing
<1> HIDE DEF w
<1> QED BY <1>1, <1>2 DEF SumFunction, w

LEMMA FullPeriods ==
    ASSUME log \in Seq(Events), NEW ivs, ivs = ReconstructIntervals(log),
           \A j, k \in DOMAIN ivs : j # k => ivs[j].seat # ivs[k].seat
    PROVE  WeightIntervals(ivs, FALSE, FALSE) = Digits * CountDistinctActive(ivs)
<1> DEFINE A == Live(ivs)
           w == Weighing(ivs, FALSE, FALSE)
           one == [k \in A |-> 1]
           f == [k \in A |-> ivs[k].seat]
<1>1. ivs \in Seq(Interval)
    BY HistoryType
<1>2. IsFiniteSet(A) /\ A \subseteq DOMAIN ivs /\ Cardinality(A) \in Nat
    BY <1>1, EdgesType, FS_CardinalityType DEF Live
<1>3. WeightIntervals(ivs, FALSE, FALSE) = SumFunctionOnSet(w, A)
    BY <1>1, WeightIs, Zenon
<1>4. CountDistinctActive(ivs) = Cardinality({f[k] : k \in A})
    <2>1. {f[k] : k \in A} = {ivs[k].seat : k \in A}
        OBVIOUS
    <2> QED BY <2>1 DEF CountDistinctActive, Live
<1>5. \A j, k \in A : f[j] = f[k] => j = k
    BY <1>2
<1>6. \A k \in A : w[k] = Digits * one[k]
    <2>1. \A k \in A : ActiveTime(ivs, k, FALSE, FALSE) = To - From
        BY DEF ActiveTime
    <2>2. To - From > 0 /\ Digits * 1 = Digits
        BY PeriodType
    <2> QED BY <2>1, <2>2, WholePeriod DEF Weighing
<1>7. Digits \in Int
    BY PeriodType
<1>8. IntegerOn(one, A) /\ \A k \in A : one[k] = IF k \in A THEN 1 ELSE 0
    BY DEF IntegerOn
<1> HIDE DEF A, w, one, f
<1>9. SumFunctionOnSet(w, A) = Digits * SumFunctionOnSet(one, A)
    BY <1>2, <1>6, <1>7, <1>8, SumScales
<1>10. SumFunctionOnSet(one, A) = Cardinality(A \cap A)
    BY <1>2, <1>8, SumCounts
<1>11. Cardinality({f[k] : k \in A}) = Cardinality(A)
    BY <1>2, <1>5, ImageOfInjection
<1>12. A \cap A = A
    OBVIOUS
<1> QED BY <1>3, <1>4, <1>9, <1>10, <1>11, <1>12

\* Weighted sum.
LEMMA FractionIsNear ==
    ASSUME NEW d \in Nat
    PROVE  (To - From) * TimeFraction(d) - Digits * d \in -(To - From) .. To - From
<1> DEFINE p == To - From
           n == d * Digits
           q == TimeFraction(d)
<1>1. p \in Nat \ {0} /\ n \in Nat /\ n = Digits * d /\ q \in Nat
    BY PeriodType, TimeFractionType
<1>2. q = (2 * n + p) \div (2 * p)
    <2>1. n >= 0
        BY <1>1
    <2> QED BY <2>1 DEF TimeFraction, DivRound
<1> HIDE DEF p, n, q
<1>3. 2 * n + p \in Nat /\ 2 * p \in Nat \ {0}
    BY <1>1
<1>4. 2 * n + p = (2 * p) * q + ((2 * n + p) % (2 * p)) /\ (2 * n + p) % (2 * p) \in 0 .. 2 * p - 1
    BY <1>2, <1>3, DivMod
<1>5. (2 * p) * q = 2 * (p * q) /\ p * q \in Nat
    BY <1>1
<1>6. p * q - n \in -p .. p
    <2> DEFINE m == p * q
               rest == (2 * n + p) % (2 * p)
    <2>1. 2 * n + p = 2 * m + rest /\ rest \in 0 .. 2 * p - 1 /\ m \in Nat
        BY <1>4, <1>5
    <2> HIDE DEF m, rest
    <2> QED BY <1>1, <2>1 DEF m
<1> QED BY <1>1, <1>6 DEF p, n, q

\* The instants that an interval covers.
LEMMA InstantsCovered ==
    ASSUME NEW ivs \in Seq(Interval), NEW k \in Live(ivs), ivs[k].from <= ivs[k].to
    PROVE  /\ ActiveTime(ivs, k, TRUE, TRUE) \in Nat
           /\ Cardinality({t \in Instants : ivs[k].from <= t /\ t < ivs[k].to}) = ActiveTime(ivs, k, TRUE, TRUE)
<1> DEFINE a == IF ivs[k].from >= From THEN ivs[k].from ELSE From
           b == IF ivs[k].to <= To THEN ivs[k].to ELSE To
<1>1. k \in DOMAIN ivs /\ ivs[k].from < To /\ ivs[k].to > From
    BY DEF Live, Overlaps
<1>2. ivs[k].from \in Int /\ ivs[k].to \in Int
    BY <1>1, IntervalTimes
<1>3. From \in Int /\ To \in Int /\ From < To
    BY PeriodType
<1>4. ActiveTime(ivs, k, TRUE, TRUE) = b - a
    BY <1>2, <1>3, MaxOfPair, MinOfPair DEF ActiveTime
<1>5. a \in Int /\ b \in Int /\ a <= b
    BY <1>1, <1>2, <1>3
<1>6. {t \in Instants : ivs[k].from <= t /\ t < ivs[k].to} = a .. b - 1
    BY <1>2, <1>3 DEF Instants
<1> HIDE DEF a, b
<1>7. Cardinality(a .. b - 1) = b - a
    <2>1. b - 1 \in Int
        BY <1>5
    <2>2. Cardinality(a .. b - 1) = IF a > b - 1 THEN 0 ELSE (b - 1) - a + 1
        BY <1>5, <2>1, FS_Interval
    <2> QED BY <1>5, <2>2
<1>8. b - a \in Nat
    BY <1>5
<1>9. Cardinality({t \in Instants : ivs[k].from <= t /\ t < ivs[k].to}) = b - a
    BY <1>6, <1>7, Zenon
<1> QED BY <1>4, <1>8, <1>9, Zenon

\* The time that the intervals are active is that of the identities that stand.
LEMMA TimesAgree ==
    ASSUME log \in Seq(Events), NEW ivs, ivs = ReconstructIntervals(log)
    PROVE  SumFunctionOnSet([k \in Live(ivs) |-> ActiveTime(ivs, k, TRUE, TRUE)], Live(ivs))
           = SumFunctionOnSet([t \in Instants |-> Cardinality(Standing(t))], Instants)
<1> DEFINE A == Live(ivs)
           R == {p \in A \X Instants : ivs[p[1]].from <= p[2] /\ p[2] < ivs[p[1]].to}
           f == [k \in A |-> ActiveTime(ivs, k, TRUE, TRUE)]
           g == [t \in Instants |-> Cardinality(Standing(t))]
<1>1. ivs \in Seq(Interval) /\ FromHistory(ivs)
    BY HistoryType
<1>2. IsFiniteSet(A) /\ IsFiniteSet(Instants)
    <2>1. From \in Int /\ To - 1 \in Int
        BY PeriodType
    <2> QED BY <1>1, <2>1, EdgesType, FS_Interval DEF Instants
<1>3. Rows(R, A, Instants) = f
    <2>1. ASSUME NEW k \in A PROVE Cardinality(Row(R, k, Instants)) = ActiveTime(ivs, k, TRUE, TRUE)
        <3>1. Row(R, k, Instants) = {t \in Instants : ivs[k].from <= t /\ t < ivs[k].to}
            BY DEF Row
        <3>2. ivs[k].from <= ivs[k].to
            BY <1>1 DEF FromHistory, Live
        <3> QED BY <1>1, <3>1, <3>2, InstantsCovered
    <2> HIDE DEF A, R
    <2> QED BY <2>1 DEF Rows
<1>4. Columns(R, A, Instants) = g
    <2>1. ASSUME NEW t \in Instants PROVE Cardinality(Column(R, A, t)) = Cardinality(Standing(t))
        <3>1. t \in Times /\ t \in Int /\ From <= t /\ t < To /\ From \in Int /\ To \in Int
            BY HistoryType, PeriodType DEF Instants
        <3>2. Column(R, A, t) = Covering(ivs, t)
            <4>1. Column(R, A, t) = {k \in A : ivs[k].from <= t /\ t < ivs[k].to}
                BY DEF Column
            <4>2. ASSUME NEW k \in DOMAIN ivs, ivs[k].from <= t, t < ivs[k].to PROVE k \in A
                <5>1. ivs[k].from \in Int /\ ivs[k].to \in Int
                    BY <1>1, IntervalTimes
                <5>2. ivs[k].from < To /\ ivs[k].to > From
                    BY <3>1, <4>2, <5>1
                <5> QED BY <5>2 DEF Live, Overlaps
            <4> HIDE DEF R
            <4> QED BY <4>1, <4>2 DEF Covering, Live
        <3> QED BY <1>1, <3>1, <3>2, StandingIs
    <2> HIDE DEF A, R
    <2> QED BY <2>1 DEF Columns
<1> HIDE DEF A, R, f, g
<1>5. SumFunctionOnSet(Rows(R, A, Instants), A) = SumFunctionOnSet(Columns(R, A, Instants), Instants)
    BY <1>2, DoubleCount, Zenon
<1>6. SumFunctionOnSet(f, A) = SumFunctionOnSet(g, Instants)
    BY <1>3, <1>4, <1>5, Zenon
<1> QED BY <1>6, Zenon DEF A, f, g

LEMMA WeightsFollow ==
    ASSUME log \in Seq(Events), NEW ivs, ivs = ReconstructIntervals(log)
    PROVE  (To - From) * WeightIntervals(ivs, TRUE, TRUE)
           - Digits * SumFunctionOnSet([t \in Instants |-> Cardinality(Standing(t))], Instants)
           \in -((To - From) * Len(log)) .. (To - From) * Len(log)
<1> DEFINE A == Live(ivs)
           p == To - From
           w == Weighing(ivs, TRUE, TRUE)
           a == [k \in A |-> ActiveTime(ivs, k, TRUE, TRUE)]
           f == [k \in A |-> p * w[k]]
           g == [k \in A |-> Digits * a[k]]
           exact == SumFunctionOnSet([t \in Instants |-> Cardinality(Standing(t))], Instants)
<1>1. ivs \in Seq(Interval) /\ FromHistory(ivs)
    BY HistoryType
<1>2. IsFiniteSet(A) /\ Cardinality(A) \in Nat
    BY <1>1, EdgesType, FS_CardinalityType
<1>3. p \in Nat \ {0} /\ p \in Int /\ Digits \in Int
    BY PeriodType
<1>4. ASSUME NEW k \in A
      PROVE  a[k] \in Int /\ w[k] \in Int /\ f[k] = p * w[k] /\ g[k] = Digits * a[k] /\ f[k] - g[k] \in -p .. p
    <2>1. ivs[k].from <= ivs[k].to
        BY <1>1 DEF FromHistory, Live
    <2>2. a[k] \in Nat /\ a[k] = ActiveTime(ivs, k, TRUE, TRUE)
        BY <1>1, <2>1, InstantsCovered
    <2>3. w[k] = IF a[k] > 0 THEN TimeFraction(a[k]) ELSE 0
        BY <2>2 DEF Weighing
    <2>4. f[k] = p * w[k] /\ g[k] = Digits * a[k]
        OBVIOUS
    <2>7. a[k] \in Nat
        BY <2>2
    <2> HIDE DEF a, w, f, g
    <2>5. CASE a[k] > 0
        <3>1. w[k] = TimeFraction(a[k]) /\ w[k] \in Nat
            BY <2>3, <2>5, <2>7, TimeFractionType
        <3>2. p * TimeFraction(a[k]) - Digits * a[k] \in -p .. p
            BY <2>7, FractionIsNear
        <3>3. f[k] - g[k] \in -p .. p
            BY <2>4, <3>1, <3>2, Zenon
        <3> QED BY <2>4, <2>7, <3>1, <3>3
    <2>6. CASE ~(a[k] > 0)
        <3>1. a[k] = 0 /\ w[k] = 0
            BY <2>3, <2>6, <2>7
        <3>2. f[k] = 0 /\ g[k] = 0
            BY <1>3, <2>4, <3>1
        <3> QED BY <1>3, <2>4, <3>1, <3>2
    <2> QED BY <2>5, <2>6
<1>5. WeightIntervals(ivs, TRUE, TRUE) = SumFunctionOnSet(w, A)
    BY <1>1, WeightIs, Zenon
<1>6. SumFunctionOnSet(a, A) = exact
    BY TimesAgree
<1>7. Cardinality(A) <= Len(log) /\ Len(log) \in Nat
    <2>1. Len(ivs) \in Nat /\ DOMAIN ivs = 1 .. Len(ivs) /\ Len(log) \in Nat
        BY <1>1, SequenceType
    <2>2. IsFiniteSet(1 .. Len(ivs)) /\ Cardinality(1 .. Len(ivs)) = Len(ivs)
        <3>1. 1 \in Int /\ Len(ivs) \in Int
            BY <2>1
        <3>2. IsFiniteSet(1 .. Len(ivs)) /\ Cardinality(1 .. Len(ivs)) = IF 1 > Len(ivs) THEN 0 ELSE Len(ivs) - 1 + 1
            BY <3>1, FS_Interval
        <3> QED BY <2>1, <3>2
    <2>3. A \in SUBSET (1 .. Len(ivs))
        BY <2>1 DEF Live
    <2> HIDE DEF A
    <2>4. Cardinality(A) <= Len(ivs)
        <3>1. Cardinality(A) <= Cardinality(1 .. Len(ivs))
            BY <2>2, <2>3, FS_Subset, Zenon
        <3>2. Cardinality(1 .. Len(ivs)) = Len(ivs)
            BY <2>2
        <3> QED BY <3>1, <3>2, Zenon
    <2>5. Len(ivs) <= Len(log)
        BY <1>1 DEF FromHistory
    <2> QED BY <1>2, <2>1, <2>4, <2>5
<1> HIDE DEF A, p, w, a, f, g
<1>8. IntegerOn(a, A) /\ IntegerOn(w, A) /\ IntegerOn(f, A) /\ IntegerOn(g, A)
    BY <1>3, <1>4 DEF IntegerOn
<1>9. SumFunctionOnSet(f, A) = p * SumFunctionOnSet(w, A)
    BY <1>2, <1>3, <1>4, <1>8, SumScales
<1>10. SumFunctionOnSet(g, A) = Digits * SumFunctionOnSet(a, A)
    BY <1>2, <1>3, <1>4, <1>8, SumScales
<1>11. SumFunctionOnSet(f, A) - SumFunctionOnSet(g, A) \in -(p * Cardinality(A)) .. p * Cardinality(A)
    BY <1>2, <1>3, <1>4, <1>8, SumIsNear
<1>12. p * Cardinality(A) <= p * Len(log) /\ p * Cardinality(A) \in Nat /\ p * Len(log) \in Nat
    BY <1>2, <1>3, <1>7, ProductOrder
<1>13. SumFunctionOnSet(f, A) \in Int /\ SumFunctionOnSet(g, A) \in Int
    BY <1>2, <1>8, SumType
<1> HIDE DEF exact
<1>14. p * WeightIntervals(ivs, TRUE, TRUE) - Digits * exact \in -(p * Len(log)) .. p * Len(log)
    <2> DEFINE m == p * Cardinality(A)
               l == p * Len(log)
               x == SumFunctionOnSet(f, A)
               y == SumFunctionOnSet(g, A)
    <2>1. x = p * WeightIntervals(ivs, TRUE, TRUE) /\ y = Digits * exact
        BY <1>5, <1>6, <1>9, <1>10
    <2>2. x - y \in -m .. m /\ m <= l /\ m \in Nat /\ l \in Nat /\ x \in Int /\ y \in Int
        BY <1>11, <1>12, <1>13
    <2> HIDE DEF m, l, x, y
    <2>3. x - y \in -l .. l
        BY <2>2
    <2> QED BY <2>1, <2>3 DEF l
<1> QED BY <1>14 DEF p, exact

\* The peak: the edges in order.
LEMMA SortedKeys ==
    ASSUME NEW n \in Nat, NEW key \in [1 .. n -> Int], NEW j \in 1 .. n, NEW k \in 1 .. n, j <= k
    PROVE  key[Placed(key, j)] <= key[Placed(key, k)]
<1> DEFINE a == Placed(key, j)
           b == Placed(key, k)
<1>1. a \in 1 .. n /\ Position(key, a) = j /\ b \in 1 .. n /\ Position(key, b) = k
    BY Sorting
<1>2. Position(key, b) < Position(key, a) <=> key[b] < key[a] \/ (key[b] = key[a] /\ b < a)
    BY <1>1, Sorting
<1> HIDE DEF a, b
<1>3. ~(key[b] < key[a])
    BY <1>1, <1>2
<1>4. key[a] \in Int /\ key[b] \in Int
    BY <1>1
<1> QED BY <1>3, <1>4 DEF a, b

EdgeKey(e) == 3 * e.at + e.delta

InSweepOrder(ivs, s) ==
    /\ \A p \in 1 .. Len(s) : s[p] \in Edges(ivs)
    /\ \A e \in Edges(ivs) : \E p \in 1 .. Len(s) : s[p] = e
    /\ \A p, q \in 1 .. Len(s) : s[p] = s[q] => p = q
    /\ \A p, q \in 1 .. Len(s) : p <= q => EdgeKey(s[p]) <= EdgeKey(s[q])

LEMMA EdgesInOrder ==
    ASSUME NEW ivs \in Seq(Interval), NEW edges, edges = SetToSeq(Edges(ivs)),
           NEW s, s = StableSort(edges, EdgeOrder(edges))
    PROVE  InSweepOrder(ivs, s)
<1> DEFINE n == Len(edges)
           key == EdgeOrder(edges)
           placed(p) == Placed(key, p)
<1>1. IsFiniteSet(Edges(ivs))
    BY EdgesType
<1>2. /\ n \in Nat /\ DOMAIN edges = 1 .. n /\ edges \in Seq(Edges(ivs))
      /\ \A e \in Edges(ivs) : \E p \in 1 .. n : edges[p] = e
      /\ \A p, q \in 1 .. n : edges[p] = edges[q] => p = q
    <2> DEFINE S == Edges(ivs)
               c == Cardinality(S)
    <2>1. IsFiniteSet(S) /\ edges = SetToSeq(S)
        BY <1>1
    <2> HIDE DEF S
    <2>2. /\ c \in Nat /\ SetToSeq(S) \in Seq(S) /\ Len(SetToSeq(S)) = c /\ DOMAIN SetToSeq(S) = 1 .. c
          /\ \A x \in S : \E k \in 1 .. c : SetToSeq(S)[k] = x
          /\ \A j, k \in 1 .. c : SetToSeq(S)[j] = SetToSeq(S)[k] => j = k
        BY <2>1, SetToSeqIs, Zenon
    <2>3. /\ c \in Nat /\ edges \in Seq(S) /\ Len(edges) = c /\ DOMAIN edges = 1 .. c
          /\ \A x \in S : \E k \in 1 .. c : edges[k] = x
          /\ \A j, k \in 1 .. c : edges[j] = edges[k] => j = k
        BY <2>1, <2>2, Zenon
    <2> HIDE DEF c
    <2> QED BY <2>3 DEF S
<1>3. key \in [1 .. n -> Int] /\ Len(s) = n
    BY <1>2, PeakOf
<1>4. \A p \in 1 .. n : s[p] = edges[placed(p)]
    <2>1. edges \in Seq(Edges(ivs)) /\ key \in [DOMAIN edges -> Int] /\ s = StableSort(edges, key)
        BY <1>2, <1>3
    <2> HIDE DEF key
    <2>2. \A p \in DOMAIN edges : StableSort(edges, key)[p] = edges[Placed(key, p)]
        BY DEF StableSort
    <2> QED BY <1>2, <2>1, <2>2
<1>5. \A p \in 1 .. n : edges[p] \in Edges(ivs) /\ EdgeKey(edges[p]) = key[p]
    BY <1>2, SequenceType DEF EdgeOrder, EdgeKey
<1>6. /\ \A p \in 1 .. n : placed(p) \in 1 .. n /\ Position(key, placed(p)) = p
      /\ \A p \in 1 .. n : Position(key, p) \in 1 .. n /\ placed(Position(key, p)) = p
    BY <1>2, <1>3, Sorting
<1>7. \A p, q \in 1 .. n : p <= q => key[placed(p)] <= key[placed(q)]
    BY <1>2, <1>3, SortedKeys
<1> HIDE DEF n, key, placed
<1>8. \A p \in 1 .. n : s[p] \in Edges(ivs)
    BY <1>4, <1>5, <1>6
<1>9. ASSUME NEW e \in Edges(ivs) PROVE \E p \in 1 .. n : s[p] = e
    <2>1. PICK q \in 1 .. n : edges[q] = e
        BY <1>2
    <2>2. Position(key, q) \in 1 .. n /\ placed(Position(key, q)) = q
        BY <1>6
    <2>3. s[Position(key, q)] = e
        BY <1>4, <2>1, <2>2
    <2> QED BY <2>2, <2>3
<1>10. ASSUME NEW p \in 1 .. n, NEW q \in 1 .. n, s[p] = s[q] PROVE p = q
    <2>1. placed(p) = placed(q)
        BY <1>2, <1>4, <1>6, <1>10
    <2> QED BY <1>6, <2>1
<1>11. ASSUME NEW p \in 1 .. n, NEW q \in 1 .. n, p <= q PROVE EdgeKey(s[p]) <= EdgeKey(s[q])
    <2>1. EdgeKey(s[p]) = key[placed(p)] /\ EdgeKey(s[q]) = key[placed(q)]
        BY <1>4, <1>5, <1>6
    <2> QED BY <1>7, <1>11, <2>1
<1> QED BY <1>3, <1>8, <1>9, <1>10, <1>11 DEF InSweepOrder

\* The intervals that have begun, and those that have ended, within the first p edges.
Begun(ivs, s, p) == {k \in Live(ivs) : \E q \in 1 .. p : s[q] = StartOf(ivs, k)}
Over(ivs, s, p)  == {k \in Live(ivs) : \E q \in 1 .. p : s[q] = EndOf(ivs, k)}

LEMMA DepthIs ==
    ASSUME NEW ivs \in Seq(Interval), NEW s \in Seq(Edge), InSweepOrder(ivs, s),
           NEW g \in [0 .. Len(s) -> Depths], Sweeps(g, s)
    PROVE  \A p \in 0 .. Len(s) : g[p].depth = Cardinality(Begun(ivs, s, p)) - Cardinality(Over(ivs, s, p))
<1> DEFINE n == Len(s)
           Good == {p \in 0 .. n : g[p].depth = Cardinality(Begun(ivs, s, p)) - Cardinality(Over(ivs, s, p))}
<1>1. n \in Nat /\ 0 \in 0 .. n
    BY SequenceType
<1>2. IsFiniteSet(Live(ivs))
    BY EdgesType
<1>3. \A p : IsFiniteSet(Begun(ivs, s, p)) /\ IsFiniteSet(Over(ivs, s, p))
    BY <1>2, FS_Subset DEF Begun, Over
<1>4. \A p : Cardinality(Begun(ivs, s, p)) \in Nat /\ Cardinality(Over(ivs, s, p)) \in Nat
    BY <1>3, FS_CardinalityType
<1>5. 0 \in Good
    <2>1. Begun(ivs, s, 0) = {} /\ Over(ivs, s, 0) = {}
        BY DEF Begun, Over
    <2>2. g[0].depth = 0
        BY DEF Sweeps, Ground
    <2>3. Cardinality(Begun(ivs, s, 0)) = 0 /\ Cardinality(Over(ivs, s, 0)) = 0
        BY <2>1, FS_EmptySet
    <2> QED BY <1>1, <2>2, <2>3
<1>6. ASSUME NEW p \in 1 .. n, p - 1 \in Good PROVE p \in Good
    <2>1. p \in 0 .. n /\ p - 1 \in 0 .. n /\ 1 .. p = (1 .. p - 1) \cup {p} /\ p \notin 1 .. p - 1
          /\ 1 .. p - 1 \subseteq 1 .. n
        BY <1>1
    <2>2. g[p - 1].depth = Cardinality(Begun(ivs, s, p - 1)) - Cardinality(Over(ivs, s, p - 1))
        BY <1>6
    <2>3. g[p].depth = g[p - 1].depth + s[p].delta
        <3>1. g[p - 1] \in Depths /\ s[p] \in Edge /\ g[p] = Sweep(g[p - 1], s[p])
            BY <2>1, SequenceType DEF Sweeps
        <3> QED BY <3>1, SweepIs
    <2>4. \A q \in 1 .. p - 1 : s[q] # s[p]
        BY <2>1 DEF InSweepOrder
    <2>5. s[p] \in Edges(ivs)
        BY DEF InSweepOrder
    <2>6. \A j, k : /\ StartOf(ivs, j) = StartOf(ivs, k) => j = k
                    /\ EndOf(ivs, j) = EndOf(ivs, k) => j = k
                    /\ StartOf(ivs, j) # EndOf(ivs, k)
                    /\ StartOf(ivs, j).delta = 1 /\ EndOf(ivs, j).delta = -1
        BY DEF StartOf, EndOf
    <2>7. CASE \E k \in Live(ivs) : s[p] = StartOf(ivs, k)
        <3>1. PICK k \in Live(ivs) : s[p] = StartOf(ivs, k)
            BY <2>7
        <3>2. Begun(ivs, s, p) = Begun(ivs, s, p - 1) \cup {k} /\ k \notin Begun(ivs, s, p - 1)
            BY <2>1, <2>4, <2>6, <3>1 DEF Begun
        <3>3. Over(ivs, s, p) = Over(ivs, s, p - 1)
            BY <2>1, <2>6, <3>1 DEF Over
        <3>4. Cardinality(Begun(ivs, s, p)) = Cardinality(Begun(ivs, s, p - 1)) + 1
            BY <1>3, <3>2, FS_AddElement
        <3>5. g[p].depth = g[p - 1].depth + 1
            BY <2>3, <2>6, <3>1
        <3> QED BY <1>4, <2>1, <2>2, <3>3, <3>4, <3>5
    <2>8. CASE \E k \in Live(ivs) : s[p] = EndOf(ivs, k)
        <3>1. PICK k \in Live(ivs) : s[p] = EndOf(ivs, k)
            BY <2>8
        <3>2. Over(ivs, s, p) = Over(ivs, s, p - 1) \cup {k} /\ k \notin Over(ivs, s, p - 1)
            BY <2>1, <2>4, <2>6, <3>1 DEF Over
        <3>3. Begun(ivs, s, p) = Begun(ivs, s, p - 1)
            BY <2>1, <2>6, <3>1 DEF Begun
        <3>4. Cardinality(Over(ivs, s, p)) = Cardinality(Over(ivs, s, p - 1)) + 1
            BY <1>3, <3>2, FS_AddElement
        <3>5. g[p].depth = g[p - 1].depth + -1
            BY <2>3, <2>6, <3>1
        <3> QED BY <1>4, <2>1, <2>2, <3>3, <3>4, <3>5
    <2> QED BY <2>5, <2>7, <2>8 DEF Edges
<1> HIDE DEF Good
<1>7. \A p \in 0 .. n : p \in Good
    BY <1>1, <1>5, <1>6, PrefixInduction
<1> QED BY <1>7 DEF Good

\* The peak is the least bound of the depths.
LEMMA PeakBounds ==
    ASSUME NEW s \in Seq(Edge), NEW g \in [0 .. Len(s) -> Depths], Sweeps(g, s)
    PROVE  /\ \A p \in 0 .. Len(s) : g[p].depth <= g[Len(s)].peak
           /\ \A m \in Nat : (\A p \in 0 .. Len(s) : g[p].depth <= m) => g[Len(s)].peak <= m
<1> DEFINE n == Len(s)
<1>1. n \in Nat /\ 0 \in 0 .. n /\ n \in 0 .. n
    BY SequenceType
<1>2. \A p \in 0 .. n : g[p].depth \in Int /\ g[p].peak \in Nat
    BY DEF Depths
<1>3. g[0].depth = 0 /\ g[0].peak = 0
    BY DEF Sweeps, Ground
<1>4. ASSUME NEW p \in 1 .. n
      PROVE  p \in 0 .. n /\ p - 1 \in 0 .. n
             /\ g[p].peak = IF g[p - 1].peak >= g[p].depth THEN g[p - 1].peak ELSE g[p].depth
    <2>1. p \in 0 .. n /\ p - 1 \in 0 .. n
        BY <1>1
    <2>2. g[p - 1] \in Depths /\ s[p] \in Edge /\ g[p] = Sweep(g[p - 1], s[p])
        BY <2>1, SequenceType DEF Sweeps
    <2> QED BY <2>1, <2>2, SweepIs
<1> HIDE DEF n
<1>5. \A p \in 0 .. n : g[p].depth <= g[n].peak
    <2> DEFINE Good == {p \in 0 .. n : \A q \in 0 .. p : g[q].depth <= g[p].peak}
    <2>1. 0 \in Good
        BY <1>1, <1>3
    <2>2. ASSUME NEW p \in 1 .. n, p - 1 \in Good PROVE p \in Good
        <3>1. p \in 0 .. n /\ p - 1 \in 0 .. n /\ 0 .. p = (0 .. p - 1) \cup {p} /\ 0 .. p - 1 \subseteq 0 .. n
            BY <1>1
        <3>2. \A q \in 0 .. p - 1 : g[q].depth <= g[p - 1].peak
            BY <2>2
        <3>3. g[p].depth <= g[p].peak /\ g[p - 1].peak <= g[p].peak
            BY <1>2, <1>4, <3>1
        <3>4. ASSUME NEW q \in 0 .. p - 1 PROVE g[q].depth <= g[p].peak
            <4>1. q \in 0 .. n
                BY <3>1
            <4>2. g[q].depth \in Int /\ g[p - 1].peak \in Nat /\ g[p].peak \in Nat
                BY <1>2, <3>1, <4>1
            <4> QED BY <3>2, <3>3, <4>2
        <3> QED BY <3>1, <3>3, <3>4
    <2> HIDE DEF Good
    <2>3. \A p \in 0 .. n : p \in Good
        BY <1>1, <2>1, <2>2, PrefixInduction
    <2> QED BY <1>1, <2>3 DEF Good
<1>6. ASSUME NEW m \in Nat, \A p \in 0 .. n : g[p].depth <= m PROVE g[n].peak <= m
    <2> DEFINE Good == {p \in 0 .. n : g[p].peak <= m}
    <2>1. 0 \in Good
        BY <1>1, <1>3
    <2>2. ASSUME NEW p \in 1 .. n, p - 1 \in Good PROVE p \in Good
        <3>1. g[p - 1].peak <= m
            BY <2>2
        <3> QED BY <1>4, <1>6, <3>1
    <2> HIDE DEF Good
    <2>3. \A p \in 0 .. n : p \in Good
        BY <1>1, <2>1, <2>2, PrefixInduction
    <2> QED BY <1>1, <2>3 DEF Good
<1> QED BY <1>5, <1>6 DEF n

\* The intervals that have begun by an instant, and those that have ended.
Started(ivs, t) == {k \in Live(ivs) : StartOf(ivs, k).at <= t}
Ended(ivs, t)   == {k \in Live(ivs) : EndOf(ivs, k).at <= t}

LEMMA EdgeTimes ==
    ASSUME NEW ivs \in Seq(Interval), NEW k \in Live(ivs), ivs[k].from <= ivs[k].to
    PROVE  /\ StartOf(ivs, k).at = (IF ivs[k].from >= From THEN ivs[k].from ELSE From)
           /\ EndOf(ivs, k).at = (IF ivs[k].to <= To THEN ivs[k].to ELSE To)
           /\ StartOf(ivs, k).at \in Instants /\ StartOf(ivs, k).at \in Int /\ EndOf(ivs, k).at \in Int
           /\ StartOf(ivs, k).at <= EndOf(ivs, k).at
           /\ EdgeKey(StartOf(ivs, k)) = 3 * StartOf(ivs, k).at + 1
           /\ EdgeKey(EndOf(ivs, k)) = 3 * EndOf(ivs, k).at - 1
           /\ StartOf(ivs, k) \in Edges(ivs) /\ EndOf(ivs, k) \in Edges(ivs)
<1> DEFINE a == StartOf(ivs, k).at
           b == EndOf(ivs, k).at
<1>1. k \in DOMAIN ivs /\ ivs[k].from < To /\ ivs[k].to > From
    BY DEF Live, Overlaps
<1>2. ivs[k].from \in Int /\ ivs[k].to \in Int
    BY <1>1, IntervalTimes
<1>3. From \in Int /\ To \in Int /\ From < To
    BY PeriodType
<1>4. a = (IF ivs[k].from >= From THEN ivs[k].from ELSE From)
      /\ b = (IF ivs[k].to <= To THEN ivs[k].to ELSE To)
    BY EdgesType
<1>5. EdgeKey(StartOf(ivs, k)) = 3 * a + 1 /\ EdgeKey(EndOf(ivs, k)) = 3 * b + -1
    BY DEF EdgeKey, StartOf, EndOf
<1>6. StartOf(ivs, k) \in Edges(ivs) /\ EndOf(ivs, k) \in Edges(ivs)
    BY DEF Edges
<1> HIDE DEF a, b
<1>7. a \in Instants /\ a \in Int /\ b \in Int /\ a <= b
    BY <1>1, <1>2, <1>3, <1>4 DEF Instants
<1>8. 3 * b + -1 = 3 * b - 1
    BY <1>7
<1> QED BY <1>4, <1>5, <1>6, <1>7, <1>8 DEF a, b

LEMMA OpenAt ==
    ASSUME NEW ivs \in Seq(Interval), \A m \in DOMAIN ivs : ivs[m].from <= ivs[m].to, NEW t \in Instants
    PROVE  /\ Cardinality(Started(ivs, t)) - Cardinality(Ended(ivs, t)) = Cardinality(Covering(ivs, t))
           /\ IsFiniteSet(Started(ivs, t)) /\ IsFiniteSet(Ended(ivs, t))
<1> DEFINE S == Started(ivs, t)
           T == Ended(ivs, t)
<1>1. IsFiniteSet(S) /\ IsFiniteSet(T)
    BY EdgesType, FS_Subset DEF Started, Ended
<1>2. t \in Int /\ From \in Int /\ To \in Int /\ From <= t /\ t < To
    BY PeriodType DEF Instants
<1>3. \A k \in Live(ivs) : /\ StartOf(ivs, k).at = (IF ivs[k].from >= From THEN ivs[k].from ELSE From)
                           /\ EndOf(ivs, k).at = (IF ivs[k].to <= To THEN ivs[k].to ELSE To)
                           /\ StartOf(ivs, k).at \in Int /\ EndOf(ivs, k).at \in Int
                           /\ StartOf(ivs, k).at <= EndOf(ivs, k).at
    BY EdgeTimes DEF Live
<1>4. T \subseteq S
    BY <1>2, <1>3 DEF Started, Ended
<1>5. \A k \in DOMAIN ivs : ivs[k].from \in Int /\ ivs[k].to \in Int
    BY IntervalTimes
<1>6. \A k \in DOMAIN ivs : ivs[k].from <= t /\ t < ivs[k].to => k \in Live(ivs)
    BY <1>2, <1>5 DEF Live, Overlaps
<1>7. \A k \in Live(ivs) : k \in DOMAIN ivs /\ (k \in S /\ k \notin T <=> ivs[k].from <= t /\ t < ivs[k].to)
    <2> TAKE k \in Live(ivs)
    <2>1. k \in DOMAIN ivs
        BY DEF Live
    <2>2. k \in S <=> ivs[k].from <= t
        BY <1>2, <1>3, <1>5, <2>1 DEF Started
    <2>3. k \in T <=> ivs[k].to <= t
        BY <1>2, <1>3, <1>5, <2>1 DEF Ended
    <2> QED BY <1>2, <1>5, <2>1, <2>2, <2>3
<1>8. S \ T = Covering(ivs, t)
    BY <1>6, <1>7 DEF Covering, Started
<1> HIDE DEF S, T
<1>9. Cardinality(S \ T) = Cardinality(S) - Cardinality(S \cap T)
    BY <1>1, FS_Difference
<1>10. S \cap T = T
    BY <1>4
<1> QED BY <1>1, <1>8, <1>9, <1>10 DEF S, T

\* The edges up to a key come first.
LEMMA SweepCut ==
    ASSUME NEW ivs \in Seq(Interval), NEW s \in Seq(Edge), InSweepOrder(ivs, s), NEW c \in Int
    PROVE  \E n \in 0 .. Len(s) : \A p \in 1 .. Len(s) : EdgeKey(s[p]) <= c <=> p <= n
<1> DEFINE n == Len(s)
           key == [p \in 1 .. n |-> EdgeKey(s[p])]
<1>1. n \in Nat
    BY SequenceType
<1>2. key \in [1 .. n -> Int] /\ \A p \in 1 .. n : key[p] = EdgeKey(s[p])
    <2>1. \A p \in 1 .. n : EdgeKey(s[p]) \in Int
        <3> TAKE p \in 1 .. n
        <3>1. s[p] \in Edge
            BY SequenceType
        <3> QED BY <3>1 DEF Edge, EdgeKey
    <2> QED BY <2>1
<1>3. \A p, q \in 1 .. n : p <= q => key[p] <= key[q]
    BY <1>2 DEF InSweepOrder
<1> HIDE DEF n, key
<1>4. PICK m \in 0 .. n : \A p \in 1 .. n : key[p] <= c <=> p <= m
    BY <1>1, <1>2, <1>3, CutAt
<1> QED BY <1>2, <1>4 DEF n

\* Every number of identities that stand at once is a depth of the sweep.
LEMMA DepthReaches ==
    ASSUME NEW ivs \in Seq(Interval), \A m \in DOMAIN ivs : ivs[m].from <= ivs[m].to,
           NEW s \in Seq(Edge), InSweepOrder(ivs, s),
           NEW g \in [0 .. Len(s) -> Depths], Sweeps(g, s), NEW t \in Instants
    PROVE  \E n \in 0 .. Len(s) : g[n].depth = Cardinality(Covering(ivs, t))
<1>1. t \in Int /\ 3 * t + 1 \in Int /\ Len(s) \in Nat
    BY PeriodType, SequenceType DEF Instants
<1>2. PICK n \in 0 .. Len(s) : \A p \in 1 .. Len(s) : EdgeKey(s[p]) <= 3 * t + 1 <=> p <= n
    <2> DEFINE c == 3 * t + 1
    <2>1. c \in Int
        BY <1>1
    <2> HIDE DEF c
    <2>2. \E n \in 0 .. Len(s) : \A p \in 1 .. Len(s) : EdgeKey(s[p]) <= c <=> p <= n
        BY <2>1, SweepCut
    <2> QED BY <2>2 DEF c
<1>3. \A k \in Live(ivs) : ivs[k].from <= ivs[k].to
    BY DEF Live
<1>4. n \in Nat /\ 1 .. n \subseteq 1 .. Len(s) /\ \A p \in 1 .. Len(s) : p \in 1 .. n <=> p <= n
    BY <1>1
<1>5. Begun(ivs, s, n) = Started(ivs, t)
    <2> SUFFICES ASSUME NEW k \in Live(ivs)
                 PROVE  (\E q \in 1 .. n : s[q] = StartOf(ivs, k)) <=> StartOf(ivs, k).at <= t
        BY DEF Begun, Started
    <2>1. /\ EdgeKey(StartOf(ivs, k)) = 3 * StartOf(ivs, k).at + 1 /\ StartOf(ivs, k).at \in Int
          /\ StartOf(ivs, k) \in Edges(ivs)
        BY <1>3, EdgeTimes
    <2>2. PICK p \in 1 .. Len(s) : s[p] = StartOf(ivs, k)
        BY <2>1 DEF InSweepOrder
    <2>3. (\E q \in 1 .. n : s[q] = StartOf(ivs, k)) <=> p <= n
        BY <1>4, <2>2 DEF InSweepOrder
    <2>4. EdgeKey(s[p]) <= 3 * t + 1 <=> p <= n
        BY <1>2
    <2>5. 3 * StartOf(ivs, k).at + 1 <= 3 * t + 1 <=> StartOf(ivs, k).at <= t
        BY <1>1, <2>1
    <2> QED BY <2>1, <2>2, <2>3, <2>4, <2>5
<1>6. Over(ivs, s, n) = Ended(ivs, t)
    <2> SUFFICES ASSUME NEW k \in Live(ivs)
                 PROVE  (\E q \in 1 .. n : s[q] = EndOf(ivs, k)) <=> EndOf(ivs, k).at <= t
        BY DEF Over, Ended
    <2>1. /\ EdgeKey(EndOf(ivs, k)) = 3 * EndOf(ivs, k).at - 1 /\ EndOf(ivs, k).at \in Int
          /\ EndOf(ivs, k) \in Edges(ivs)
        BY <1>3, EdgeTimes
    <2>2. PICK p \in 1 .. Len(s) : s[p] = EndOf(ivs, k)
        BY <2>1 DEF InSweepOrder
    <2>3. (\E q \in 1 .. n : s[q] = EndOf(ivs, k)) <=> p <= n
        BY <1>4, <2>2 DEF InSweepOrder
    <2>4. EdgeKey(s[p]) <= 3 * t + 1 <=> p <= n
        BY <1>2
    <2>5. 3 * EndOf(ivs, k).at - 1 <= 3 * t + 1 <=> EndOf(ivs, k).at <= t
        BY <1>1, <2>1
    <2> QED BY <2>1, <2>2, <2>3, <2>4, <2>5
<1>7. g[n].depth = Cardinality(Begun(ivs, s, n)) - Cardinality(Over(ivs, s, n))
    BY DepthIs
<1>8. Cardinality(Started(ivs, t)) - Cardinality(Ended(ivs, t)) = Cardinality(Covering(ivs, t))
    BY OpenAt
<1> QED BY <1>5, <1>6, <1>7, <1>8

\* No depth is beyond the most that stand at once: it last rose at a start, and
\* before that start of its instant come all the ends of the instant.
LEMMA DepthIsBounded ==
    ASSUME NEW ivs \in Seq(Interval), \A m \in DOMAIN ivs : ivs[m].from <= ivs[m].to,
           NEW s \in Seq(Edge), InSweepOrder(ivs, s),
           NEW g \in [0 .. Len(s) -> Depths], Sweeps(g, s),
           NEW m \in Nat, \A t \in Instants : Cardinality(Covering(ivs, t)) <= m
    PROVE  \A p \in 0 .. Len(s) : g[p].depth <= m
<1> DEFINE n == Len(s)
           Good == {p \in 0 .. n : g[p].depth <= m}
<1>1. n \in Nat /\ 0 \in 0 .. n
    BY SequenceType
<1>2. 0 \in Good
    BY <1>1 DEF Sweeps, Ground
<1>3. \A k \in Live(ivs) : ivs[k].from <= ivs[k].to
    BY DEF Live
<1>4. ASSUME NEW p \in 1 .. n, p - 1 \in Good PROVE p \in Good
    <2>1. p \in 0 .. n /\ p - 1 \in 0 .. n
        BY <1>1
    <2>2. g[p - 1].depth \in Int /\ g[p].depth \in Int /\ g[p - 1].depth <= m
        BY <1>4, <2>1 DEF Depths
    <2>3. g[p].depth = g[p - 1].depth + s[p].delta
        <3>1. g[p - 1] \in Depths /\ s[p] \in Edge /\ g[p] = Sweep(g[p - 1], s[p])
            BY <2>1, SequenceType DEF Sweeps
        <3> QED BY <3>1, SweepIs
    <2>4. CASE \E k \in Live(ivs) : s[p] = EndOf(ivs, k)
        <3>1. s[p].delta = -1
            BY <2>4 DEF EndOf
        <3> QED BY <2>1, <2>2, <2>3, <3>1
    <2>5. CASE \E k \in Live(ivs) : s[p] = StartOf(ivs, k)
        <3>1. PICK h \in Live(ivs) : s[p] = StartOf(ivs, h)
            BY <2>5
        <3> DEFINE t == StartOf(ivs, h).at
        <3>2. t \in Instants /\ t \in Int /\ EdgeKey(s[p]) = 3 * t + 1
            BY <1>3, <3>1, EdgeTimes
        <3> HIDE DEF t
        <3>3. Begun(ivs, s, p) \subseteq Started(ivs, t)
            <4> SUFFICES ASSUME NEW k \in Live(ivs), NEW q \in 1 .. p, s[q] = StartOf(ivs, k)
                         PROVE  StartOf(ivs, k).at <= t
                BY DEF Begun, Started
            <4>1. EdgeKey(StartOf(ivs, k)) = 3 * StartOf(ivs, k).at + 1 /\ StartOf(ivs, k).at \in Int
                BY <1>3, EdgeTimes
            <4>2. q \in 1 .. Len(s) /\ q <= p
                BY <1>1
            <4>3. EdgeKey(s[q]) <= EdgeKey(s[p])
                BY <4>2 DEF InSweepOrder
            <4> QED BY <3>2, <4>1, <4>3
        <3>4. Ended(ivs, t) \subseteq Over(ivs, s, p)
            <4> SUFFICES ASSUME NEW k \in Live(ivs), EndOf(ivs, k).at <= t
                         PROVE  \E q \in 1 .. p : s[q] = EndOf(ivs, k)
                BY DEF Over, Ended
            <4>1. /\ EdgeKey(EndOf(ivs, k)) = 3 * EndOf(ivs, k).at - 1 /\ EndOf(ivs, k).at \in Int
                  /\ EndOf(ivs, k) \in Edges(ivs)
                BY <1>3, EdgeTimes
            <4>2. PICK q \in 1 .. Len(s) : s[q] = EndOf(ivs, k)
                BY <4>1 DEF InSweepOrder
            <4>3. ~(p <= q)
                <5>1. p <= q => EdgeKey(s[p]) <= EdgeKey(s[q])
                    BY DEF InSweepOrder
                <5>2. ~(3 * t + 1 <= 3 * EndOf(ivs, k).at - 1)
                    BY <3>2, <4>1
                <5> QED BY <3>2, <4>1, <4>2, <5>1, <5>2
            <4>4. q \in 1 .. p
                BY <1>1, <4>3
            <4> QED BY <4>2, <4>4
        <3>5. /\ Cardinality(Started(ivs, t)) - Cardinality(Ended(ivs, t)) = Cardinality(Covering(ivs, t))
              /\ IsFiniteSet(Started(ivs, t)) /\ IsFiniteSet(Ended(ivs, t))
            BY <3>2, OpenAt
        <3>6. IsFiniteSet(Over(ivs, s, p))
            BY EdgesType, FS_Subset DEF Over
        <3>7. Cardinality(Begun(ivs, s, p)) <= Cardinality(Started(ivs, t)) /\ IsFiniteSet(Begun(ivs, s, p))
            BY <3>3, <3>5, FS_Subset
        <3>8. Cardinality(Ended(ivs, t)) <= Cardinality(Over(ivs, s, p))
            BY <3>4, <3>6, FS_Subset
        <3>9. /\ Cardinality(Begun(ivs, s, p)) \in Nat /\ Cardinality(Over(ivs, s, p)) \in Nat
              /\ Cardinality(Started(ivs, t)) \in Nat /\ Cardinality(Ended(ivs, t)) \in Nat
            BY <3>5, <3>6, <3>7, FS_CardinalityType
        <3>10. g[p].depth = Cardinality(Begun(ivs, s, p)) - Cardinality(Over(ivs, s, p))
            BY <2>1, DepthIs
        <3>11. Cardinality(Covering(ivs, t)) <= m
            BY <3>2
        <3>12. g[p].depth <= m
            BY <3>5, <3>7, <3>8, <3>9, <3>10, <3>11
        <3> QED BY <2>1, <3>12
    <2>6. s[p] \in Edges(ivs)
        BY DEF InSweepOrder
    <2> QED BY <2>4, <2>5, <2>6 DEF Edges
<1> HIDE DEF Good
<1>5. \A p \in 0 .. n : p \in Good
    BY <1>1, <1>2, <1>4, PrefixInduction
<1> QED BY <1>5 DEF Good

LEMMA PeakFollows ==
    ASSUME log \in Seq(Events), NEW ivs, ivs = ReconstructIntervals(log)
    PROVE  CountPeakConcurrent(ivs) = Max({Cardinality(Standing(t)) : t \in Instants})
<1> DEFINE edges == SetToSeq(Edges(ivs))
           s == StableSort(edges, EdgeOrder(edges))
           f == [t \in Instants |-> Cardinality(Standing(t))]
           M == {f[t] : t \in Instants}
           m == Max(M)
<1>1. ivs \in Seq(Interval) /\ FromHistory(ivs)
    BY HistoryType
<1>2. \A k \in DOMAIN ivs : ivs[k].from <= ivs[k].to
    BY <1>1 DEF FromHistory
<1>3. s \in Seq(Edge) /\ InSweepOrder(ivs, s)
    BY <1>1, PeakOf, EdgesInOrder
<1>4. PICK g \in [0 .. Len(s) -> Depths] : Sweeps(g, s) /\ CountPeakConcurrent(ivs) = g[Len(s)].peak
    BY <1>1, PeakOf
<1> HIDE DEF s
<1>5. \A t \in Instants : f[t] = Cardinality(Covering(ivs, t)) /\ f[t] \in Nat
    <2> TAKE t \in Instants
    <2>1. t \in Times
        BY HistoryType
    <2>2. Cardinality(Covering(ivs, t)) = Cardinality(Standing(t))
        BY <1>1, <2>1, StandingIs
    <2>3. IsFiniteSet(Covering(ivs, t))
        BY <1>1, IntervalType, FS_Subset DEF Covering
    <2> QED BY <2>2, <2>3, FS_CardinalityType
<1>6. IsFiniteSet(Instants) /\ Instants # {}
    <2>1. From \in Int /\ To - 1 \in Int
        BY PeriodType
    <2> QED BY <2>1, HistoryType, FS_Interval DEF Instants
<1>7. {Cardinality(Standing(t)) : t \in Instants} = M
    OBVIOUS
<1> HIDE DEF f
<1>8. M \in SUBSET Int /\ IsFiniteSet(M) /\ M # {}
    BY <1>5, <1>6, ImageIsFinite
<1>9. m \in M /\ \A x \in M : m >= x
    <2> HIDE DEF M
    <2> QED BY <1>8, MaxExists
<1> HIDE DEF m
<1>10. m \in Nat
    BY <1>5, <1>9
<1>11. g[Len(s)].peak <= m
    <2>1. \A t \in Instants : Cardinality(Covering(ivs, t)) <= m
        <3> TAKE t \in Instants
        <3>1. f[t] \in M
            OBVIOUS
        <3> QED BY <1>5, <1>9, <1>10, <3>1
    <2>2. \A p \in 0 .. Len(s) : g[p].depth <= m
        BY <1>1, <1>2, <1>3, <1>4, <1>10, <2>1, DepthIsBounded
    <2> QED BY <1>3, <1>4, <1>10, <2>2, PeakBounds
<1>12. m <= g[Len(s)].peak
    <2>1. PICK t \in Instants : m = f[t]
        BY <1>9
    <2>2. PICK p \in 0 .. Len(s) : g[p].depth = Cardinality(Covering(ivs, t))
        BY <1>1, <1>2, <1>3, <1>4, DepthReaches
    <2>3. g[p].depth <= g[Len(s)].peak
        BY <1>3, <1>4, PeakBounds
    <2> QED BY <1>5, <2>1, <2>2, <2>3
<1>13. g[Len(s)].peak \in Nat
    BY <1>1, <1>4, PeakType
<1> QED BY <1>4, <1>7, <1>10, <1>11, <1>12, <1>13 DEF m

----------------------------------------------------------------------------
(* The level that is in force. *)

\* The reports in order.
LEMMA ReportsInOrder ==
    ASSUME log \in Seq(Events), ~HasOperations(log)
    PROVE  /\ Len(log) \in Nat /\ Len(SortedByTime(log)) = Len(log) /\ DOMAIN log = 1 .. Len(log)
           /\ \A p \in 1 .. Len(log) : /\ SortedByTime(log)[p].at \in Int /\ 0 <= SortedByTime(log)[p].at
                                       /\ SortedByTime(log)[p].at < To /\ SortedByTime(log)[p].at \in Times
                                       /\ SortedByTime(log)[p].level \in Levels /\ SortedByTime(log)[p].level \in Int
           /\ \A p, q \in 1 .. Len(log) : p <= q => SortedByTime(log)[p].at <= SortedByTime(log)[q].at
<1>1. /\ Len(log) \in Nat /\ Len(SortedByTime(log)) = Len(log) /\ DOMAIN log = 1 .. Len(log)
      /\ \A p, q \in 1 .. Len(log) : p <= q => SortedByTime(log)[p].at <= SortedByTime(log)[q].at
    BY SortedEvents
<1>2. ASSUME NEW p \in 1 .. Len(log)
      PROVE  /\ SortedByTime(log)[p].at \in Int /\ 0 <= SortedByTime(log)[p].at
             /\ SortedByTime(log)[p].at < To /\ SortedByTime(log)[p].at \in Times
             /\ SortedByTime(log)[p].level \in Levels /\ SortedByTime(log)[p].level \in Int
    <2>1. /\ SortedByTime(log)[p].level \in Levels /\ SortedByTime(log)[p].level \in Int
          /\ SortedByTime(log)[p].at \in Times /\ SortedByTime(log)[p].at \in Nat
        BY ReportsOnly
    <2> QED BY <2>1, TimeIs
<1> QED BY <1>1, <1>2

\* The first m reports are those up to t.
UpTo(m, t) == \A p \in 1 .. Len(log) : SortedByTime(log)[p].at <= t <=> p <= m

LEMMA UpToExists ==
    ASSUME log \in Seq(Events), ~HasOperations(log), NEW t \in Int
    PROVE  \E m \in 0 .. Len(log) : UpTo(m, t)
<1> DEFINE n == Len(log)
           key == [p \in 1 .. n |-> SortedByTime(log)[p].at]
<1>1. n \in Nat /\ key \in [1 .. n -> Int] /\ \A p \in 1 .. n : key[p] = SortedByTime(log)[p].at
    BY ReportsInOrder
<1>2. \A p, q \in 1 .. n : p <= q => key[p] <= key[q]
    BY <1>1, ReportsInOrder
<1> HIDE DEF n, key
<1>3. PICK m \in 0 .. n : \A p \in 1 .. n : key[p] <= t <=> p <= m
    BY <1>1, <1>2, CutAt
<1> QED BY <1>1, <1>3 DEF UpTo, n

LevelAfter(m) == IF m = 0 THEN 0 ELSE SortedByTime(log)[m].level

LEMMA InForceIs ==
    ASSUME log \in Seq(Events), ~HasOperations(log), NEW t \in Int, NEW m \in 0 .. Len(log), UpTo(m, t)
    PROVE  InForce(t) = LevelAfter(m)
<1> DEFINE n == Len(log)
           s == SortedByTime(log)
           pos(i) == Position(TimesOf(log), i)
           placed(k) == Placed(TimesOf(log), k)
           reports == {i \in DOMAIN log : log[i].at <= t}
<1>1. n \in Nat /\ DOMAIN log = 1 .. n /\ \A i \in 1 .. n : pos(i) \in 1 .. n /\ s[pos(i)] = log[i]
    BY PlacesOfEvents
<1>2. \A k \in 1 .. n : placed(k) \in 1 .. n /\ pos(placed(k)) = k /\ log[placed(k)] = s[k]
    BY PlacesOfEvents
<1>3. \A i, j \in 1 .. n : Later(j, i) <=> pos(i) < pos(j)
    BY PlacesOfEvents
<1>4. \A i, j \in 1 .. n : pos(i) = pos(j) => i = j
    <2>1. TimesOf(log) \in [1 .. n -> Int]
        BY <1>1, TimeIs, SortedEvents
    <2>2. \A i \in 1 .. n : placed(pos(i)) = i
        BY <1>1, <2>1, Sorting
    <2> HIDE DEF n, pos, placed
    <2> TAKE i, j \in 1 .. n
    <2> HAVE pos(i) = pos(j)
    <2>3. placed(pos(i)) = i /\ placed(pos(j)) = j
        BY <2>2
    <2> QED BY <2>3 DEF pos
<1>5. \A p \in 1 .. n : s[p].at <= t <=> p <= m
    BY DEF UpTo
<1>6. m \in 0 .. n
    OBVIOUS
<1>7. InForce(t) = IF reports = {} THEN 0
                   ELSE log[CHOOSE i \in reports : \A j \in reports \ {i} : Later(i, j)].level
    BY DEF InForce
<1> HIDE DEF n, s, pos, placed
<1>8. \A i \in 1 .. n : i \in reports <=> pos(i) <= m
    <2> TAKE i \in 1 .. n
    <2>1. pos(i) \in 1 .. n /\ s[pos(i)] = log[i]
        BY <1>1
    <2> QED BY <1>1, <1>5, <2>1
<1>9. reports \subseteq 1 .. n
    BY <1>1
<1> HIDE DEF reports
<1>10. CASE m = 0
    <2>1. reports = {}
        <3> SUFFICES ASSUME NEW i \in reports PROVE FALSE
            OBVIOUS
        <3>1. i \in 1 .. n /\ pos(i) \in 1 .. n /\ pos(i) <= 0
            BY <1>1, <1>8, <1>9, <1>10
        <3> QED BY <1>1, <3>1
    <2> QED BY <1>7, <1>10, <2>1 DEF LevelAfter
<1>11. CASE m # 0
    <2>1. m \in 1 .. n
        BY <1>1, <1>6, <1>11
    <2>2. placed(m) \in 1 .. n /\ pos(placed(m)) = m /\ log[placed(m)] = s[m]
        BY <1>2, <2>1
    <2>3. placed(m) \in reports
        BY <1>1, <1>6, <1>8, <2>2
    <2>4. \A j \in reports \ {placed(m)} : Later(placed(m), j)
        <3> TAKE j \in reports \ {placed(m)}
        <3>1. j \in 1 .. n /\ pos(j) <= m /\ pos(j) \in 1 .. n
            BY <1>1, <1>8, <1>9
        <3>2. pos(j) # m
            BY <1>4, <2>2, <3>1
        <3>3. pos(j) < pos(placed(m))
            BY <1>1, <2>1, <2>2, <3>1, <3>2
        <3> QED BY <1>3, <2>2, <3>1, <3>3
    <2>5. \A i \in reports : (\A j \in reports \ {i} : Later(i, j)) => i = placed(m)
        <3> SUFFICES ASSUME NEW i \in reports, \A j \in reports \ {i} : Later(i, j), i # placed(m) PROVE FALSE
            OBVIOUS
        <3>1. Later(i, placed(m)) /\ Later(placed(m), i)
            BY <2>3, <2>4
        <3>2. i \in 1 .. n /\ pos(i) \in 1 .. n
            BY <1>1, <1>9
        <3>3. pos(placed(m)) < pos(i) /\ pos(i) < pos(placed(m))
            BY <1>3, <2>2, <3>1, <3>2
        <3> QED BY <1>1, <2>1, <2>2, <3>2, <3>3
    <2>6. (CHOOSE i \in reports : \A j \in reports \ {i} : Later(i, j)) = placed(m)
        BY <2>3, <2>4, <2>5
    <2> QED BY <1>7, <1>11, <2>2, <2>3, <2>6 DEF LevelAfter, s
<1> QED BY <1>10, <1>11

LEMMA InForceType ==
    ASSUME log \in Seq(Events), ~HasOperations(log), NEW t \in Int
    PROVE  InForce(t) \in Int
<1>1. PICK m \in 0 .. Len(log) : UpTo(m, t)
    BY UpToExists
<1>2. InForce(t) = LevelAfter(m)
    BY <1>1, InForceIs
<1>3. Len(log) \in Nat /\ \A p \in 1 .. Len(log) : SortedByTime(log)[p].level \in Int
    BY ReportsInOrder
<1>4. m # 0 => m \in 1 .. Len(log)
    BY <1>3
<1> QED BY <1>2, <1>3, <1>4 DEF LevelAfter

\* Latest.
LEMMA LatestLevel ==
    ASSUME log \in Seq(Events), ~HasOperations(log)
    PROVE  LastReportedLevel(log) = InForce(To - 1)
<1>1. To - 1 \in Int /\ To \in Int /\ Len(log) \in Nat /\ Len(log) \in 0 .. Len(log)
    BY PeriodType, ReportsInOrder
<1>2. UpTo(Len(log), To - 1)
    BY <1>1, ReportsInOrder DEF UpTo
<1>3. InForce(To - 1) = LevelAfter(Len(log))
    BY <1>1, <1>2, InForceIs
<1>4. log = <<>> <=> Len(log) = 0
    BY <1>1
<1> QED BY <1>3, <1>4 DEF LastReportedLevel, LevelAfter

\* The most: the levels that are in force are the one at the start and those
\* reported later, when no two reports are of the same instant.
LEMMA LevelsOfPeriod ==
    ASSUME log \in Seq(Events), ~HasOperations(log), OneReportAtATime,
           NEW before, before = {k \in DOMAIN log : SortedByTime(log)[k].at <= From}
    PROVE  {InForce(From)} \cup {SortedByTime(log)[k].level : k \in DOMAIN log \ before}
           = {InForce(t) : t \in Instants}
<1> DEFINE n == Len(log)
           s == SortedByTime(log)
<1>1. /\ n \in Nat /\ DOMAIN log = 1 .. n
      /\ \A p \in 1 .. n : s[p].at \in Int /\ s[p].at < To
      /\ \A p, q \in 1 .. n : p <= q => s[p].at <= s[q].at
    BY ReportsInOrder
<1>2. From \in Int /\ To \in Int /\ From < To /\ From \in Instants /\ \A t \in Instants : t \in Int /\ From <= t
    BY PeriodType DEF Instants
<1>3. \A p, q \in 1 .. n : p # q => s[p].at # s[q].at
    <2> TAKE p, q \in 1 .. n
    <2> HAVE p # q
    <2> DEFINE i == Placed(TimesOf(log), p)
               j == Placed(TimesOf(log), q)
    <2>1. /\ i \in 1 .. n /\ j \in 1 .. n /\ log[i] = s[p] /\ log[j] = s[q]
          /\ Position(TimesOf(log), i) = p /\ Position(TimesOf(log), j) = q
        BY PlacesOfEvents
    <2>2. i # j
        BY <2>1
    <2> HIDE DEF i, j, n, s
    <2>3. log[i].at # log[j].at
        BY <1>1, <2>1, <2>2 DEF OneReportAtATime
    <2> QED BY <2>1, <2>3
<1>4. \A m \in 0 .. n, t \in Int : UpTo(m, t) => InForce(t) = LevelAfter(m)
    BY InForceIs
<1>5. \A m \in 0 .. n, t \in Int : UpTo(m, t) <=> \A p \in 1 .. n : s[p].at <= t <=> p <= m
    BY DEF UpTo
<1>6. \A t \in Int : \E m \in 0 .. n : UpTo(m, t)
    BY UpToExists
<1>7. \A m \in 1 .. n : LevelAfter(m) = s[m].level
    <2>1. \A m \in 1 .. n : m # 0
        BY <1>1
    <2> QED BY <2>1 DEF LevelAfter
<1>8. \A k \in 1 .. n : k \in before <=> s[k].at <= From
    BY <1>1
<1> HIDE DEF n, s
<1>9. ASSUME NEW k \in DOMAIN log \ before PROVE \E t \in Instants : InForce(t) = s[k].level
    <2>1. k \in 1 .. n /\ ~(s[k].at <= From)
        BY <1>1, <1>8
    <2> DEFINE t == s[k].at
    <2>2. t \in Instants /\ t \in Int
        BY <1>1, <1>2, <2>1 DEF Instants
    <2>3. \A p \in 1 .. n : s[p].at <= t <=> p <= k
        <3> TAKE p \in 1 .. n
        <3>1. p <= k => s[p].at <= t
            BY <1>1, <2>1
        <3>2. ~(p <= k) => t <= s[p].at /\ p # k
            BY <1>1, <2>1
        <3>3. p # k => s[p].at # t
            BY <1>3, <2>1
        <3> QED BY <1>1, <2>2, <3>1, <3>2, <3>3
    <2>4. k \in 0 .. n
        BY <1>1, <2>1
    <2> HIDE DEF t
    <2>5. UpTo(k, t)
        BY <1>5, <2>2, <2>3, <2>4
    <2>6. InForce(t) = s[k].level
        BY <1>4, <1>7, <2>1, <2>2, <2>4, <2>5
    <2> QED BY <2>2, <2>6
<1>10. ASSUME NEW t \in Instants, InForce(t) # InForce(From)
       PROVE  \E k \in DOMAIN log \ before : s[k].level = InForce(t)
    <2>1. t \in Int /\ From <= t
        BY <1>2
    <2>2. PICK m \in 0 .. n : UpTo(m, t)
        BY <1>6, <2>1
    <2>3. \A p \in 1 .. n : s[p].at <= t <=> p <= m
        BY <1>5, <2>1, <2>2
    <2>4. CASE m \in DOMAIN log \ before
        <3>1. m \in 1 .. n
            BY <1>1, <2>4
        <3>2. InForce(t) = s[m].level
            BY <1>4, <1>7, <2>1, <2>2, <3>1
        <3> QED BY <2>4, <3>2
    <2>5. CASE ~(m \in DOMAIN log \ before)
        <3>1. m \in Int /\ (m = 0 \/ (m \in 1 .. n /\ s[m].at <= From))
            BY <1>1, <1>8, <2>5
        <3>2. \A p \in 1 .. n : s[p].at <= From <=> p <= m
            <4> TAKE p \in 1 .. n
            <4>1. s[p].at <= From => p <= m
                BY <1>1, <1>2, <2>1, <2>3
            <4>2. p <= m => m # 0
                BY <1>1, <3>1
            <4>3. p <= m => s[p].at <= s[m].at
                BY <1>1, <3>1, <4>2
            <4> QED BY <1>1, <1>2, <3>1, <4>1, <4>2, <4>3
        <3>3. UpTo(m, From)
            BY <1>2, <1>5, <3>2
        <3>4. InForce(From) = LevelAfter(m) /\ InForce(t) = LevelAfter(m)
            BY <1>2, <1>4, <2>1, <2>2, <3>3
        <3> QED BY <1>10, <3>4
    <2> QED BY <2>4, <2>5
<1> QED BY <1>2, <1>9, <1>10 DEF s

LEMMA PeakLevel ==
    ASSUME log \in Seq(Events), ~HasOperations(log), OneReportAtATime
    PROVE  PeakReportedLevel(log) = Max({0} \cup {InForce(t) : t \in Instants})
<1> DEFINE n == Len(log)
           s == SortedByTime(log)
           before == {k \in DOMAIN log : s[k].at <= From}
           standing == IF before = {} THEN 0 ELSE s[Max(before)].level
<1>1. n \in Nat /\ DOMAIN log = 1 .. n /\ \A p \in 1 .. n : s[p].at \in Int
    BY ReportsInOrder
<1>2. From \in Int
    BY PeriodType
<1>3. standing = InForce(From)
    <2>1. PICK m \in 0 .. n : UpTo(m, From)
        BY <1>2, UpToExists
    <2>2. InForce(From) = LevelAfter(m)
        BY <1>2, <2>1, InForceIs
    <2>3. before = 1 .. m
        <3>1. \A p \in 1 .. n : s[p].at <= From <=> p <= m
            BY <2>1 DEF UpTo
        <3>2. before = {p \in 1 .. n : p <= m}
            BY <1>1, <3>1
        <3>3. {p \in 1 .. n : p <= m} = 1 .. m
            BY <1>1
        <3> QED BY <3>2, <3>3
    <2>4. CASE m = 0
        <3>1. 1 .. m = {}
            BY <2>4
        <3> QED BY <2>2, <2>3, <2>4, <3>1 DEF LevelAfter
    <2>5. CASE m # 0
        <3>1. m \in 1 .. n
            BY <1>1, <2>5
        <3>2. Max(1 .. m) = m /\ 1 .. m # {}
            BY <1>1, <3>1, FirstPlaces
        <3> QED BY <2>2, <2>3, <2>5, <3>2 DEF LevelAfter
    <2> QED BY <2>4, <2>5
<1>4. PeakReportedLevel(log) = Max({0, standing} \cup {s[k].level : k \in DOMAIN log \ before})
    BY DEF PeakReportedLevel
<1>5. {InForce(From)} \cup {s[k].level : k \in DOMAIN log \ before} = {InForce(t) : t \in Instants}
    BY LevelsOfPeriod
<1> HIDE DEF before, standing, s
<1>6. {0, standing} \cup {s[k].level : k \in DOMAIN log \ before} = {0} \cup {InForce(t) : t \in Instants}
    BY <1>3, <1>5
<1> QED BY <1>4, <1>6, Zenon

\* The weight of the levels.
LevelsInForce == [t \in Instants |-> InForce(t)]

LEMMA LevelsType ==
    ASSUME log \in Seq(Events), ~HasOperations(log)
    PROVE  /\ IsFiniteSet(Instants) /\ IntegerOn(LevelsInForce, Instants)
           /\ \A t \in Instants : t \in Int /\ LevelsInForce[t] = InForce(t)
           /\ \A c \in From .. To : From .. c - 1 \in SUBSET Instants /\ IsFiniteSet(From .. c - 1)
                                    /\ c \in Int /\ IntegerOn(LevelsInForce, From .. c - 1)
<1>1. From \in Int /\ To \in Int /\ To - 1 \in Int
    BY PeriodType
<1>2. IsFiniteSet(Instants)
    BY <1>1, FS_Interval DEF Instants
<1>3. \A t \in Instants : t \in Int /\ InForce(t) \in Int /\ LevelsInForce[t] = InForce(t)
    BY <1>1, InForceType DEF Instants, LevelsInForce
<1>4. IntegerOn(LevelsInForce, Instants)
    BY <1>3 DEF IntegerOn
<1>5. ASSUME NEW c \in From .. To
      PROVE  From .. c - 1 \in SUBSET Instants /\ IsFiniteSet(From .. c - 1)
             /\ c \in Int /\ IntegerOn(LevelsInForce, From .. c - 1)
    <2>1. From .. c - 1 \in SUBSET Instants /\ c \in Int
        BY <1>1 DEF Instants
    <2>2. IsFiniteSet(From .. c - 1)
        BY <1>2, <2>1, FS_Subset
    <2> QED BY <1>4, <2>1, <2>2 DEF IntegerOn
<1> QED BY <1>2, <1>3, <1>4, <1>5

LEMMA LevelStays ==
    ASSUME log \in Seq(Events), ~HasOperations(log), NEW k \in 0 .. Len(log), NEW t \in Int,
           k > 0 => SortedByTime(log)[k].at <= t,
           k < Len(log) => t < SortedByTime(log)[k + 1].at
    PROVE  InForce(t) = LevelAfter(k)
<1> DEFINE n == Len(log)
           s == SortedByTime(log)
<1>1. /\ n \in Nat /\ \A p \in 1 .. n : s[p].at \in Int
      /\ \A p, q \in 1 .. n : p <= q => s[p].at <= s[q].at
    BY ReportsInOrder
<1>2. ASSUME NEW p \in 1 .. n PROVE s[p].at <= t <=> p <= k
    <2>1. CASE p <= k
        <3>1. k \in 1 .. n /\ k > 0
            BY <1>1, <2>1
        <3>2. s[p].at <= s[k].at /\ s[k].at <= t
            BY <1>1, <2>1, <3>1
        <3> QED BY <1>1, <2>1, <3>1, <3>2
    <2>2. CASE ~(p <= k)
        <3>1. k + 1 \in 1 .. n /\ k < n /\ k + 1 <= p
            BY <1>1, <2>2
        <3>2. s[k + 1].at <= s[p].at /\ t < s[k + 1].at
            BY <1>1, <3>1
        <3> QED BY <1>1, <2>2, <3>1, <3>2
    <2> QED BY <2>1, <2>2
<1>3. UpTo(k, t)
    BY <1>2 DEF UpTo
<1> QED BY <1>3, InForceIs

LEMMA LevelsAdd ==
    ASSUME log \in Seq(Events), ~HasOperations(log),
           NEW c \in From .. To, NEW d \in From .. To, c <= d, NEW l \in Int,
           \A t \in c .. d - 1 : InForce(t) = l
    PROVE  SumFunctionOnSet(LevelsInForce, From .. d - 1)
           = SumFunctionOnSet(LevelsInForce, From .. c - 1) + l * (d - c)
<1> DEFINE S == From .. c - 1
           T == c .. d - 1
           g == LevelsInForce
<1>1. From \in Int /\ c \in Int /\ d \in Int /\ From <= c /\ c <= d
    BY PeriodType
<1>2. S \cup T = From .. d - 1 /\ S \cap T = {} /\ T \subseteq From .. d - 1
    BY <1>1
<1>3. IsFiniteSet(S) /\ IntegerOn(g, From .. d - 1) /\ From .. d - 1 \subseteq Instants
    BY LevelsType
<1>4. \A t \in Instants : g[t] = InForce(t)
    BY LevelsType
<1>5. IsFiniteSet(T) /\ Cardinality(T) = d - c
    <2>1. d - 1 \in Int
        BY <1>1
    <2>2. IsFiniteSet(T) /\ Cardinality(T) = IF c > d - 1 THEN 0 ELSE (d - 1) - c + 1
        BY <1>1, <2>1, FS_Interval
    <2> QED BY <1>1, <2>2
<1>6. \A t \in T : g[t] = l
    BY <1>2, <1>3, <1>4
<1> HIDE DEF S, T, g
<1>7. SumFunctionOnSet(g, S \cup T) = SumFunctionOnSet(g, S) + SumFunctionOnSet(g, T)
    BY <1>2, <1>3, <1>5, SumOfUnion
<1>8. SumFunctionOnSet(g, T) = l * Cardinality(T)
    <2>1. l \in Int
        OBVIOUS
    <2> QED BY <1>5, <1>6, <2>1, SumOfConstant
<1>9. SumFunctionOnSet(g, From .. d - 1) = SumFunctionOnSet(g, S) + l * (d - c)
    BY <1>2, <1>5, <1>7, <1>8
<1> QED BY <1>9 DEF S, g

LEMMA ScaledErrorUp ==
    ASSUME NEW l \in Nat, NEW p \in Nat, NEW x \in -p .. p
    PROVE  l * x \in -(p * l) .. p * l
<1>1. CASE x >= 0
    <2>1. x \in Nat /\ x <= p
        BY <1>1
    <2>2. l * x <= l * p /\ l * x \in Nat
        BY <2>1, ProductOrder
    <2>3. l * p = p * l /\ p * l \in Nat
        OBVIOUS
    <2> QED BY <2>2, <2>3
<1>2. CASE ~(x >= 0)
    <2> DEFINE y == -x
    <2>1. y \in Nat /\ y <= p /\ x = -y
        BY <1>2
    <2> HIDE DEF y
    <2>2. l * y <= l * p /\ l * y \in Nat
        BY <2>1, ProductOrder
    <2>3. l * p = p * l /\ p * l \in Nat
        OBVIOUS
    <2>4. l * x = -(l * y)
        BY <2>1
    <2> QED BY <2>2, <2>3, <2>4
<1> QED BY <1>1, <1>2

LEMMA SizeType ==
    ASSUME NEW l \in Int
    PROVE  Size(l) \in Nat /\ (l >= 0 => Size(l) = l) /\ (l < 0 => Size(l) = -l)
BY DEF Size

LEMMA ScaledError ==
    ASSUME NEW l \in Int, NEW p \in Nat, NEW x \in -p .. p
    PROVE  l * x \in -(p * Size(l)) .. p * Size(l)
<1>1. CASE l >= 0
    <2>1. l \in Nat /\ Size(l) = l
        BY <1>1, SizeType
    <2> QED BY <2>1, ScaledErrorUp
<1>2. CASE ~(l >= 0)
    <2> DEFINE m == -l
               y == m * x
               q == p * m
    <2>1. m \in Nat /\ Size(l) = m /\ l = -m
        BY <1>2, SizeType
    <2> HIDE DEF m
    <2>2. y \in -q .. q /\ q \in Int
        BY <2>1, ScaledErrorUp
    <2>3. l * x = -y
        BY <2>1
    <2> HIDE DEF y, q
    <2>4. -y \in -q .. q
        BY <2>2
    <2> QED BY <2>1, <2>3, <2>4 DEF q
<1> QED BY <1>1, <1>2

\* One stretch of one level: what is billed for it, and what it is, differ by at
\* most a rounding per step of the level.
LEMMA StretchIsNear ==
    ASSUME NEW p \in Nat, NEW total \in Int, NEW sum \in Int, NEW b \in Int,
           p * total - Digits * sum \in -b .. b,
           NEW l \in Int, NEW d \in Nat, NEW w \in Int, p * w - Digits * d \in -p .. p
    PROVE  p * (total + l * w) - Digits * (sum + l * d) \in -(b + p * Size(l)) .. b + p * Size(l)
<1>1. Digits \in Int
    BY PeriodType
<1> DEFINE x == p * w - Digits * d
           y == p * total - Digits * sum
<1>2. l * x \in -(p * Size(l)) .. p * Size(l)
    <2> HIDE DEF x
    <2>1. x \in -p .. p
        BY DEF x
    <2> QED BY <2>1, ScaledError
<1>3. p * (total + l * w) - Digits * (sum + l * d) = y + l * x
    <2>1. p * (total + l * w) = p * total + p * (l * w) /\ p * (l * w) = l * (p * w)
        OBVIOUS
    <2>2. Digits * (sum + l * d) = Digits * sum + Digits * (l * d) /\ Digits * (l * d) = l * (Digits * d)
        BY <1>1
    <2>3. l * (p * w - Digits * d) = l * (p * w) - l * (Digits * d)
        BY <1>1
    <2> DEFINE u1 == p * total
               u2 == l * (p * w)
               u3 == Digits * sum
               u4 == l * (Digits * d)
    <2>4. u1 \in Int /\ u2 \in Int /\ u3 \in Int /\ u4 \in Int
        BY <1>1
    <2>5. p * (total + l * w) = u1 + u2 /\ Digits * (sum + l * d) = u3 + u4 /\ l * x = u2 - u4 /\ y = u1 - u3
        BY <2>1, <2>2, <2>3
    <2> HIDE DEF u1, u2, u3, u4, x, y
    <2> QED BY <2>4, <2>5
<1>4. y \in -b .. b
    OBVIOUS
<1> DEFINE z == l * x
           q == p * Size(l)
<1>5. q \in Nat
    BY SizeType
<1> HIDE DEF x, y, z, q
<1>6. y + z \in -(b + q) .. b + q
    BY <1>2, <1>4, <1>5 DEF z, q
<1> QED BY <1>3, <1>6 DEF z, q

\* A stretch in which no report falls is weighed at the level that is in force.
LEMMA StretchWeighs ==
    ASSUME log \in Seq(Events), ~HasOperations(log), NEW k \in 0 .. Len(log), NEW total \in Int,
           NEW c \in From .. To, NEW d \in From .. To, c <= d,
           k > 0 => SortedByTime(log)[k].at <= c,
           k < Len(log) => d <= SortedByTime(log)[k + 1].at,
           NEW b \in Int,
           (To - From) * total - Digits * SumFunctionOnSet(LevelsInForce, From .. c - 1) \in -b .. b
    PROVE  (To - From) * (total + LevelAfter(k) * TimeFraction(d - c))
           - Digits * SumFunctionOnSet(LevelsInForce, From .. d - 1)
           \in -(b + (To - From) * Size(LevelAfter(k))) .. b + (To - From) * Size(LevelAfter(k))
<1> DEFINE p == To - From
           l == LevelAfter(k)
           w == TimeFraction(d - c)
           sum == SumFunctionOnSet(LevelsInForce, From .. c - 1)
           sumd == SumFunctionOnSet(LevelsInForce, From .. d - 1)
<1>1. p \in Nat /\ From \in Int /\ To \in Int /\ c \in Int /\ d \in Int /\ d - c \in Nat
    BY PeriodType
<1>2. l \in Int
    <2>1. k # 0 => k \in 1 .. Len(log)
        BY ReportsInOrder
    <2> QED BY <2>1, ReportsInOrder DEF LevelAfter
<1>3. ASSUME NEW t \in c .. d - 1 PROVE InForce(t) = l
    <2>1. t \in Int /\ c <= t /\ t < d
        BY <1>1
    <2>2. k > 0 => k \in 1 .. Len(log)
        BY ReportsInOrder
    <2>3. k < Len(log) => k + 1 \in 1 .. Len(log)
        BY ReportsInOrder
    <2>4. k > 0 => SortedByTime(log)[k].at <= t
        BY <1>1, <2>1, <2>2, ReportsInOrder
    <2>5. k < Len(log) => t < SortedByTime(log)[k + 1].at
        BY <1>1, <2>1, <2>3, ReportsInOrder
    <2> QED BY <2>1, <2>4, <2>5, LevelStays
<1> HIDE DEF l
<1>4. sumd = sum + l * (d - c)
    BY <1>2, <1>3, LevelsAdd
<1>5. p * w - Digits * (d - c) \in -p .. p
    BY <1>1, FractionIsNear
<1>6. w \in Nat
    BY <1>1, TimeFractionType
<1>7. sum \in Int
    <2>1. IsFiniteSet(From .. c - 1) /\ IntegerOn(LevelsInForce, From .. c - 1)
        BY LevelsType
    <2> QED BY <2>1, SumType
<1> DEFINE a == d - c
<1>8. a \in Nat /\ w \in Int /\ p * w - Digits * a \in -p .. p /\ sumd = sum + l * a
    BY <1>1, <1>4, <1>5, <1>6
<1>9. p * total - Digits * sum \in -b .. b
    OBVIOUS
<1> HIDE DEF p, w, sum, sumd, a
<1>10. p * (total + l * w) - Digits * (sum + l * a) \in -(b + p * Size(l)) .. b + p * Size(l)
    BY <1>1, <1>2, <1>7, <1>8, <1>9, StretchIsNear
<1>11. p * (total + l * w) - Digits * sumd \in -(b + p * Size(l)) .. b + p * Size(l)
    BY <1>8, <1>10
<1> QED BY <1>11 DEF p, l, w, sumd

\* The weight of reported levels is the sum of the levels in force, to within a
\* rounding per step of each reported level.
LEMMA LevelsWeigh ==
    ASSUME log \in Seq(Events), ~HasOperations(log), NEW high \in Nat,
           \A k \in 1 .. Len(log) : Size(SortedByTime(log)[k].level) <= high
    PROVE  (To - From) * WeightReportedLevels(log) - Digits * SumFunctionOnSet(LevelsInForce, Instants)
           \in -((To - From) * (high * Len(log))) .. (To - From) * (high * Len(log))
<1> DEFINE n == Len(log)
           s == SortedByTime(log)
           p == To - From
           sum(c) == SumFunctionOnSet(LevelsInForce, From .. c - 1)
<1>1. n \in Nat /\ Len(s) = n /\ DOMAIN s = 1 .. n
    <2>1. log \in Seq(Events)
        OBVIOUS
    <2> QED BY <2>1, SortedEvents
<1>2. \A k \in 1 .. n : s[k].level \in Int /\ s[k].at \in Nat /\ Size(s[k].level) <= high /\ s[k].at < To
    BY ReportsInOrder
<1>3. \A j, k \in 1 .. n : j <= k => s[j].at <= s[k].at
    BY ReportsInOrder
<1>4. p \in Nat /\ From \in Nat /\ To \in Nat /\ From < To
    BY PeriodType
<1>5. PICK g \in [0 .. n -> Weights] : Weighs(g, s) /\ FoldLeft(Weigh, Unweighed, s) = g[n]
    <2> HIDE DEF n, s
    <2> QED BY <1>1, <1>2, WeighOf
<1>6. \A k \in 0 .. n : Cursor(g, s, k)
    BY <1>5, CursorFollows
<1>7. \A k \in 0 .. n : g[k].level = LevelAfter(k)
    <2> SUFFICES ASSUME NEW k \in 0 .. n PROVE g[k].level = LevelAfter(k)
        OBVIOUS
    <2>1. CASE k = 0
        <3>1. g[k] = Unweighed
            BY <1>5, <2>1 DEF Weighs
        <3> QED BY <2>1, <3>1 DEF Unweighed, LevelAfter
    <2>2. CASE k # 0
        <3>1. k \in 1 .. n /\ k - 1 \in 0 .. n
            BY <1>1, <2>2
        <3>2. g[k - 1] \in Weights /\ g[k] = Weigh(g[k - 1], s[k])
            BY <1>1, <1>5, <3>1 DEF Weighs
        <3>3. g[k].level = s[k].level
            BY <1>2, <3>1, <3>2, WeighIs
        <3> QED BY <2>2, <3>3 DEF LevelAfter
    <2> QED BY <2>1, <2>2
<1> DEFINE spare(k) == high * k - Size(LevelAfter(k))
           Good == {k \in 0 .. n : p * g[k].total - Digits * sum(g[k].cursor) \in -(p * spare(k)) .. p * spare(k)}
<1>8. \A k \in 0 .. n : LevelAfter(k) \in Int /\ Size(LevelAfter(k)) \in Nat /\ spare(k) \in Nat
    <2> SUFFICES ASSUME NEW k \in 0 .. n
                 PROVE  LevelAfter(k) \in Int /\ Size(LevelAfter(k)) \in Nat /\ spare(k) \in Nat
        OBVIOUS
    <2>1. CASE k = 0
        <3>1. LevelAfter(k) = 0 /\ Size(0) = 0 /\ high * 0 = 0
            BY <2>1 DEF LevelAfter, Size
        <3> QED BY <2>1, <3>1
    <2>2. CASE k # 0
        <3>1. k \in 1 .. n /\ k - 1 \in Nat
            BY <1>1, <2>2
        <3>2. LevelAfter(k) \in Int /\ Size(LevelAfter(k)) \in Nat /\ Size(LevelAfter(k)) <= high
            BY <1>2, <2>2, <3>1, SizeType DEF LevelAfter
        <3>3. high * k = high * (k - 1) + high /\ high * (k - 1) \in Nat
            BY <3>1
        <3> DEFINE a == Size(LevelAfter(k))
                   y == high * (k - 1)
                   z == high * k
        <3>4. a \in Nat /\ a <= high /\ y \in Nat /\ z = y + high
            BY <3>2, <3>3
        <3> HIDE DEF a, y, z
        <3>5. a \in Nat /\ z - a \in Nat
            BY <3>4
        <3> QED BY <3>2, <3>5 DEF a, z
    <2> QED BY <2>1, <2>2
<1>9. \A k \in 1 .. n : spare(k - 1) + Size(LevelAfter(k - 1)) = high * (k - 1)
                        /\ spare(k - 1) + Size(LevelAfter(k - 1)) <= spare(k)
    <2> SUFFICES ASSUME NEW k \in 1 .. n
                 PROVE  spare(k - 1) + Size(LevelAfter(k - 1)) = high * (k - 1)
                        /\ spare(k - 1) + Size(LevelAfter(k - 1)) <= spare(k)
        OBVIOUS
    <2>1. k - 1 \in Nat /\ k - 1 \in 0 .. n /\ k \in 0 .. n /\ k # 0
        BY <1>1
    <2>2. Size(LevelAfter(k)) \in Nat /\ Size(LevelAfter(k)) <= high /\ Size(LevelAfter(k - 1)) \in Nat
        BY <1>2, <1>8, <2>1 DEF LevelAfter
    <2>3. high * k = high * (k - 1) + high /\ high * (k - 1) \in Nat
        BY <2>1
    <2> QED BY <2>2, <2>3
<1>10. \A k \in 0 .. n : /\ g[k].total \in Int /\ g[k].cursor \in From .. To
                         /\ g[k].cursor = From \/ (k > 0 /\ g[k].cursor <= s[k].at)
                         /\ k > 0 => s[k].at <= g[k].cursor
    BY <1>6, AmountsType DEF Cursor
<1>11. 0 \in Good
    <2>1. g[0] = Unweighed /\ LevelAfter(0) = 0 /\ 0 \in 0 .. n
        BY <1>1, <1>5 DEF Weighs, LevelAfter
    <2>2. g[0].total = 0 /\ g[0].cursor = From
        BY <2>1 DEF Unweighed
    <2>3. From .. From - 1 = {}
        BY <1>4
    <2>4. sum(From) = 0
        BY <2>3, SumEmpty
    <2>5. spare(0) = 0
        <3>1. Size(0) = 0
            BY DEF Size
        <3> QED BY <2>1, <3>1
    <2>6. p * 0 - Digits * 0 = 0 /\ p * 0 = 0 /\ -(p * 0) = 0
        BY <1>4, PeriodType
    <2> HIDE DEF p, s, n, sum, spare
    <2> QED BY <2>1, <2>2, <2>4, <2>5, <2>6
<1>12. ASSUME NEW k \in 1 .. n, k - 1 \in Good PROVE k \in Good
    <2> DEFINE r == g[k - 1]
               q == g[k]
               e == s[k]
               l == LevelAfter(k - 1)
    <2>1. k - 1 \in 0 .. n /\ k \in 0 .. n /\ k > 0 /\ k - 1 + 1 = k /\ k - 1 < n
        BY <1>1
    <2>2. r \in Weights /\ q = Weigh(r, e) /\ e.level \in Int /\ e.at \in Nat /\ e.at < To /\ r.level = l
        BY <1>1, <1>2, <1>5, <1>7, <2>1 DEF Weighs
    <2>3. p * r.total - Digits * sum(r.cursor) \in -(p * spare(k - 1)) .. p * spare(k - 1)
        BY <1>12
    <2>4. spare(k - 1) \in Nat /\ Size(l) \in Nat /\ spare(k) \in Nat /\ spare(k - 1) + Size(l) <= spare(k)
        BY <1>8, <1>9, <2>1
    <2>5. r.cursor \in From .. To /\ r.total \in Int /\ (k - 1 > 0 => s[k - 1].at <= r.cursor)
        BY <1>10, <2>1
    <2>6. \A m \in Nat : m <= spare(k) => p * m <= p * spare(k) /\ p * m \in Nat /\ p * spare(k) \in Nat
        <3> SUFFICES ASSUME NEW m \in Nat, m <= spare(k)
                     PROVE  p * m <= p * spare(k) /\ p * m \in Nat /\ p * spare(k) \in Nat
            OBVIOUS
        <3> DEFINE v == spare(k)
        <3>1. v \in Nat /\ m <= v
            BY <2>4
        <3> HIDE DEF p, v
        <3>2. p * m <= p * v
            BY <1>4, <3>1, ProductOrder
        <3>3. p * m \in Nat /\ p * v \in Nat
            BY <1>4, <3>1
        <3> QED BY <3>2, <3>3 DEF v
    <2>7. CASE e.at <= From
        <3>1. q.total = r.total /\ q.cursor = r.cursor
            BY <2>2, <2>7, WeighIs
        <3>2. p * spare(k - 1) <= p * spare(k) /\ p * spare(k - 1) \in Nat /\ p * spare(k) \in Nat
            <4> HIDE DEF p, spare
            <4>1. spare(k - 1) <= spare(k)
                BY <2>4
            <4> QED BY <2>4, <2>6, <4>1
        <3> DEFINE y == p * r.total - Digits * sum(r.cursor)
                   u == p * spare(k - 1)
                   v == p * spare(k)
        <3>3. y \in -u .. u /\ u <= v /\ u \in Nat /\ v \in Nat
            BY <2>3, <3>2
        <3>4. p * q.total - Digits * sum(q.cursor) = y
            <4> HIDE DEF p, sum, q, r
            <4> QED BY <3>1
        <3> HIDE DEF y, u, v
        <3>5. y \in -v .. v
            BY <3>3
        <3> QED BY <2>1, <3>4, <3>5 DEF v
    <2>8. CASE e.at > From
        <3>1. q.total = r.total + l * TimeFraction(e.at - r.cursor) /\ q.cursor = e.at
            BY <2>2, <2>8, WeighIs
        <3>2. e.at \in From .. To
            BY <1>4, <2>2, <2>8
        <3>3. r.cursor <= e.at
            <4>1. k - 1 > 0 => k - 1 \in 1 .. n
                BY <1>1, <2>1
            <4>2. r.cursor = From \/ (k - 1 > 0 /\ r.cursor <= s[k - 1].at)
                BY <1>10, <2>1
            <4>3. k - 1 > 0 => s[k - 1].at <= s[k].at /\ s[k - 1].at \in Nat
                <5>1. k - 1 <= k
                    BY <1>1
                <5> QED BY <1>2, <1>3, <4>1, <5>1
            <4> QED BY <1>4, <2>2, <2>5, <2>8, <4>2, <4>3
        <3>4. k - 1 < Len(log) => e.at <= SortedByTime(log)[k - 1 + 1].at
            BY <2>1, <2>2
        <3> DEFINE b == p * spare(k - 1)
        <3>5. b \in Int /\ r.total \in Int
            <4>1. b \in Int
                <5> HIDE DEF spare, p
                <5> QED BY <1>4, <2>4
            <4> QED BY <2>5, <4>1
        <3>50. k - 1 \in 0 .. Len(log) /\ (k - 1 > 0 => SortedByTime(log)[k - 1].at <= r.cursor)
            BY <2>1, <2>5
        <3>51. p * r.total - Digits * sum(r.cursor) \in -b .. b
            BY <2>3
        <3> DEFINE at == e.at
                   c == r.cursor
                   j == k - 1
        <3>52. /\ at \in From .. To /\ c \in From .. To /\ c <= at /\ j \in 0 .. Len(log)
               /\ (j > 0 => SortedByTime(log)[j].at <= c)
               /\ (j < Len(log) => at <= SortedByTime(log)[j + 1].at)
               /\ (To - From) * r.total - Digits * SumFunctionOnSet(LevelsInForce, From .. c - 1) \in -b .. b
            BY <2>5, <3>2, <3>3, <3>4, <3>50, <3>51
        <3> HIDE DEF b, at, c, j, r, e, q
        <3>6. (To - From) * (r.total + LevelAfter(j) * TimeFraction(at - c))
              - Digits * SumFunctionOnSet(LevelsInForce, From .. at - 1)
              \in -(b + (To - From) * Size(LevelAfter(j))) .. b + (To - From) * Size(LevelAfter(j))
            BY <3>5, <3>52, StretchWeighs
        <3>7. p * q.total - Digits * sum(q.cursor) \in -(b + p * Size(l)) .. b + p * Size(l)
            BY <3>1, <3>6 DEF at, c, j
        <3>8. b + p * Size(l) <= p * spare(k) /\ b + p * Size(l) \in Nat /\ p * spare(k) \in Nat
            <4> DEFINE m == spare(k - 1) + Size(l)
            <4>1. m \in Nat /\ m <= spare(k) /\ b + p * Size(l) = p * m
                <5> HIDE DEF spare, p, l
                <5> QED BY <1>4, <2>4 DEF b
            <4> HIDE DEF m, spare, p, l
            <4> QED BY <2>6, <4>1
        <3> DEFINE y == p * q.total - Digits * sum(q.cursor)
                   u == b + p * Size(l)
                   v == p * spare(k)
        <3>9. y \in -u .. u /\ u <= v /\ u \in Nat /\ v \in Nat
            BY <3>7, <3>8
        <3> HIDE DEF y, u, v
        <3>10. y \in -v .. v
            BY <3>9
        <3> QED BY <2>1, <3>10 DEF v, y, q
    <2> QED BY <1>4, <2>2, <2>7, <2>8
<1>13. n \in Good
    <2> HIDE DEF Good, n
    <2>1. \A k \in 0 .. n : k \in Good
        BY <1>1, <1>11, <1>12, PrefixInduction
    <2> QED BY <1>1, <2>1
<1> DEFINE b == p * spare(n)
           end == g[n]
           l == LevelAfter(n)
<1>14. end.cursor \in From .. To /\ end.total \in Int /\ n \in 0 .. n /\ (n > 0 => s[n].at <= end.cursor)
    BY <1>1, <1>10
<1>15. Size(l) \in Nat /\ spare(n) \in Nat /\ b \in Int
    <2>1. Size(l) \in Nat /\ spare(n) \in Nat
        BY <1>8, <1>14
    <2>2. b \in Int
        <3> HIDE DEF spare, p
        <3> QED BY <1>4, <2>1
    <2> QED BY <2>1, <2>2
<1>16. WeightReportedLevels(log) = end.total + l * TimeFraction(To - end.cursor)
    <2>1. end.level = l
        BY <1>7, <1>14
    <2> QED BY <1>5, <2>1 DEF WeightReportedLevels, Unweighed
<1>17. p * end.total - Digits * sum(end.cursor) \in -b .. b
    BY <1>13
<1> DEFINE c == end.cursor
<1>18. /\ c \in From .. To /\ c \in Int /\ c <= To /\ To \in From .. To
       /\ ~(n < Len(log)) /\ (n > 0 => SortedByTime(log)[n].at <= c) /\ end.total \in Int
       /\ n \in 0 .. Len(log)
       /\ (To - From) * end.total - Digits * SumFunctionOnSet(LevelsInForce, From .. c - 1) \in -b .. b
    BY <1>1, <1>4, <1>14, <1>17
<1>19. (To - From) * (end.total + l * TimeFraction(To - c))
       - Digits * SumFunctionOnSet(LevelsInForce, From .. To - 1)
       \in -(b + (To - From) * Size(l)) .. b + (To - From) * Size(l)
    <2> HIDE DEF b, end, c, n, s, l
    <2>1. (To - From) * (end.total + LevelAfter(n) * TimeFraction(To - c))
          - Digits * SumFunctionOnSet(LevelsInForce, From .. To - 1)
          \in -(b + (To - From) * Size(LevelAfter(n))) .. b + (To - From) * Size(LevelAfter(n))
        BY <1>15, <1>18, StretchWeighs
    <2> QED BY <2>1 DEF l
<1>20. b + p * Size(l) = p * (high * n)
    <2>1. spare(n) + Size(l) = high * n
        BY <1>1, <1>15
    <2> DEFINE x == spare(n)
               y == Size(l)
               z == high * n
    <2>2. x \in Nat /\ y \in Nat /\ x + y = z /\ b = p * x
        BY <1>15, <2>1
    <2> HIDE DEF x, y, z, l, b, p
    <2>3. p * (x + y) = p * x + p * y
        BY <1>4, <2>2
    <2> QED BY <2>2, <2>3 DEF y, z
<1> HIDE DEF b, l, end
<1> QED BY <1>16, <1>19, <1>20 DEF Instants

\* The quantity that a carry-over meter is read as.
LEMMA SumOver ==
    ASSUME NEW S, NEW f, DOMAIN f = S
    PROVE  SumFunction(f) = SumFunctionOnSet(f, S)
BY DEF SumFunction

\* The bound on the rounding counts a unit for each event that can weigh, and is as
\* high as each reported level.
LEMMA HighestIs ==
    ASSUME log \in Seq(Events)
    PROVE  Highest \in Nat /\ Grain <= Highest
           /\ \A i \in DOMAIN log : log[i].op = "report" => Size(log[i].level) <= Highest
<1> DEFINE A == {k \in DOMAIN log : log[k].op = "report"}
           f == [k \in A |-> Size(log[k].level)]
           S == {f[k] : k \in A}
<1>1. \A i \in DOMAIN log : log[i] \in Events
    BY SequenceType
<1>2. \A k \in A : Size(log[k].level) \in Nat
    BY <1>1, EventType, SizeType
<1>3. IsFiniteSet(A)
    <2>1. DOMAIN log = 1 .. Len(log) /\ Len(log) \in Nat
        BY SequenceType
    <2>2. IsFiniteSet(1 .. Len(log))
        BY <2>1, FS_Interval
    <2>3. A \in SUBSET (1 .. Len(log))
        BY <2>1
    <2> HIDE DEF A
    <2> QED BY <2>2, <2>3, FS_Subset
<1>4. IsFiniteSet(S) /\ S \subseteq Nat
    <2>1. S \subseteq Nat
        BY <1>2
    <2>2. IsFiniteSet(S)
        <3> HIDE DEF A, f
        <3> QED BY <1>3, ImageIsFinite
    <2> QED BY <2>1, <2>2
<1>5. Highest = Max({Grain} \cup S)
    <2>1. S = {Size(log[i].level) : i \in A}
        OBVIOUS
    <2> QED BY <2>1 DEF Highest
<1>6. \A k \in A : Size(log[k].level) \in S
    OBVIOUS
<1> HIDE DEF S, A, f
<1>7. IsFiniteSet({Grain} \cup S) /\ {Grain} \cup S \in SUBSET Int /\ {Grain} \cup S # {}
    <2>1. IsFiniteSet(S \cup {Grain})
        BY <1>4, FS_AddElement
    <2>2. {Grain} \cup S = S \cup {Grain}
        OBVIOUS
    <2>3. IsFiniteSet({Grain} \cup S)
        BY <2>1, <2>2, Zenon
    <2>4. {Grain} \cup S \in SUBSET Int /\ {Grain} \cup S # {}
        BY <1>4, PeriodType
    <2> QED BY <2>3, <2>4
<1>8. Max({Grain} \cup S) \in {Grain} \cup S /\ \A x \in {Grain} \cup S : Max({Grain} \cup S) >= x
    BY <1>7, MaxExists
<1>9. Highest \in Nat /\ \A x \in {Grain} \cup S : x <= Highest
    <2>1. \A x \in {Grain} \cup S : x \in Nat
        BY <1>4, PeriodType
    <2>2. Highest \in {Grain} \cup S /\ \A x \in {Grain} \cup S : Highest >= x
        BY <1>5, <1>8, Zenon
    <2>3. Highest \in Nat
        BY <2>1, <2>2, Zenon
    <2> SUFFICES ASSUME NEW x \in {Grain} \cup S PROVE x <= Highest
        BY <2>3
    <2>4. x \in Nat /\ Highest >= x
        BY <2>1, <2>2, Zenon
    <2> QED BY <2>3, <2>4
<1>10. \A i \in DOMAIN log : log[i].op = "report" => i \in A
    BY DEF A
<1> QED BY <1>6, <1>9, <1>10

LEMMA OperationsAreRead ==
    ASSUME log \in Seq(Events), HasOperations(log), NEW ivs, ivs = ReconstructIntervals(log)
    PROVE  /\ AggregateCarryOver("latest", TRUE, TRUE) = One * CountStandingAtEnd(ivs)
           /\ AggregateCarryOver("max", TRUE, TRUE) = One * CountPeakConcurrent(ivs)
           /\ AggregateCarryOver("unique_count", TRUE, TRUE) = One * CountDistinctActive(ivs)
           /\ AggregateCarryOver("weighted_sum", TRUE, TRUE) = Grain * WeightIntervals(ivs, TRUE, TRUE)
BY DEF AggregateCarryOver

LEMMA ReportsAreRead ==
    ASSUME log \in Seq(Events), ~HasOperations(log)
    PROVE  /\ AggregateCarryOver("latest", TRUE, TRUE) = Digits * LastReportedLevel(log)
           /\ AggregateCarryOver("max", TRUE, TRUE) = Digits * PeakReportedLevel(log)
           /\ AggregateCarryOver("weighted_sum", TRUE, TRUE) = WeightReportedLevels(log)
BY DEF AggregateCarryOver

LEMMA WithinRounding ==
    ASSUME NEW p \in Nat, NEW high \in Nat, NEW n \in Nat, NEW g \in Nat, g <= high,
           NEW x \in -(p * n) .. p * n
    PROVE  g * x \in -(p * (high * n)) .. p * (high * n)
<1> DEFINE a == p * n
           b == p * (high * n)
           c == a * g
           y == g * x
<1>1. a \in Nat /\ high * n \in Nat /\ b \in Nat
    <2>1. \A m \in Nat : p * m \in Nat
        OBVIOUS
    <2>2. high * n \in Nat
        OBVIOUS
    <2> QED BY <2>1, <2>2
<1>2. c <= b /\ c \in Nat
    <2>1. a * g <= a * high /\ a * g \in Nat
        <3> HIDE DEF a
        <3> QED BY <1>1, ProductOrder
    <2>2. a * high = b
        OBVIOUS
    <2> QED BY <2>1, <2>2, Zenon
<1>3. y \in -c .. c
    <2>1. x \in -a .. a
        OBVIOUS
    <2> HIDE DEF a
    <2>2. Size(g) = g
        BY DEF Size
    <2>3. g * x \in -(a * Size(g)) .. a * Size(g)
        BY <1>1, <2>1, ScaledError
    <2> QED BY <2>2, <2>3, Zenon
<1>4. y \in -b .. b
    <2> HIDE DEF a, b, c, y
    <2> QED BY <1>1, <1>2, <1>3
<1> QED BY <1>4 DEF y, b

\* The identities that stand, in steps of a reported level.
LEMMA StandingSteps ==
    ASSUME log \in Seq(Events)
    PROVE  /\ IsFiniteSet(Instants)
           /\ \A t \in Instants : Cardinality(Standing(t)) \in Nat
<1> DEFINE ivs == ReconstructIntervals(log)
<1>1. ivs \in Seq(Interval) /\ FromHistory(ivs)
    BY HistoryType
<1>2. IsFiniteSet(Instants)
    <2>1. From \in Int /\ To - 1 \in Int
        BY PeriodType
    <2> QED BY <2>1, FS_Interval DEF Instants
<1>3. ASSUME NEW t \in Instants PROVE Cardinality(Standing(t)) \in Nat
    <2>1. t \in Times
        BY HistoryType
    <2>2. Cardinality(Covering(ivs, t)) = Cardinality(Standing(t))
        BY <1>1, <2>1, StandingIs
    <2>3. IsFiniteSet(Covering(ivs, t))
        BY <1>1, IntervalType, FS_Subset DEF Covering
    <2> QED BY <2>2, <2>3, FS_CardinalityType
<1> QED BY <1>2, <1>3

LEMMA PeakInSteps ==
    ASSUME log \in Seq(Events), NEW ivs, ivs = ReconstructIntervals(log)
    PROVE  One * CountPeakConcurrent(ivs)
           = Digits * Max({0} \cup {Grain * Cardinality(Standing(t)) : t \in Instants})
<1> DEFINE f == [t \in Instants |-> Cardinality(Standing(t))]
           M == {f[t] : t \in Instants}
           m == Max(M)
           S == {0} \cup {Grain * f[t] : t \in Instants}
<1>1. \A t \in Instants : f[t] \in Nat
    BY StandingSteps
<1>2. Digits \in Nat /\ Grain \in Nat /\ One = Digits * Grain
    BY PeriodType
<1>3. CountPeakConcurrent(ivs) = m
    <2>1. CountPeakConcurrent(ivs) = Max({Cardinality(Standing(t)) : t \in Instants})
        BY PeakFollows, Zenon
    <2>2. {Cardinality(Standing(t)) : t \in Instants} = M
        OBVIOUS
    <2> QED BY <2>1, <2>2, Zenon
<1>4. {0} \cup {Grain * Cardinality(Standing(t)) : t \in Instants} = S
    OBVIOUS
<1> HIDE DEF f
<1>5. m \in M /\ \A x \in M : m >= x
    <2>1. M \in SUBSET Int /\ IsFiniteSet(M) /\ M # {}
        BY <1>1, StandingSteps, HistoryType, ImageIsFinite
    <2> HIDE DEF M
    <2> QED BY <2>1, MaxExists
<1> HIDE DEF m
<1>6. PICK t \in Instants : m = f[t]
    BY <1>5
<1>7. m \in Nat /\ \A u \in Instants : f[u] <= m
    <2> SUFFICES ASSUME NEW u \in Instants PROVE f[u] <= m
        BY <1>1, <1>6
    <2>1. f[u] \in M
        OBVIOUS
    <2> QED BY <1>1, <1>5, <1>6, <2>1
<1>8. Grain * m \in S /\ Grain * m \in Nat
    BY <1>2, <1>6, <1>7
<1>9. \A u \in Instants : Grain * f[u] \in Nat /\ Grain * f[u] <= Grain * m
    BY <1>1, <1>2, <1>7, ProductOrder
<1>10. S \in SUBSET Int /\ \A x \in S : Grain * m >= x
    <2> DEFINE k == Grain * m
    <2>1. k \in Nat /\ \A u \in Instants : Grain * f[u] \in Nat /\ Grain * f[u] <= k
        BY <1>8, <1>9
    <2> HIDE DEF k
    <2>2. \A x \in S : x \in Nat /\ k >= x
        <3> TAKE x \in S
        <3>1. x = 0 \/ \E u \in Instants : x = Grain * f[u]
            OBVIOUS
        <3> QED BY <2>1, <3>1
    <2> HIDE DEF S
    <2>3. S \in SUBSET Int /\ \A x \in S : k >= x
        BY <2>2
    <2> QED BY <2>3 DEF k
<1>11. Max(S) = Grain * m
    <2> DEFINE k == Grain * m
    <2>1. k \in S /\ \A x \in S : k >= x
        BY <1>8, <1>10
    <2> HIDE DEF k, S
    <2>2. Max(S) = k
        BY <1>10, <2>1, MaxIs
    <2> QED BY <2>2 DEF k
<1>12. One * m = Digits * (Grain * m)
    BY <1>2, <1>7
<1> QED BY <1>3, <1>4, <1>11, <1>12, Zenon

\* While the meter runs, each reading is what the events say of the stock.
LEMMA ReadingIsTheStock ==
    ASSUME log \in Seq(Events)
    PROVE  ReadingsFollowTheStock
<1> DEFINE ivs == ReconstructIntervals(log)
           stock == [t \in Instants |-> StockAt(t)]
           p == To - From
           n == Len(log)
<1>1. /\ p \in Nat /\ n \in Nat /\ One = Digits * Grain /\ Digits \in Nat /\ Grain \in Nat
      /\ Rounding = p * (Highest * n) /\ Highest \in Nat /\ Grain <= Highest
    BY PeriodType, SequenceType, HighestIs DEF Rounding
<1>2. SumFunction(stock) = SumFunctionOnSet(stock, Instants)
    <2>1. DOMAIN stock = Instants
        OBVIOUS
    <2> HIDE DEF stock
    <2> QED BY <2>1, SumOver
<1>3. (\A j, k \in DOMAIN ivs : j # k => ivs[j].seat # ivs[k].seat)
      => WeightIntervals(ivs, FALSE, FALSE) = Digits * CountDistinctActive(ivs)
    BY FullPeriods, Zenon
<1>4. CASE HasOperations(log)
    <2>1. \A t : StockAt(t) = Grain * Cardinality(Standing(t))
        BY <1>4 DEF StockAt
    <2>2. stock = [t \in Instants |-> Grain * Cardinality(Standing(t))]
          /\ {StockAt(t) : t \in Instants} = {Grain * Cardinality(Standing(t)) : t \in Instants}
        BY <2>1
    <2>3. AggregateCarryOver("latest", TRUE, TRUE) = Digits * StockAt(To - 1)
        <3>1. AggregateCarryOver("latest", TRUE, TRUE) = One * CountStandingAtEnd(ivs)
            BY <1>4, OperationsAreRead, Zenon
        <3>2. CountStandingAtEnd(ivs) = Cardinality(Standing(To - 1))
            BY LatestFollows, Zenon
        <3>3. Cardinality(Standing(To - 1)) \in Nat
            <4>1. To - 1 \in Instants
                BY PeriodType DEF Instants
            <4> QED BY <4>1, StandingSteps
        <3> DEFINE c == Cardinality(Standing(To - 1))
        <3>4. c \in Nat
            BY <3>3
        <3> HIDE DEF c
        <3>5. One * c = Digits * (Grain * c)
            BY <1>1, <3>4
        <3> QED BY <2>1, <3>1, <3>2, <3>5, Zenon DEF c
    <2>4. AggregateCarryOver("max", TRUE, TRUE) = Digits * Max({0} \cup {StockAt(t) : t \in Instants})
        <3>1. AggregateCarryOver("max", TRUE, TRUE) = One * CountPeakConcurrent(ivs)
            BY <1>4, OperationsAreRead, Zenon
        <3>2. One * CountPeakConcurrent(ivs)
              = Digits * Max({0} \cup {Grain * Cardinality(Standing(t)) : t \in Instants})
            BY PeakInSteps, Zenon
        <3> QED BY <2>2, <3>1, <3>2, Zenon
    <2>5. AggregateCarryOver("unique_count", TRUE, TRUE) = One * Cardinality(Touched)
        <3>1. AggregateCarryOver("unique_count", TRUE, TRUE) = One * CountDistinctActive(ivs)
            BY <1>4, OperationsAreRead, Zenon
        <3>2. CountDistinctActive(ivs) = Cardinality(Touched)
            BY DistinctFollows, Zenon
        <3> QED BY <3>1, <3>2, Zenon
    <2>6. p * AggregateCarryOver("weighted_sum", TRUE, TRUE) - Digits * SumFunction(stock)
          \in -Rounding .. Rounding
        <3> DEFINE w == AggregateCarryOver("weighted_sum", TRUE, TRUE)
                   v == WeightIntervals(ivs, TRUE, TRUE)
                   standing == [t \in Instants |-> Cardinality(Standing(t))]
                   sum == SumFunctionOnSet(standing, Instants)
                   exact == SumFunction(stock)
                   x == p * v - Digits * sum
        <3>1. w = Grain * v
            BY <1>4, OperationsAreRead, Zenon
        <3>2. IntegerOn(standing, Instants) /\ IsFiniteSet(Instants)
              /\ \A t \in Instants : stock[t] = Grain * standing[t]
            BY <2>1, StandingSteps DEF IntegerOn
        <3>3. x \in -(p * n) .. p * n
            BY WeightsFollow, Zenon
        <3>4. exact = Grain * sum /\ sum \in Int
            <4> HIDE DEF stock, standing
            <4>1. Grain \in Int
                BY <1>1
            <4>2. SumFunctionOnSet(stock, Instants) = Grain * sum
                BY <3>2, <4>1, SumScales
            <4> QED BY <1>2, <3>2, <4>2, SumType
        <3>5. v \in Int
            <4>1. ivs \in Seq(Interval)
                BY HistoryType
            <4>2. v \in Nat
                BY <4>1, WeightType, Zenon
            <4> HIDE DEF v
            <4> QED BY <4>2
        <3> HIDE DEF w, v, sum, exact, p, n
        <3>6. p * w - Digits * exact = Grain * x
            <4>1. p * (Grain * v) = Grain * (p * v) /\ Digits * (Grain * sum) = Grain * (Digits * sum)
                  /\ p * v \in Int /\ Digits * sum \in Int
                BY <1>1, <3>4, <3>5
            <4> DEFINE a == p * v
                       b == Digits * sum
            <4>2. p * w = Grain * a /\ Digits * exact = Grain * b /\ x = a - b /\ a \in Int /\ b \in Int
                BY <3>1, <3>4, <4>1
            <4> HIDE DEF a, b, x
            <4>3. Grain * (a - b) = Grain * a - Grain * b
                BY <1>1, <4>2
            <4> QED BY <4>2, <4>3
        <3> HIDE DEF x
        <3>7. Grain * x \in -(p * (Highest * n)) .. p * (Highest * n)
            BY <1>1, <3>3, WithinRounding
        <3> QED BY <1>1, <3>6, <3>7, Zenon DEF w, exact
    <2> QED BY <1>3, <1>4, <2>3, <2>4, <2>5, <2>6, Zenon DEF ReadingsFollowTheStock
<1>5. CASE ~HasOperations(log)
    <2>1. \A t : StockAt(t) = InForce(t)
        BY <1>5 DEF StockAt
    <2>2. stock = LevelsInForce /\ {StockAt(t) : t \in Instants} = {InForce(t) : t \in Instants}
        BY <2>1 DEF LevelsInForce
    <2>3. AggregateCarryOver("latest", TRUE, TRUE) = Digits * StockAt(To - 1)
        <3>1. AggregateCarryOver("latest", TRUE, TRUE) = Digits * LastReportedLevel(log)
            BY <1>5, ReportsAreRead, Zenon
        <3>2. LastReportedLevel(log) = InForce(To - 1)
            BY <1>5, LatestLevel, Zenon
        <3> QED BY <2>1, <3>1, <3>2
    <2>4. OneReportAtATime =>
              AggregateCarryOver("max", TRUE, TRUE) = Digits * Max({0} \cup {StockAt(t) : t \in Instants})
        <3>1. AggregateCarryOver("max", TRUE, TRUE) = Digits * PeakReportedLevel(log)
            BY <1>5, ReportsAreRead, Zenon
        <3>2. OneReportAtATime => PeakReportedLevel(log) = Max({0} \cup {InForce(t) : t \in Instants})
            BY <1>5, PeakLevel, Zenon
        <3> QED BY <2>2, <3>1, <3>2, Zenon
    <2>5. p * AggregateCarryOver("weighted_sum", TRUE, TRUE) - Digits * SumFunction(stock)
          \in -Rounding .. Rounding
        <3> DEFINE w == AggregateCarryOver("weighted_sum", TRUE, TRUE)
        <3>1. w = WeightReportedLevels(log)
            BY <1>5, ReportsAreRead, Zenon
        <3>2. SumFunction(stock) = SumFunctionOnSet(LevelsInForce, Instants)
            BY <1>2, <2>2, Zenon
        <3>3. \A k \in 1 .. n : Size(SortedByTime(log)[k].level) <= Highest
            <4> SUFFICES ASSUME NEW k \in 1 .. n PROVE Size(SortedByTime(log)[k].level) <= Highest
                OBVIOUS
            <4>1. SortedByTime(log)[k] = log[Placed(TimesOf(log), k)] /\ Placed(TimesOf(log), k) \in DOMAIN log
                BY SortedEvents
            <4>2. log[Placed(TimesOf(log), k)].op = "report"
                BY <1>5, <4>1 DEF HasOperations
            <4> QED BY <4>1, <4>2, HighestIs
        <3>4. p * WeightReportedLevels(log) - Digits * SumFunctionOnSet(LevelsInForce, Instants)
              \in -(p * (Highest * n)) .. p * (Highest * n)
            BY <1>1, <1>5, <3>3, LevelsWeigh
        <3> HIDE DEF w, p, n
        <3>5. p * w - Digits * SumFunction(stock) \in -(p * (Highest * n)) .. p * (Highest * n)
            BY <3>1, <3>2, <3>4, Zenon
        <3> QED BY <1>1, <3>5, Zenon DEF w
    <2> QED BY <1>3, <1>5, <2>3, <2>4, <2>5, Zenon DEF ReadingsFollowTheStock
<1> QED BY <1>4, <1>5

\* However late and in whatever order the events came, what a carry-over meter is
\* billed for is the stock that the events tell of: the replay, the sweep over the
\* edges and the weighing of AggregateCarryOver compute what they are meant to.
THEOREM ReadingsAreTheStock == Spec => []ReadingsFollowTheStock
<1>1. Spec => []RatingInv
    BY RatingInit, RatingStep, PTL DEF Spec
<1>2. RatingInv => ReadingsFollowTheStock
    BY ReadingIsTheStock DEF RatingInv
<1> QED BY <1>1, <1>2, PTL

=============================================================================
