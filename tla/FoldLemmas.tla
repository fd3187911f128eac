----------------------------- MODULE FoldLemmas -----------------------------
(***************************************************************************)
(* Lemmas about the operators that the modules of amounts are built from:  *)
(* folds over finite sets, sums, and the ranks of a finite order.          *)
(*                                                                         *)
(* The folds of the community modules are recursive functions, and the     *)
(* induction theorems of the library take an operator that no installed    *)
(* prover can instantiate.  The inductions here are over sets instead: the *)
(* subsets for which a statement holds are a set, and a well-founded order *)
(* has a least element outside of it.                                      *)
(***************************************************************************)
EXTENDS Integers, Sequences, FiniteSets, SequencesExt, FiniteSetsExt, Functions,
        FiniteSetTheorems, WellFoundedInduction, TLAPS

\* What holds of a finite set if it holds of all its strict subsets, holds.
LEMMA SubsetInduction ==
    ASSUME NEW S, IsFiniteSet(S), NEW Good,
           \A s \in SUBSET S : (\A t \in SUBSET s : t # s => t \in Good) => s \in Good
    PROVE  \A s \in SUBSET S : s \in Good
<1> DEFINE Bad == (SUBSET S) \ Good
<1> SUFFICES ASSUME Bad # {} PROVE FALSE
    OBVIOUS
<1>1. IsWellFoundedOn(StrictSubsetOrdering(S), SUBSET S)
    <2>1. FiniteSubsetsOf(S) = SUBSET S
        BY FS_FiniteSubsetsOfFinite
    <2>2. IsWellFoundedOn(StrictSubsetOrdering(S), FiniteSubsetsOf(S))
        BY FS_StrictSubsetOrderingWellFounded
    <2> QED BY <2>1, <2>2
<1>2. \E s \in Bad : \A t \in Bad : ~(<<t, s>> \in StrictSubsetOrdering(S))
    <2>1. Bad \subseteq SUBSET S
        OBVIOUS
    <2> HIDE DEF Bad
    <2> QED BY <1>1, <2>1, WFMin
<1>3. PICK s \in Bad : \A t \in Bad : ~(<<t, s>> \in StrictSubsetOrdering(S))
    BY <1>2
<1>4. ASSUME NEW t \in SUBSET s, t # s PROVE t \in Good
    <2>1. t \in SUBSET S /\ s \in SUBSET S
        OBVIOUS
    <2>2. <<t, s>> \in StrictSubsetOrdering(S)
        BY <1>4, <2>1 DEF StrictSubsetOrdering
    <2> QED BY <1>3, <2>1, <2>2
<1> QED BY <1>3, <1>4

----------------------------------------------------------------------------
(* Folds: h[s] is a fold of the subset s of S, which takes the elements in *)
(* the order of pick.                                                      *)

Folds(h, S, base, pick, op) ==
    \A s \in SUBSET S : h[s] = IF s = {} THEN base ELSE op[pick[s]][h[s \ {pick[s]}]]

Picks(S, pick) == \A s \in (SUBSET S) \ {{}} : pick[s] \in s

\* Two folds agree on the sets that they have in common.
LEMMA FoldsAgree ==
    ASSUME NEW S, IsFiniteSet(S), NEW base, NEW pick, Picks(S, pick), NEW op,
           NEW h, Folds(h, S, base, pick, op), NEW T \in SUBSET S, NEW k, Folds(k, T, base, pick, op)
    PROVE  \A s \in SUBSET T : h[s] = k[s]
<1> DEFINE Good == {s \in SUBSET T : h[s] = k[s]}
<1>1. IsFiniteSet(T)
    BY FS_Subset
<1>2. ASSUME NEW s \in SUBSET T, \A t \in SUBSET s : t # s => t \in Good PROVE s \in Good
    <2>1. CASE s = {}
        BY <2>1 DEF Folds
    <2>2. CASE s # {}
        <3>1. pick[s] \in s
            BY <2>2 DEF Picks
        <3>2. s \ {pick[s]} \in Good
            BY <1>2, <3>1
        <3>3. h[s] = op[pick[s]][h[s \ {pick[s]}]] /\ k[s] = op[pick[s]][k[s \ {pick[s]}]]
            BY <2>2 DEF Folds
        <3> QED BY <3>2, <3>3
    <2> QED BY <2>1, <2>2
<1> HIDE DEF Good
<1>3. \A s \in SUBSET T : s \in Good
    BY <1>1, <1>2, SubsetInduction
<1> QED BY <1>3 DEF Good

\* There is a fold, and its values are those of the steps.
LEMMA FoldsExist ==
    ASSUME NEW S, IsFiniteSet(S), NEW V, NEW base \in V, NEW pick, Picks(S, pick), NEW op,
           \A x \in S : \A v \in V : op[x][v] \in V
    PROVE  \E h \in [SUBSET S -> V] : Folds(h, S, base, pick, op)
<1> DEFINE Good == {s \in SUBSET S : \E h \in [SUBSET s -> V] : Folds(h, s, base, pick, op)}
<1>1. ASSUME NEW s \in SUBSET S, \A t \in SUBSET s : t # s => t \in Good PROVE s \in Good
    <2> DEFINE K(t) == CHOOSE h \in [SUBSET t -> V] : Folds(h, t, base, pick, op)
    <2>1. ASSUME NEW t \in SUBSET s, t # s PROVE K(t) \in [SUBSET t -> V] /\ Folds(K(t), t, base, pick, op)
        BY <1>1, <2>1
    <2> DEFINE last == IF s = {} THEN base ELSE op[pick[s]][K(s \ {pick[s]})[s \ {pick[s]}]]
    <2> DEFINE h == [t \in SUBSET s |-> IF t = s THEN last ELSE K(t)[t]]
    <2>2. last \in V
        <3>1. CASE s # {}
            <4>1. pick[s] \in s
                BY <3>1 DEF Picks
            <4>2. K(s \ {pick[s]}) \in [SUBSET (s \ {pick[s]}) -> V]
                BY <2>1, <4>1
            <4> HIDE DEF K
            <4> QED BY <3>1, <4>1, <4>2
        <3> QED BY <3>1
    <2> HIDE DEF K
    <2>3. h \in [SUBSET s -> V]
        BY <2>1, <2>2
    <2>4. ASSUME NEW t \in SUBSET s
          PROVE  h[t] = IF t = {} THEN base ELSE op[pick[t]][h[t \ {pick[t]}]]
        <3>1. CASE t = {}
            BY <2>1, <3>1 DEF Folds
        <3>2. CASE t # {}
            <4>1. pick[t] \in t /\ t \ {pick[t]} # t /\ t \ {pick[t]} \in SUBSET s /\ t \ {pick[t]} # s
                BY <3>2 DEF Picks
            <4>2. h[t \ {pick[t]}] = K(t \ {pick[t]})[t \ {pick[t]}]
                BY <4>1
            <4>3. CASE t = s
                BY <3>2, <4>2, <4>3
            <4>4. CASE t # s
                <5>1. h[t] = K(t)[t] /\ Folds(K(t), t, base, pick, op)
                    BY <2>1, <4>4
                <5>2. K(t)[t] = op[pick[t]][K(t)[t \ {pick[t]}]]
                    BY <3>2, <5>1 DEF Folds
                <5>3. K(t)[t \ {pick[t]}] = K(t \ {pick[t]})[t \ {pick[t]}]
                    <6>1. IsFiniteSet(t) /\ Picks(t, pick) /\ t \ {pick[t]} \in SUBSET t
                        BY FS_Subset DEF Picks
                    <6>2. Folds(K(t \ {pick[t]}), t \ {pick[t]}, base, pick, op)
                        BY <2>1, <4>1
                    <6> QED BY <5>1, <6>1, <6>2, FoldsAgree
                <5> QED BY <3>2, <4>2, <5>1, <5>2, <5>3
            <4> QED BY <4>3, <4>4
        <3> QED BY <3>1, <3>2
    <2> HIDE DEF h
    <2>5. Folds(h, s, base, pick, op)
        BY <2>4 DEF Folds
    <2> QED BY <2>3, <2>5
<1> HIDE DEF Good
<1>2. \A s \in SUBSET S : s \in Good
    BY <1>1, SubsetInduction
<1> QED BY <1>2 DEF Good

----------------------------------------------------------------------------
(* Sums of integers.                                                       *)

AnyOf(s) == CHOOSE x \in s : TRUE

\* The recursive function in the definitions of SumFunctionOnSet and MapThenSumSet.
SumsUp(h, g, S) ==
    h = [s \in SUBSET S |-> IF s = {} THEN 0 ELSE g[AnyOf(s)] + h[s \ {AnyOf(s)}]]

IntegerOn(g, S) == \A x \in S : g[x] \in Int

LEMMA SumsExist ==
    ASSUME NEW S, IsFiniteSet(S), NEW g, IntegerOn(g, S)
    PROVE  \E h \in [SUBSET S -> Int] : SumsUp(h, g, S)
<1> DEFINE pick == [s \in (SUBSET S) \ {{}} |-> AnyOf(s)]
<1> DEFINE op == [x \in S |-> [v \in Int |-> g[x] + v]]
<1>1. Picks(S, pick)
    BY DEF Picks, AnyOf
<1>2. \A x \in S : \A v \in Int : op[x][v] \in Int
    BY DEF IntegerOn
<1>3. \E h \in [SUBSET S -> Int] : Folds(h, S, 0, pick, op)
    <2>1. 0 \in Int
        OBVIOUS
    <2> HIDE DEF pick, op
    <2> QED BY <1>1, <1>2, <2>1, FoldsExist, Zenon
<1>4. ASSUME NEW h \in [SUBSET S -> Int], Folds(h, S, 0, pick, op) PROVE SumsUp(h, g, S)
    <2>1. ASSUME NEW s \in SUBSET S, s # {} PROVE h[s] = g[AnyOf(s)] + h[s \ {AnyOf(s)}]
        <3>1. AnyOf(s) \in S /\ pick[s] = AnyOf(s) /\ h[s \ {AnyOf(s)}] \in Int
            BY <2>1 DEF AnyOf
        <3>2. h[s] = op[pick[s]][h[s \ {pick[s]}]]
            BY <1>4, <2>1 DEF Folds
        <3> QED BY <3>1, <3>2
    <2>2. h[{}] = 0
        BY <1>4 DEF Folds
    <2>3. h = [s \in SUBSET S |-> h[s]]
        OBVIOUS
    <2> QED BY <2>1, <2>2, <2>3 DEF SumsUp
<1> QED BY <1>3, <1>4

LEMMA SumsAgree ==
    ASSUME NEW S, IsFiniteSet(S), NEW g, NEW h, SumsUp(h, g, S),
           NEW T, NEW f, NEW k, SumsUp(k, f, T), \A x \in S \cap T : f[x] = g[x]
    PROVE  \A s \in SUBSET (S \cap T) : h[s] = k[s]
<1> DEFINE Good == {s \in SUBSET (S \cap T) : h[s] = k[s]}
<1>1. IsFiniteSet(S \cap T)
    BY FS_Subset
<1>2. ASSUME NEW s \in SUBSET (S \cap T), \A t \in SUBSET s : t # s => t \in Good PROVE s \in Good
    <2>1. CASE s = {}
        BY <2>1 DEF SumsUp
    <2>2. CASE s # {}
        <3>1. AnyOf(s) \in s
            BY <2>2 DEF AnyOf
        <3>2. h[s \ {AnyOf(s)}] = k[s \ {AnyOf(s)}] /\ f[AnyOf(s)] = g[AnyOf(s)]
            BY <1>2, <3>1
        <3>3. h[s] = g[AnyOf(s)] + h[s \ {AnyOf(s)}] /\ k[s] = f[AnyOf(s)] + k[s \ {AnyOf(s)}]
            BY <2>2 DEF SumsUp
        <3> QED BY <3>2, <3>3
    <2> QED BY <2>1, <2>2
<1> HIDE DEF Good
<1>3. \A s \in SUBSET (S \cap T) : s \in Good
    BY <1>1, <1>2, SubsetInduction
<1> QED BY <1>3 DEF Good

\* Whatever function satisfies the recursion gives the sum.
LEMMA SumValue ==
    ASSUME NEW S, IsFiniteSet(S), NEW g, NEW h, SumsUp(h, g, S)
    PROVE  SumFunctionOnSet(g, S) = h[S]
<1> DEFINE H == CHOOSE k : SumsUp(k, g, S)
<1>1. SumsUp(H, g, S)
    OBVIOUS
<1>2. SumFunctionOnSet(g, S) = H[S]
    BY Zenon DEF SumFunctionOnSet, FoldFunctionOnSet, MapThenFoldSet, SumsUp, AnyOf
<1> HIDE DEF H
<1>3. H[S] = h[S]
    BY <1>1, SumsAgree
<1> QED BY <1>2, <1>3

LEMMA SumType ==
    ASSUME NEW S, IsFiniteSet(S), NEW g, IntegerOn(g, S)
    PROVE  SumFunctionOnSet(g, S) \in Int
<1>1. PICK h \in [SUBSET S -> Int] : SumsUp(h, g, S)
    BY SumsExist
<1>2. SumFunctionOnSet(g, S) = h[S]
    BY <1>1, SumValue
<1> QED BY <1>2

LEMMA SumEmpty ==
    ASSUME NEW g
    PROVE  SumFunctionOnSet(g, {}) = 0
<1>1. IsFiniteSet({}) /\ IntegerOn(g, {})
    BY FS_EmptySet DEF IntegerOn
<1>2. PICK h : SumsUp(h, g, {})
    BY <1>1, SumsExist
<1>3. h[{}] = 0
    BY <1>2 DEF SumsUp
<1> QED BY <1>1, <1>2, <1>3, SumValue

\* The sum over a subset is a value of the same recursion.
LEMMA SumOfSubset ==
    ASSUME NEW S, IsFiniteSet(S), NEW g, NEW h, SumsUp(h, g, S), IntegerOn(g, S), NEW s \in SUBSET S
    PROVE  SumFunctionOnSet(g, s) = h[s]
<1>1. IsFiniteSet(s) /\ IntegerOn(g, s) /\ S \cap s = s
    BY FS_Subset DEF IntegerOn
<1>2. PICK k : SumsUp(k, g, s)
    BY <1>1, SumsExist
<1>3. h[s] = k[s]
    BY <1>1, <1>2, SumsAgree
<1> QED BY <1>1, <1>2, <1>3, SumValue

\* The order does not matter: any element may be taken first.
LEMMA SumRemove ==
    ASSUME NEW S, IsFiniteSet(S), NEW g, IntegerOn(g, S)
    PROVE  \A y \in S : SumFunctionOnSet(g, S) = g[y] + SumFunctionOnSet(g, S \ {y})
<1>1. PICK h \in [SUBSET S -> Int] : SumsUp(h, g, S)
    BY SumsExist
<1> DEFINE Good == {s \in SUBSET S : \A y \in s : h[s] = g[y] + h[s \ {y}]}
<1>2. ASSUME NEW s \in SUBSET S, \A t \in SUBSET s : t # s => t \in Good PROVE s \in Good
    <2> SUFFICES ASSUME NEW y \in s PROVE h[s] = g[y] + h[s \ {y}]
        OBVIOUS
    <2> DEFINE x == AnyOf(s)
    <2>1. x \in s
        BY DEF AnyOf
    <2>2. h[s] = g[x] + h[s \ {x}]
        BY <1>1 DEF SumsUp
    <2>3. CASE x = y
        BY <2>2, <2>3
    <2>4. CASE x # y
        <3>1. s \ {x} \in Good /\ s \ {y} \in Good /\ y \in s \ {x} /\ x \in s \ {y}
            BY <1>2, <2>1, <2>4
        <3>2. h[s \ {x}] = g[y] + h[(s \ {x}) \ {y}] /\ h[s \ {y}] = g[x] + h[(s \ {y}) \ {x}]
            BY <3>1
        <3>3. (s \ {x}) \ {y} = (s \ {y}) \ {x}
            OBVIOUS
        <3>4. g[x] \in Int /\ g[y] \in Int /\ h[(s \ {y}) \ {x}] \in Int
            BY <2>1, <1>1 DEF IntegerOn
        <3>5. h[s \ {x}] = g[y] + h[(s \ {y}) \ {x}]
            BY <3>2, <3>3
        <3> HIDE DEF Good, x
        <3> QED BY <2>2, <3>2, <3>4, <3>5
    <2> QED BY <2>3, <2>4
<1> HIDE DEF Good
<1>3. S \in Good
    BY <1>2, SubsetInduction
<1> TAKE y \in S
<1>4. h[S] = g[y] + h[S \ {y}]
    BY <1>3 DEF Good
<1>5. SumFunctionOnSet(g, S) = h[S] /\ SumFunctionOnSet(g, S \ {y}) = h[S \ {y}]
    BY <1>1, SumOfSubset
<1> QED BY <1>4, <1>5

\* What the induction over a sum needs of its last element.
LEMMA SumSplits ==
    ASSUME NEW S, IsFiniteSet(S), NEW g, IntegerOn(g, S), NEW s \in SUBSET S, NEW y \in s
    PROVE  /\ SumFunctionOnSet(g, s) = g[y] + SumFunctionOnSet(g, s \ {y})
           /\ g[y] \in Int /\ SumFunctionOnSet(g, s) \in Int /\ SumFunctionOnSet(g, s \ {y}) \in Int
<1>1. IsFiniteSet(s) /\ IsFiniteSet(s \ {y}) /\ IntegerOn(g, s) /\ IntegerOn(g, s \ {y})
    BY FS_Subset DEF IntegerOn
<1> QED BY <1>1, SumRemove, SumType DEF IntegerOn

\* The sum of sums.
LEMMA SumAdds ==
    ASSUME NEW S, IsFiniteSet(S), NEW f, IntegerOn(f, S), NEW g, IntegerOn(g, S), NEW k,
           \A x \in S : k[x] = f[x] + g[x]
    PROVE  SumFunctionOnSet(k, S) = SumFunctionOnSet(f, S) + SumFunctionOnSet(g, S)
<1> DEFINE Splits(m) ==
        \A s \in SUBSET S : \A y \in s :
            /\ SumFunctionOnSet(m, s) = m[y] + SumFunctionOnSet(m, s \ {y})
            /\ m[y] \in Int /\ SumFunctionOnSet(m, s \ {y}) \in Int
<1>a. IntegerOn(k, S)
    BY DEF IntegerOn
<1>b. Splits(f) /\ Splits(g) /\ Splits(k)
    <2>1. ASSUME NEW m, IntegerOn(m, S) PROVE Splits(m)
        <3> SUFFICES ASSUME NEW s \in SUBSET S, NEW y \in s
                     PROVE  /\ SumFunctionOnSet(m, s) = m[y] + SumFunctionOnSet(m, s \ {y})
                            /\ m[y] \in Int /\ SumFunctionOnSet(m, s \ {y}) \in Int
            OBVIOUS
        <3> QED BY <2>1, SumSplits
    <2> HIDE DEF Splits
    <2> QED BY <1>a, <2>1
<1> DEFINE Good == {s \in SUBSET S : SumFunctionOnSet(k, s) = SumFunctionOnSet(f, s) + SumFunctionOnSet(g, s)}
<1>1. ASSUME NEW s \in SUBSET S, \A t \in SUBSET s : t # s => t \in Good PROVE s \in Good
    <2>1. CASE s = {}
        BY <2>1, SumEmpty
    <2>2. CASE s # {}
        <3>1. PICK y \in s : TRUE
            BY <2>2
        <3>2. IsFiniteSet(s) /\ s \ {y} \in SUBSET S /\ y \in S
            BY <3>1, FS_Subset
        <3>3. s \ {y} \in Good
            BY <1>1, <3>1
        <3>4. SumFunctionOnSet(k, s \ {y}) = SumFunctionOnSet(f, s \ {y}) + SumFunctionOnSet(g, s \ {y})
            BY <3>3
        <3>5. /\ SumFunctionOnSet(k, s) = k[y] + SumFunctionOnSet(k, s \ {y})
              /\ SumFunctionOnSet(f, s) = f[y] + SumFunctionOnSet(f, s \ {y})
              /\ SumFunctionOnSet(g, s) = g[y] + SumFunctionOnSet(g, s \ {y})
            BY <1>b
        <3>6. /\ f[y] \in Int /\ SumFunctionOnSet(f, s \ {y}) \in Int
              /\ g[y] \in Int /\ SumFunctionOnSet(g, s \ {y}) \in Int
            BY <1>b
        <3>7. k[y] = f[y] + g[y]
            BY <3>2
        <3>8. SumFunctionOnSet(k, s) = SumFunctionOnSet(f, s) + SumFunctionOnSet(g, s)
            BY <3>4, <3>5, <3>6, <3>7
        <3> QED BY <3>8
    <2> QED BY <2>1, <2>2
<1> HIDE DEF Good
<1>2. S \in Good
    BY <1>1, SubsetInduction
<1> QED BY <1>2 DEF Good

\* The sum of multiples.
LEMMA SumScales ==
    ASSUME NEW S, IsFiniteSet(S), NEW g, IntegerOn(g, S), NEW c \in Int, NEW k,
           \A x \in S : k[x] = c * g[x]
    PROVE  SumFunctionOnSet(k, S) = c * SumFunctionOnSet(g, S)
<1>0. IntegerOn(k, S)
    BY DEF IntegerOn
<1> DEFINE Good == {s \in SUBSET S : SumFunctionOnSet(k, s) = c * SumFunctionOnSet(g, s)}
<1>1. ASSUME NEW s \in SUBSET S, \A t \in SUBSET s : t # s => t \in Good PROVE s \in Good
    <2>1. CASE s = {}
        BY <2>1, SumEmpty
    <2>2. CASE s # {}
        <3>1. PICK y \in s : TRUE
            BY <2>2
        <3>2. IsFiniteSet(s) /\ s \ {y} \in SUBSET S /\ y \in S
            BY <3>1, FS_Subset
        <3>3. s \ {y} \in Good
            BY <1>1, <3>1
        <3>4. SumFunctionOnSet(k, s \ {y}) = c * SumFunctionOnSet(g, s \ {y})
            BY <3>3
        <3>0. SumFunctionOnSet(k, s) = k[y] + SumFunctionOnSet(k, s \ {y})
            BY <1>0, <3>1, SumSplits
        <3>5. /\ SumFunctionOnSet(g, s) = g[y] + SumFunctionOnSet(g, s \ {y})
              /\ g[y] \in Int /\ SumFunctionOnSet(g, s \ {y}) \in Int
            BY <3>1, SumSplits
        <3>6. k[y] = c * g[y]
            BY <3>2
        <3>7. ASSUME NEW a \in Int, NEW b \in Int PROVE c * (a + b) = c * a + c * b
            OBVIOUS
        <3>8. c * SumFunctionOnSet(g, s) = c * g[y] + c * SumFunctionOnSet(g, s \ {y})
            BY <3>5, <3>7
        <3>9. SumFunctionOnSet(k, s) = c * SumFunctionOnSet(g, s)
            BY <3>0, <3>4, <3>6, <3>8
        <3> QED BY <3>9
    <2> QED BY <2>1, <2>2
<1> HIDE DEF Good
<1>2. S \in Good
    BY <1>1, SubsetInduction
<1> QED BY <1>2 DEF Good

\* The sum of larger elements is larger.
LEMMA SumGrows ==
    ASSUME NEW S, IsFiniteSet(S), NEW f, IntegerOn(f, S), NEW g, IntegerOn(g, S),
           \A x \in S : f[x] <= g[x]
    PROVE  SumFunctionOnSet(f, S) <= SumFunctionOnSet(g, S)
<1> DEFINE Good == {s \in SUBSET S : SumFunctionOnSet(f, s) <= SumFunctionOnSet(g, s)}
<1>1. ASSUME NEW s \in SUBSET S, \A t \in SUBSET s : t # s => t \in Good PROVE s \in Good
    <2>1. CASE s = {}
        BY <2>1, SumEmpty
    <2>2. CASE s # {}
        <3>1. PICK y \in s : TRUE
            BY <2>2
        <3>2. IsFiniteSet(s) /\ s \ {y} \in SUBSET S /\ y \in S
            BY <3>1, FS_Subset
        <3>3. s \ {y} \in Good
            BY <1>1, <3>1
        <3>4. SumFunctionOnSet(f, s \ {y}) <= SumFunctionOnSet(g, s \ {y})
            BY <3>3
        <3>5. /\ SumFunctionOnSet(f, s) = f[y] + SumFunctionOnSet(f, s \ {y})
              /\ SumFunctionOnSet(g, s) = g[y] + SumFunctionOnSet(g, s \ {y})
              /\ f[y] \in Int /\ SumFunctionOnSet(f, s \ {y}) \in Int
              /\ g[y] \in Int /\ SumFunctionOnSet(g, s \ {y}) \in Int
            BY <3>1, SumSplits
        <3>6. f[y] <= g[y]
            BY <3>2
        <3>7. SumFunctionOnSet(f, s) <= SumFunctionOnSet(g, s)
            BY <3>4, <3>5, <3>6
        <3> QED BY <3>7
    <2> QED BY <2>1, <2>2
<1> HIDE DEF Good
<1>2. S \in Good
    BY <1>1, SubsetInduction
<1> QED BY <1>2 DEF Good

\* Counting is a sum.
LEMMA SumCounts ==
    ASSUME NEW S, IsFiniteSet(S), NEW g, NEW P, \A x \in S : g[x] = IF x \in P THEN 1 ELSE 0
    PROVE  SumFunctionOnSet(g, S) = Cardinality(S \cap P)
<1>0. IntegerOn(g, S)
    BY DEF IntegerOn
<1> DEFINE Good == {s \in SUBSET S : SumFunctionOnSet(g, s) = Cardinality(s \cap P)}
<1>1. ASSUME NEW s \in SUBSET S, \A t \in SUBSET s : t # s => t \in Good PROVE s \in Good
    <2>1. CASE s = {}
        BY <2>1, SumEmpty, FS_EmptySet
    <2>2. CASE s # {}
        <3>1. PICK y \in s : TRUE
            BY <2>2
        <3>2. IsFiniteSet(s) /\ s \ {y} \in SUBSET S /\ y \in S
            BY <3>1, FS_Subset
        <3>3. s \ {y} \in Good
            BY <1>1, <3>1
        <3>4. SumFunctionOnSet(g, s \ {y}) = Cardinality((s \ {y}) \cap P)
            BY <3>3
        <3>5. SumFunctionOnSet(g, s) = g[y] + SumFunctionOnSet(g, s \ {y})
            BY <1>0, <3>1, SumSplits
        <3>6. /\ (s \ {y}) \cap P = (s \cap P) \ {y}
              /\ IsFiniteSet(s \cap P)
            BY <3>2, FS_Subset
        <3>7. Cardinality((s \cap P) \ {y}) = Cardinality(s \cap P) - (IF y \in P THEN 1 ELSE 0)
            <4>1. Cardinality(s \cap P) \in Nat
                BY <3>6, FS_CardinalityType
            <4>2. Cardinality((s \cap P) \ {y}) =
                     IF y \in s \cap P THEN Cardinality(s \cap P) - 1 ELSE Cardinality(s \cap P)
                BY <3>6, FS_RemoveElement
            <4>3. CASE y \in P
                BY <4>1, <4>2, <4>3
            <4>4. CASE y \notin P
                BY <4>1, <4>2, <4>4
            <4> QED BY <4>3, <4>4
        <3>8. Cardinality(s \cap P) \in Nat
            BY <3>6, FS_CardinalityType
        <3>9. SumFunctionOnSet(g, s) = Cardinality(s \cap P)
            BY <3>2, <3>4, <3>5, <3>6, <3>7, <3>8
        <3> QED BY <3>9
    <2> QED BY <2>1, <2>2
<1> HIDE DEF Good
<1>2. S \in Good
    BY <1>1, SubsetInduction
<1> QED BY <1>2 DEF Good

\* Sums depend on their elements, and not on how they are written.
LEMMA SumSame ==
    ASSUME NEW S, IsFiniteSet(S), NEW f, IntegerOn(f, S), NEW g, \A x \in S : f[x] = g[x]
    PROVE  SumFunctionOnSet(f, S) = SumFunctionOnSet(g, S)
<1>1. IntegerOn(g, S)
    BY DEF IntegerOn
<1>2. SumFunctionOnSet(f, S) <= SumFunctionOnSet(g, S) /\ SumFunctionOnSet(g, S) <= SumFunctionOnSet(f, S)
    BY <1>1, SumGrows DEF IntegerOn
<1> QED BY <1>1, <1>2, SumType

\* Elements that are zero do not count.
LEMMA SumOfSupport ==
    ASSUME NEW S, IsFiniteSet(S), NEW g, IntegerOn(g, S), NEW T \in SUBSET S, \A x \in S \ T : g[x] = 0
    PROVE  SumFunctionOnSet(g, S) = SumFunctionOnSet(g, T)
<1> DEFINE Good == {s \in SUBSET S : SumFunctionOnSet(g, s) = SumFunctionOnSet(g, s \cap T)}
<1>1. ASSUME NEW s \in SUBSET S, \A t \in SUBSET s : t # s => t \in Good PROVE s \in Good
    <2>1. CASE s = {}
        BY <2>1
    <2>2. CASE s # {}
        <3>1. PICK y \in s : TRUE
            BY <2>2
        <3>2. IsFiniteSet(s) /\ s \ {y} \in SUBSET S /\ y \in S
            BY <3>1, FS_Subset
        <3>3. s \ {y} \in Good
            BY <1>1, <3>1
        <3>4. SumFunctionOnSet(g, s \ {y}) = SumFunctionOnSet(g, (s \ {y}) \cap T)
            BY <3>3
        <3>5. SumFunctionOnSet(g, s) = g[y] + SumFunctionOnSet(g, s \ {y}) /\ SumFunctionOnSet(g, s \ {y}) \in Int
            BY <3>1, SumSplits
        <3>6. CASE y \in T
            <4>1. /\ y \in s \cap T /\ s \cap T \in SUBSET S
                  /\ (s \cap T) \ {y} = (s \ {y}) \cap T
                BY <3>6
            <4>2. SumFunctionOnSet(g, s \cap T) = g[y] + SumFunctionOnSet(g, (s \cap T) \ {y})
                BY <4>1, SumSplits
            <4>3. SumFunctionOnSet(g, s) = SumFunctionOnSet(g, s \cap T)
                BY <3>4, <3>5, <4>1, <4>2
            <4> QED BY <4>3
        <3>7. CASE y \notin T
            <4>1. (s \ {y}) \cap T = s \cap T /\ g[y] = 0
                BY <3>2, <3>7
            <4>2. SumFunctionOnSet(g, s) = SumFunctionOnSet(g, s \ {y})
                BY <3>5, <4>1
            <4> QED BY <3>4, <4>1, <4>2
        <3> QED BY <3>6, <3>7
    <2> QED BY <2>1, <2>2
<1> HIDE DEF Good
<1>2. S \in Good
    BY <1>1, SubsetInduction
<1>3. S \cap T = T
    OBVIOUS
<1> QED BY <1>2, <1>3 DEF Good

\* A sum of natural numbers is one, and no less than any of them.
LEMMA SumOfNaturals ==
    ASSUME NEW S, IsFiniteSet(S), NEW g, \A x \in S : g[x] \in Nat
    PROVE  /\ SumFunctionOnSet(g, S) \in Nat
           /\ \A x \in S : g[x] <= SumFunctionOnSet(g, S)
<1> DEFINE zero == [x \in S |-> 0]
<1>1. IntegerOn(g, S)
    BY DEF IntegerOn
<1>2. ASSUME NEW T \in SUBSET S PROVE SumFunctionOnSet(g, T) \in Nat
    <2>1. IsFiniteSet(T) /\ IntegerOn(g, T) /\ IntegerOn(zero, T) /\ \A x \in T : zero[x] <= g[x]
        BY FS_Subset DEF IntegerOn
    <2>2. SumFunctionOnSet(zero, T) = 0
        <3>1. \A x \in T : zero[x] = IF x \in {} THEN 1 ELSE 0
            OBVIOUS
        <3> HIDE DEF zero
        <3>2. SumFunctionOnSet(zero, T) = Cardinality(T \cap {})
            BY <2>1, <3>1, SumCounts
        <3> QED BY <3>2, FS_EmptySet
    <2> HIDE DEF zero
    <2>3. SumFunctionOnSet(zero, T) <= SumFunctionOnSet(g, T) /\ SumFunctionOnSet(g, T) \in Int
        BY <2>1, SumGrows, SumType
    <2> QED BY <2>2, <2>3
<1>3. SumFunctionOnSet(g, S) \in Nat
    BY <1>2
<1>4. ASSUME NEW x \in S PROVE g[x] <= SumFunctionOnSet(g, S)
    <2>1. SumFunctionOnSet(g, S) = g[x] + SumFunctionOnSet(g, S \ {x})
        BY <1>1, SumRemove
    <2>2. SumFunctionOnSet(g, S \ {x}) \in Nat /\ g[x] \in Nat
        BY <1>2
    <2> QED BY <2>1, <2>2
<1> QED BY <1>3, <1>4

----------------------------------------------------------------------------
(* Ranks: how many elements of a finite order come before one of it.       *)

StrictOrder(R, S) ==
    /\ \A i \in S : <<i, i>> \notin R
    /\ \A i, j, k \in S : <<i, j>> \in R /\ <<j, k>> \in R => <<i, k>> \in R
    /\ \A i, j \in S : i # j => <<i, j>> \in R \/ <<j, i>> \in R

Rank(R, S, i) == Cardinality({j \in S : <<j, i>> \in R})

\* Ranks are numbers, and in the order of the elements.
LEMMA RankOrder ==
    ASSUME NEW S, IsFiniteSet(S), NEW R, StrictOrder(R, S)
    PROVE  /\ \A i \in S : Rank(R, S, i) \in 0 .. Cardinality(S) - 1
           /\ \A i, j \in S : <<i, j>> \in R <=> Rank(R, S, i) < Rank(R, S, j)
<1> DEFINE Before(i) == {j \in S : <<j, i>> \in R}
<1>1. Cardinality(S) \in Nat
    BY FS_CardinalityType
<1>2. ASSUME NEW i \in S PROVE IsFiniteSet(Before(i)) /\ Cardinality(Before(i)) \in Nat
    BY FS_Subset, FS_CardinalityType
<1>3. ASSUME NEW i \in S PROVE Cardinality(Before(i)) < Cardinality(S)
    <2>1. Before(i) \in SUBSET S /\ Before(i) # S
        BY DEF StrictOrder
    <2> HIDE DEF Before
    <2> QED BY <1>1, <1>2, <2>1, FS_Subset
<1>4. ASSUME NEW i \in S, NEW j \in S, <<i, j>> \in R PROVE Cardinality(Before(i)) < Cardinality(Before(j))
    <2>1. Before(i) \in SUBSET Before(j) /\ Before(i) # Before(j)
        BY <1>4 DEF StrictOrder
    <2> HIDE DEF Before
    <2> QED BY <1>2, <2>1, FS_Subset
<1>5. ASSUME NEW i \in S PROVE Rank(R, S, i) = Cardinality(Before(i))
    BY DEF Rank
<1> HIDE DEF Before
<1>6. ASSUME NEW i \in S PROVE Rank(R, S, i) \in 0 .. Cardinality(S) - 1
    BY <1>1, <1>2, <1>3, <1>5
<1>7. ASSUME NEW i \in S, NEW j \in S PROVE <<i, j>> \in R <=> Rank(R, S, i) < Rank(R, S, j)
    <2>1. CASE <<i, j>> \in R
        BY <1>4, <1>5, <2>1
    <2>2. CASE i = j
        BY <1>2, <1>5, <2>2 DEF StrictOrder
    <2>3. CASE <<j, i>> \in R
        <3>1. <<i, j>> \notin R
            BY <2>3 DEF StrictOrder
        <3> QED BY <1>2, <1>4, <1>5, <2>3, <3>1
    <2> QED BY <2>1, <2>2, <2>3 DEF StrictOrder
<1> QED BY <1>6, <1>7

\* Every rank is taken once.
LEMMA RankIsTaken ==
    ASSUME NEW S, IsFiniteSet(S), NEW R, StrictOrder(R, S)
    PROVE  /\ \A k \in 0 .. Cardinality(S) - 1 : \E i \in S : Rank(R, S, i) = k
           /\ \A i, j \in S : Rank(R, S, i) = Rank(R, S, j) => i = j
<1> DEFINE n == Cardinality(S)
<1> DEFINE f == [i \in S |-> Rank(R, S, i)]
<1>1. n \in Nat
    BY FS_CardinalityType
<1>2. \A i, j \in S : Rank(R, S, i) = Rank(R, S, j) => i = j
    <2> SUFFICES ASSUME NEW i \in S, NEW j \in S, i # j PROVE Rank(R, S, i) # Rank(R, S, j)
        OBVIOUS
    <2>1. Rank(R, S, i) \in Int /\ Rank(R, S, j) \in Int
        BY RankOrder
    <2>2. Rank(R, S, i) < Rank(R, S, j) \/ Rank(R, S, j) < Rank(R, S, i)
        BY RankOrder DEF StrictOrder
    <2> QED BY <2>1, <2>2
<1>3. f \in [S -> 0 .. n - 1]
    BY RankOrder
<1>4. f \in Injection(S, 0 .. n - 1)
    BY <1>2, <1>3 DEF Injection, IsInjective
<1>5. IsFiniteSet(0 .. n - 1) /\ Cardinality(0 .. n - 1) = n
    BY <1>1, FS_Interval
<1>6. f \in Surjection(S, 0 .. n - 1)
    <2> HIDE DEF f, n
    <2>1. Cardinality(S) = Cardinality(0 .. n - 1)
        BY <1>5 DEF n
    <2> QED BY <1>4, <1>5, <2>1, FS_Injection
<1>7. ASSUME NEW k \in 0 .. n - 1 PROVE \E i \in S : Rank(R, S, i) = k
    <2>1. \E i \in S : f[i] = k
        <3> HIDE DEF f, n
        <3> QED BY <1>6 DEF Surjection
    <2> QED BY <2>1
<1> QED BY <1>2, <1>7

\* As many elements as the number says have a lower rank.
LEMMA RanksBelow ==
    ASSUME NEW S, IsFiniteSet(S), NEW R, StrictOrder(R, S), NEW k \in 0 .. Cardinality(S)
    PROVE  Cardinality({i \in S : Rank(R, S, i) < k}) = k
<1> DEFINE A == {i \in S : Rank(R, S, i) < k}
<1> DEFINE f == [i \in A |-> Rank(R, S, i)]
<1>1. Cardinality(S) \in Nat /\ k \in Nat
    BY FS_CardinalityType
<1>2. f \in [A -> 0 .. k - 1]
    BY <1>1, RankOrder
<1>3. f \in Injection(A, 0 .. k - 1)
    BY <1>2, RankIsTaken DEF Injection, IsInjective
<1>4. f \in Surjection(A, 0 .. k - 1)
    <2>1. ASSUME NEW m \in 0 .. k - 1 PROVE \E i \in A : f[i] = m
        <3>1. m \in 0 .. Cardinality(S) - 1 /\ m < k
            BY <1>1
        <3>2. PICK i \in S : Rank(R, S, i) = m
            BY <3>1, RankIsTaken
        <3> QED BY <3>1, <3>2
    <2> QED BY <1>2, <2>1 DEF Surjection
<1>5. IsFiniteSet(0 .. k - 1) /\ Cardinality(0 .. k - 1) = k
    <2>1. 0 \in Int /\ k - 1 \in Int
        BY <1>1
    <2>2. /\ IsFiniteSet(0 .. k - 1)
          /\ Cardinality(0 .. k - 1) = IF 0 > k - 1 THEN 0 ELSE (k - 1) - 0 + 1
        BY <2>1, FS_Interval
    <2> QED BY <1>1, <2>2
<1> HIDE DEF f, A
<1>6. Cardinality(A) = Cardinality(0 .. k - 1)
    BY <1>3, <1>4, <1>5, FS_Injection
<1> QED BY <1>5, <1>6 DEF A

----------------------------------------------------------------------------
(* Prefixes: what a fold from the left needs. *)

LEMMA MaxIs ==
    ASSUME NEW S \in SUBSET Int, NEW m \in S, \A x \in S : m >= x PROVE Max(S) = m
<1>1. \A x \in S : (\A y \in S : x >= y) => x = m
    OBVIOUS
<1> QED BY <1>1 DEF Max

LEMMA MinIs ==
    ASSUME NEW S \in SUBSET Int, NEW m \in S, \A x \in S : m <= x PROVE Min(S) = m
<1>1. \A x \in S : (\A y \in S : x <= y) => x = m
    OBVIOUS
<1> QED BY <1>1 DEF Min

LEMMA MaxOfPair ==
    ASSUME NEW a \in Int, NEW b \in Int PROVE Max({a, b}) = IF a >= b THEN a ELSE b
<1>1. CASE a >= b
    BY <1>1, MaxIs
<1>2. CASE ~(a >= b)
    <2>1. Max({a, b}) = b
        BY <1>2, MaxIs
    <2> QED BY <1>2, <2>1
<1> QED BY <1>1, <1>2

LEMMA MinOfPair ==
    ASSUME NEW a \in Int, NEW b \in Int PROVE Min({a, b}) = IF a <= b THEN a ELSE b
<1>1. CASE a <= b
    BY <1>1, MinIs
<1>2. CASE ~(a <= b)
    <2>1. Min({a, b}) = b
        BY <1>2, MinIs
    <2> QED BY <1>2, <2>1
<1> QED BY <1>1, <1>2

\* A finite set of integers that is not empty has a largest element.
LEMMA MaxExists ==
    ASSUME NEW S \in SUBSET Int, IsFiniteSet(S), S # {}
    PROVE  Max(S) \in S /\ \A x \in S : Max(S) >= x
<1> DEFINE Good == {s \in SUBSET S : s # {} => \E m \in s : \A x \in s : m >= x}
<1>1. ASSUME NEW s \in SUBSET S, \A t \in SUBSET s : t # s => t \in Good PROVE s \in Good
    <2> SUFFICES ASSUME s # {} PROVE \E m \in s : \A x \in s : m >= x
        OBVIOUS
    <2>1. PICK y \in s : TRUE
        OBVIOUS
    <2>2. CASE s = {y}
        BY <2>2
    <2>3. CASE s # {y}
        <3>1. s \ {y} \in SUBSET s /\ s \ {y} # s /\ s \ {y} # {}
            BY <2>1, <2>3
        <3>2. PICK m \in s \ {y} : \A x \in s \ {y} : m >= x
            BY <1>1, <3>1
        <3>3. m \in s /\ y \in Int /\ m \in Int
            BY <2>1
        <3>4. CASE m >= y
            BY <3>2, <3>3, <3>4
        <3>5. CASE ~(m >= y)
            <4>1. \A x \in s : y >= x
                BY <3>2, <3>3, <3>5
            <4> QED BY <2>1, <4>1
        <3> QED BY <3>4, <3>5
    <2> QED BY <2>2, <2>3
<1> HIDE DEF Good
<1>2. S \in Good
    BY <1>1, SubsetInduction
<1>3. PICK m \in S : \A x \in S : m >= x
    BY <1>2 DEF Good
<1> QED BY <1>3, MaxIs

LEMMA PrefixInduction ==
    ASSUME NEW n \in Nat, NEW Good, 0 \in Good,
           \A k \in 1 .. n : k - 1 \in Good => k \in Good
    PROVE  \A k \in 0 .. n : k \in Good
<1> DEFINE Fine == {s \in SUBSET (1 .. n) : \A k \in 0 .. n : s = 1 .. k => k \in Good}
<1>1. ASSUME NEW s \in SUBSET (1 .. n), \A t \in SUBSET s : t # s => t \in Fine PROVE s \in Fine
    <2> SUFFICES ASSUME NEW k \in 0 .. n, s = 1 .. k PROVE k \in Good
        OBVIOUS
    <2>1. CASE k = 0
        BY <2>1
    <2>2. CASE k # 0
        <3>1. k - 1 \in 0 .. n /\ k \in 1 .. n
            BY <2>2
        <3>2. 1 .. k - 1 \in SUBSET s /\ k \in s /\ k \notin 1 .. k - 1
            BY <3>1
        <3>3. 1 .. k - 1 \in Fine
            BY <1>1, <3>2
        <3> QED BY <3>1, <3>3
    <2> QED BY <2>1, <2>2
<1> HIDE DEF Fine
<1>2. IsFiniteSet(1 .. n)
    <2>1. 1 \in Int /\ n \in Int
        OBVIOUS
    <2> QED BY <2>1, FS_Interval
<1>3. \A s \in SUBSET (1 .. n) : s \in Fine
    BY <1>1, <1>2, SubsetInduction
<1> TAKE k \in 0 .. n
<1>4. 1 .. k \in SUBSET (1 .. n)
    OBVIOUS
<1> QED BY <1>3, <1>4 DEF Fine

Largest(n) == [s \in (SUBSET (1 .. n)) \ {{}} |-> Max(s)]

\* Of the first places the last one is the largest.
LEMMA LargestType ==
    ASSUME NEW n \in Nat
    PROVE  /\ IsFiniteSet(1 .. n) /\ Picks(1 .. n, Largest(n))
           /\ \A k \in 1 .. n : Max(1 .. k) = k /\ (1 .. k) \ {k} = 1 .. k - 1 /\ 1 .. k \in SUBSET (1 .. n)
<1>1. IsFiniteSet(1 .. n)
    <2>1. 1 \in Int /\ n \in Int
        OBVIOUS
    <2> QED BY <2>1, FS_Interval
<1>2. ASSUME NEW s \in (SUBSET (1 .. n)) \ {{}} PROVE Max(s) \in s
    <2>0. IsFiniteSet(s)
        <3>1. s \in SUBSET (1 .. n)
            OBVIOUS
        <3> QED BY <1>1, <3>1, FS_Subset, Zenon
    <2>1. IsFiniteSet(s) /\ s \in SUBSET Int /\ s # {}
        BY <2>0
    <2> QED BY <2>1, MaxExists
<1>3. ASSUME NEW k \in 1 .. n PROVE Max(1 .. k) = k /\ (1 .. k) \ {k} = 1 .. k - 1 /\ 1 .. k \in SUBSET (1 .. n)
    <2>1. 1 .. k \in SUBSET Int /\ k \in 1 .. k /\ \A x \in 1 .. k : k >= x
        OBVIOUS
    <2>2. Max(1 .. k) = k
        BY <2>1, MaxIs
    <2> QED BY <2>2
<1> QED BY <1>1, <1>2, <1>3 DEF Picks, Largest

LEMMA LargestIs ==
    ASSUME NEW n \in Nat, NEW s \in SUBSET (1 .. n), s # {}
    PROVE  Max(s) \in s /\ Largest(n)[s] = Max(s)
<1>1. s \in (SUBSET (1 .. n)) \ {{}}
    OBVIOUS
<1>2. Largest(n)[s] = Max(s)
    BY <1>1 DEF Largest
<1>3. Largest(n)[s] \in s
    BY <1>1, LargestType, Zenon DEF Picks
<1> QED BY <1>2, <1>3

LEMMA FirstPlaces ==
    ASSUME NEW n \in Nat, NEW k \in 1 .. n
    PROVE  /\ Max(1 .. k) = k /\ (1 .. k) \ {k} = 1 .. k - 1
           /\ 1 .. k \in SUBSET (1 .. n) /\ 1 .. k # {} /\ k \in 0 .. n
<1>1. Max(1 .. k) = k /\ (1 .. k) \ {k} = 1 .. k - 1 /\ 1 .. k \in SUBSET (1 .. n)
    BY LargestType, Zenon
<1> QED BY <1>1

\* There is a fold from the left, and so there are the values of its steps.
LEMMA LeftFoldExists ==
    ASSUME NEW n \in Nat, NEW V, NEW base \in V, NEW op,
           \A k \in 1 .. n : \A v \in V : op[k][v] \in V
    PROVE  \E h \in [SUBSET (1 .. n) -> V] : Folds(h, 1 .. n, base, Largest(n), op)
BY LargestType, FoldsExist

\* What the fold has become after each of the first n places.
Steps(g, n, base, op) == g[0] = base /\ \A k \in 1 .. n : g[k] = op[k][g[k - 1]]

LEMMA StepsExist ==
    ASSUME NEW n \in Nat, NEW V, NEW base \in V, NEW op,
           \A k \in 1 .. n : \A v \in V : op[k][v] \in V
    PROVE  \E g \in [0 .. n -> V] : Steps(g, n, base, op)
<1>1. PICK h \in [SUBSET (1 .. n) -> V] : Folds(h, 1 .. n, base, Largest(n), op)
    BY LeftFoldExists
<1> DEFINE g == [k \in 0 .. n |-> h[1 .. k]]
<1>2. g \in [0 .. n -> V]
    <2>1. \A k \in 0 .. n : 1 .. k \in SUBSET (1 .. n)
        OBVIOUS
    <2> QED BY <2>1
<1>3. g[0] = base
    <2>1. 1 .. 0 = {} /\ {} \in SUBSET (1 .. n)
        OBVIOUS
    <2> QED BY <1>1, <2>1 DEF Folds
<1>4. ASSUME NEW k \in 1 .. n PROVE g[k] = op[k][g[k - 1]]
    <2>1. 1 .. k \in (SUBSET (1 .. n)) \ {{}} /\ Max(1 .. k) = k /\ (1 .. k) \ {k} = 1 .. k - 1
        BY LargestType
    <2>2. Largest(n)[1 .. k] = k
        BY <2>1 DEF Largest
    <2>3. h[1 .. k] = op[k][h[(1 .. k) \ {k}]]
        BY <1>1, <2>1, <2>2 DEF Folds
    <2>4. h[1 .. k] = op[k][h[1 .. k - 1]]
        BY <2>1, <2>3, Zenon
    <2>5. k \in 0 .. n /\ k - 1 \in 0 .. n
        OBVIOUS
    <2>6. g[k] = h[1 .. k] /\ g[k - 1] = h[1 .. k - 1]
        BY <2>5, Zenon
    <2> QED BY <2>4, <2>6, Zenon
<1> HIDE DEF g
<1> QED BY <1>2, <1>3, <1>4 DEF Steps

----------------------------------------------------------------------------
(* Images, and a set as a sequence. *)

LEMMA ImageIsFinite ==
    ASSUME NEW S, IsFiniteSet(S), NEW f
    PROVE  IsFiniteSet({f[x] : x \in S}) /\ Cardinality({f[x] : x \in S}) <= Cardinality(S)
<1> DEFINE T == {f[x] : x \in S}
           g == [x \in S |-> f[x]]
<1>1. g \in Surjection(S, T)
    BY DEF Surjection
<1> HIDE DEF T, g
<1>2. IsFiniteSet(T) /\ Cardinality(T) <= Cardinality(S)
    BY <1>1, FS_Surjection
<1> QED BY <1>2 DEF T

LEMMA ImageOfInjection ==
    ASSUME NEW S, IsFiniteSet(S), NEW f, \A x, y \in S : f[x] = f[y] => x = y
    PROVE  Cardinality({f[x] : x \in S}) = Cardinality(S)
<1> DEFINE T == {f[x] : x \in S}
           g == [x \in S |-> f[x]]
<1>1. g \in Surjection(S, T)
    BY DEF Surjection
<1>2. g \in Injection(S, T)
    BY DEF Injection, IsInjective
<1> HIDE DEF T, g
<1>3. Cardinality(T) = Cardinality(S)
    BY <1>1, <1>2, FS_Surjection
<1> QED BY <1>3 DEF T

\* Every element is at exactly one place of the sequence.
LEMMA SetToSeqIs ==
    ASSUME NEW S, IsFiniteSet(S)
    PROVE  /\ Cardinality(S) \in Nat
           /\ SetToSeq(S) \in Seq(S) /\ SetToSeq(S) \in [1 .. Cardinality(S) -> S]
           /\ Len(SetToSeq(S)) = Cardinality(S) /\ DOMAIN SetToSeq(S) = 1 .. Cardinality(S)
           /\ \A x \in S : \E k \in 1 .. Cardinality(S) : SetToSeq(S)[k] = x
           /\ \A j, k \in 1 .. Cardinality(S) : SetToSeq(S)[j] = SetToSeq(S)[k] => j = k
<1> DEFINE n == Cardinality(S)
           D == 1 .. n
           f == SetToSeq(S)
<1>1. n \in Nat /\ ExistsBijection(D, S)
    BY FS_CardinalityType
<1>2. \E g \in [D -> S] : IsInjective(g)
    BY <1>1 DEF ExistsBijection, Bijection, Injection
<1>3. f \in [D -> S] /\ IsInjective(f)
    BY <1>2, Zenon DEF SetToSeq
<1>4. IsFiniteSet(D) /\ Cardinality(D) = n
    <2>1. 1 \in Int /\ n \in Int
        BY <1>1
    <2>2. IsFiniteSet(D) /\ Cardinality(D) = IF 1 > n THEN 0 ELSE n - 1 + 1
        BY <2>1, FS_Interval
    <2> QED BY <1>1, <2>2
<1> HIDE DEF f
<1>5. f \in Injection(D, S)
    BY <1>3 DEF Injection
<1>6. f \in Surjection(D, S)
    <2> HIDE DEF D
    <2> QED BY <1>4, <1>5, FS_Injection DEF n
<1>7. f \in Seq(S) /\ Len(f) = n /\ DOMAIN f = D
    BY <1>1, <1>3
<1>8. \A x \in S : \E k \in D : f[k] = x
    BY <1>6 DEF Surjection
<1>9. \A j, k \in D : f[j] = f[k] => j = k
    BY <1>3 DEF IsInjective
<1> QED BY <1>1, <1>3, <1>7, <1>8, <1>9 DEF f

\* A finite set of integers that is not empty has a smallest element.
LEMMA MinExists ==
    ASSUME NEW S \in SUBSET Int, IsFiniteSet(S), S # {}
    PROVE  Min(S) \in S /\ \A x \in S : Min(S) <= x
<1> DEFINE f == [x \in S |-> -x]
           T == {f[x] : x \in S}
<1>1. IsFiniteSet(T)
    <2> HIDE DEF f
    <2> QED BY ImageIsFinite
<1>2. T \in SUBSET Int /\ T # {}
    <2>1. \A x \in S : f[x] \in Int /\ f[x] = -x
        OBVIOUS
    <2>2. \E x : x \in S
        OBVIOUS
    <2> HIDE DEF f
    <2> QED BY <2>1, <2>2
<1> HIDE DEF T
<1>3. Max(T) \in T /\ \A x \in T : Max(T) >= x
    BY <1>1, <1>2, MaxExists
<1>4. PICK m \in S : Max(T) = -m
    BY <1>3 DEF T
<1>5. \A x \in S : m <= x
    <2> TAKE x \in S
    <2>1. -x \in T
        BY DEF T
    <2>2. -m >= -x
        BY <1>3, <1>4, <2>1
    <2> QED BY <2>2
<1> QED BY <1>5, MinIs

----------------------------------------------------------------------------
(* A fold from the left is its last step. *)

\* The function that a fold from the left is the last value of.
FoldsLeft(h, n, V, base, op) ==
    /\ h[{}] = base
    /\ \A t \in SUBSET (1 .. n) : t # {} /\ h[t \ {Max(t)}] \in V =>
           h[t] = op[Max(t)][h[t \ {Max(t)}]]

LEMMA LeftFoldIs ==
    ASSUME NEW n \in Nat, NEW V, NEW base, NEW op, NEW g \in [0 .. n -> V], Steps(g, n, base, op),
           NEW h, FoldsLeft(h, n, V, base, op)
    PROVE  h[1 .. n] = g[n]
<1> DEFINE Good == {k \in 0 .. n : h[1 .. k] = g[k]}
<1>1. 0 \in Good
    <2>1. 1 .. 0 = {} /\ 0 \in 0 .. n
        OBVIOUS
    <2> QED BY <2>1 DEF Steps, FoldsLeft
<1>2. ASSUME NEW k \in 1 .. n, k - 1 \in Good PROVE k \in Good
    <2>1. /\ Max(1 .. k) = k /\ (1 .. k) \ {k} = 1 .. k - 1
          /\ 1 .. k \in SUBSET (1 .. n) /\ 1 .. k # {} /\ k \in 0 .. n
        BY FirstPlaces, Zenon
    <2>2. h[1 .. k - 1] = g[k - 1] /\ k - 1 \in 0 .. n
        BY <1>2
    <2>3. g[k - 1] \in V
        BY <2>2
    <2>4. h[1 .. k] = op[Max(1 .. k)][h[(1 .. k) \ {Max(1 .. k)}]]
        <3>1. h[(1 .. k) \ {Max(1 .. k)}] \in V
            BY <2>1, <2>2, <2>3
        <3> QED BY <2>1, <3>1 DEF FoldsLeft
    <2>5. h[1 .. k] = op[k][g[k - 1]]
        BY <2>1, <2>2, <2>4
    <2>6. g[k] = op[k][g[k - 1]]
        BY DEF Steps
    <2> QED BY <2>1, <2>5, <2>6
<1> HIDE DEF Good
<1>3. \A k \in 0 .. n : k \in Good
    BY <1>1, <1>2, PrefixInduction
<1>4. n \in 0 .. n
    OBVIOUS
<1> QED BY <1>3, <1>4 DEF Good

----------------------------------------------------------------------------
(* Counting pairs by rows and by columns.                                  *)

Row(R, x, T) == {y \in T : <<x, y>> \in R}
Column(R, S, y) == {x \in S : <<x, y>> \in R}
Rows(R, S, T) == [x \in S |-> Cardinality(Row(R, x, T))]
Columns(R, S, T) == [y \in T |-> Cardinality(Column(R, S, y))]

\* One row more adds one to each column that it meets.
LEMMA OneRowMore ==
    ASSUME NEW S, IsFiniteSet(S), NEW T, IsFiniteSet(T), NEW R, NEW x \in S
    PROVE  SumFunctionOnSet(Columns(R, S, T), T)
           = Cardinality(Row(R, x, T)) + SumFunctionOnSet(Columns(R, S \ {x}, T), T)
<1> DEFINE f == Columns(R, S, T)
           g == Columns(R, S \ {x}, T)
           hit == [y \in T |-> IF y \in Row(R, x, T) THEN 1 ELSE 0]
<1>1. ASSUME NEW y \in T PROVE f[y] = hit[y] + g[y] /\ g[y] \in Int
    <2> DEFINE A == Column(R, S, y)
    <2>1. IsFiniteSet(A) /\ A \in SUBSET S
        BY FS_Subset DEF Column
    <2>2. Column(R, S \ {x}, y) = A \ {x}
        BY DEF Column
    <2>3. x \in A <=> y \in Row(R, x, T)
        BY DEF Column, Row
    <2>4. f[y] = Cardinality(A) /\ g[y] = Cardinality(A \ {x})
        BY <2>2 DEF Columns
    <2>5. hit[y] = IF x \in A THEN 1 ELSE 0
        BY <2>3
    <2> HIDE DEF A, f, g, hit
    <2>6. Cardinality(A) \in Nat
        BY <2>1, FS_CardinalityType
    <2>7. Cardinality(A \ {x}) = IF x \in A THEN Cardinality(A) - 1 ELSE Cardinality(A)
        BY <2>1, FS_RemoveElement
    <2>8. CASE x \in A
        BY <2>4, <2>5, <2>6, <2>7, <2>8
    <2>9. CASE x \notin A
        BY <2>4, <2>5, <2>6, <2>7, <2>9
    <2> QED BY <2>8, <2>9
<1>2. \A y \in T : hit[y] = IF y \in Row(R, x, T) THEN 1 ELSE 0
    OBVIOUS
<1>3. IntegerOn(hit, T) /\ IntegerOn(g, T)
    BY <1>1 DEF IntegerOn
<1> HIDE DEF f, g, hit
<1>4. SumFunctionOnSet(f, T) = SumFunctionOnSet(hit, T) + SumFunctionOnSet(g, T)
    BY <1>1, <1>3, SumAdds
<1>5. SumFunctionOnSet(hit, T) = Cardinality(T \cap Row(R, x, T))
    BY <1>2, SumCounts
<1>6. T \cap Row(R, x, T) = Row(R, x, T)
    BY DEF Row
<1> QED BY <1>4, <1>5, <1>6 DEF f, g

LEMMA DoubleCount ==
    ASSUME NEW S, IsFiniteSet(S), NEW T, IsFiniteSet(T), NEW R
    PROVE  SumFunctionOnSet(Rows(R, S, T), S) = SumFunctionOnSet(Columns(R, S, T), T)
<1> DEFINE f == Rows(R, S, T)
           Good == {s \in SUBSET S : SumFunctionOnSet(f, s) = SumFunctionOnSet(Columns(R, s, T), T)}
<1>1. \A x \in S : f[x] = Cardinality(Row(R, x, T)) /\ f[x] \in Int
    <2> TAKE x \in S
    <2>1. IsFiniteSet(Row(R, x, T))
        BY FS_Subset DEF Row
    <2>2. Cardinality(Row(R, x, T)) \in Nat
        BY <2>1, FS_CardinalityType
    <2> QED BY <2>2 DEF Rows
<1>2. IntegerOn(f, S)
    BY <1>1 DEF IntegerOn
<1>3. ASSUME NEW s \in SUBSET S, \A t \in SUBSET s : t # s => t \in Good PROVE s \in Good
    <2>1. CASE s = {}
        <3> DEFINE g == Columns(R, {}, T)
        <3>1. \A y \in T : Column(R, {}, y) = {}
            BY DEF Column
        <3>2. \A y \in T : g[y] = IF y \in {} THEN 1 ELSE 0
            BY <3>1, FS_EmptySet DEF Columns
        <3> HIDE DEF g
        <3>3. SumFunctionOnSet(g, T) = Cardinality(T \cap {})
            BY <3>2, SumCounts
        <3>4. Cardinality(T \cap {}) = 0
            BY FS_EmptySet
        <3>5. SumFunctionOnSet(f, {}) = 0
            BY SumEmpty
        <3> QED BY <2>1, <3>3, <3>4, <3>5 DEF g
    <2>2. CASE s # {}
        <3>1. PICK x \in s : TRUE
            BY <2>2
        <3>2. IsFiniteSet(s) /\ s \ {x} \in SUBSET S /\ x \in S
            BY FS_Subset
        <3>3. s \ {x} \in Good
            BY <1>3, <3>1
        <3>4. SumFunctionOnSet(f, s \ {x}) = SumFunctionOnSet(Columns(R, s \ {x}, T), T)
            BY <3>3
        <3>5. SumFunctionOnSet(f, s) = f[x] + SumFunctionOnSet(f, s \ {x})
            BY <1>2, <3>1, SumSplits
        <3>6. SumFunctionOnSet(Columns(R, s, T), T)
              = Cardinality(Row(R, x, T)) + SumFunctionOnSet(Columns(R, s \ {x}, T), T)
            BY <3>2, OneRowMore
        <3>7. f[x] = Cardinality(Row(R, x, T))
            BY <1>1, <3>2
        <3> QED BY <3>4, <3>5, <3>6, <3>7
    <2> QED BY <2>1, <2>2
<1> HIDE DEF Good
<1>4. S \in Good
    BY <1>3, SubsetInduction
<1> QED BY <1>4 DEF Good

\* Sums of elements that are within c of each other.
LEMMA SumIsNear ==
    ASSUME NEW S, IsFiniteSet(S), NEW f, IntegerOn(f, S), NEW g, IntegerOn(g, S), NEW c \in Nat,
           \A x \in S : f[x] - g[x] \in -c .. c
    PROVE  SumFunctionOnSet(f, S) - SumFunctionOnSet(g, S) \in -(c * Cardinality(S)) .. c * Cardinality(S)
<1> DEFINE one == [x \in S |-> 1]
           k == [x \in S |-> c * one[x]]
           fk == [x \in S |-> f[x] + k[x]]
           gk == [x \in S |-> g[x] + k[x]]
<1>1. \A x \in S : /\ one[x] = IF x \in S THEN 1 ELSE 0
                   /\ k[x] = c * one[x] /\ k[x] = c
                   /\ fk[x] = f[x] + k[x] /\ gk[x] = g[x] + k[x]
    OBVIOUS
<1>2. \A x \in S : f[x] \in Int /\ g[x] \in Int
    BY DEF IntegerOn
<1> HIDE DEF one, k, fk, gk
<1>3. IntegerOn(one, S) /\ IntegerOn(k, S) /\ IntegerOn(fk, S) /\ IntegerOn(gk, S)
    BY <1>1, <1>2 DEF IntegerOn
<1>4. SumFunctionOnSet(one, S) = Cardinality(S \cap S) /\ S \cap S = S
    BY <1>1, SumCounts
<1>5. SumFunctionOnSet(k, S) = c * SumFunctionOnSet(one, S)
    BY <1>1, <1>3, SumScales
<1>6. SumFunctionOnSet(fk, S) = SumFunctionOnSet(f, S) + SumFunctionOnSet(k, S)
    BY <1>1, <1>3, SumAdds
<1>7. SumFunctionOnSet(gk, S) = SumFunctionOnSet(g, S) + SumFunctionOnSet(k, S)
    BY <1>1, <1>3, SumAdds
<1>8. \A x \in S : f[x] <= gk[x] /\ g[x] <= fk[x]
    <2> TAKE x \in S
    <2>1. f[x] - g[x] \in -c .. c
        OBVIOUS
    <2> QED BY <1>1, <1>2, <2>1
<1>9. SumFunctionOnSet(f, S) <= SumFunctionOnSet(gk, S)
    BY <1>3, <1>8, SumGrows
<1>10. SumFunctionOnSet(g, S) <= SumFunctionOnSet(fk, S)
    BY <1>3, <1>8, SumGrows
<1>11. SumFunctionOnSet(f, S) \in Int /\ SumFunctionOnSet(g, S) \in Int
    BY SumType
<1>12. Cardinality(S) \in Nat /\ c * Cardinality(S) \in Nat
    BY FS_CardinalityType
<1> DEFINE m == c * Cardinality(S)
           a == SumFunctionOnSet(f, S)
           b == SumFunctionOnSet(g, S)
<1>13. SumFunctionOnSet(k, S) = m
    BY <1>4, <1>5
<1>14. a <= b + m /\ b <= a + m /\ m \in Nat /\ a \in Int /\ b \in Int
    BY <1>6, <1>7, <1>9, <1>10, <1>11, <1>12, <1>13
<1> HIDE DEF m, a, b
<1>15. a - b \in -m .. m
    BY <1>14
<1> QED BY <1>15 DEF m, a, b

\* Sums over disjoint sets add, and the sum of a constant is a multiple of it.
LEMMA SumOfUnion ==
    ASSUME NEW S, IsFiniteSet(S), NEW T, IsFiniteSet(T), S \cap T = {}, NEW g, IntegerOn(g, S \cup T)
    PROVE  SumFunctionOnSet(g, S \cup T) = SumFunctionOnSet(g, S) + SumFunctionOnSet(g, T)
<1> DEFINE U == S \cup T
           f == [x \in U |-> IF x \in S THEN g[x] ELSE 0]
           h == [x \in U |-> IF x \in T THEN g[x] ELSE 0]
<1>1. IsFiniteSet(U) /\ S \in SUBSET U /\ T \in SUBSET U
    BY FS_Union
<1>2. \A x \in U : /\ g[x] \in Int /\ f[x] \in Int /\ h[x] \in Int /\ g[x] = f[x] + h[x]
                   /\ (x \in S => f[x] = g[x]) /\ (x \notin S => f[x] = 0)
                   /\ (x \in T => h[x] = g[x]) /\ (x \notin T => h[x] = 0)
    BY DEF IntegerOn
<1> HIDE DEF U, f, h
<1>3. IntegerOn(f, U) /\ IntegerOn(h, U) /\ IntegerOn(f, S) /\ IntegerOn(h, T)
    BY <1>1, <1>2 DEF IntegerOn
<1>4. SumFunctionOnSet(g, U) = SumFunctionOnSet(f, U) + SumFunctionOnSet(h, U)
    BY <1>1, <1>2, <1>3, SumAdds
<1>5. SumFunctionOnSet(f, U) = SumFunctionOnSet(f, S)
    <2>1. \A x \in U \ S : f[x] = 0
        BY <1>2
    <2> QED BY <1>1, <1>3, <2>1, SumOfSupport
<1>6. SumFunctionOnSet(h, U) = SumFunctionOnSet(h, T)
    <2>1. \A x \in U \ T : h[x] = 0
        BY <1>2
    <2> QED BY <1>1, <1>3, <2>1, SumOfSupport
<1>7. SumFunctionOnSet(f, S) = SumFunctionOnSet(g, S)
    <2>1. \A x \in S : f[x] = g[x]
        BY <1>1, <1>2
    <2> QED BY <1>3, <2>1, SumSame
<1>8. SumFunctionOnSet(h, T) = SumFunctionOnSet(g, T)
    <2>1. \A x \in T : h[x] = g[x]
        BY <1>1, <1>2
    <2> QED BY <1>3, <2>1, SumSame
<1> QED BY <1>4, <1>5, <1>6, <1>7, <1>8 DEF U

LEMMA SumOfConstant ==
    ASSUME NEW S, IsFiniteSet(S), NEW c \in Int, NEW g, \A x \in S : g[x] = c
    PROVE  SumFunctionOnSet(g, S) = c * Cardinality(S)
<1> DEFINE one == [x \in S |-> 1]
<1>1. \A x \in S : one[x] = IF x \in S THEN 1 ELSE 0
    OBVIOUS
<1>2. \A x \in S : g[x] = c * one[x]
    OBVIOUS
<1> HIDE DEF one
<1>3. IntegerOn(one, S)
    BY <1>1 DEF IntegerOn
<1>4. SumFunctionOnSet(g, S) = c * SumFunctionOnSet(one, S)
    BY <1>2, <1>3, SumScales
<1>5. SumFunctionOnSet(one, S) = Cardinality(S \cap S) /\ S \cap S = S
    BY <1>1, SumCounts
<1> QED BY <1>4, <1>5

\* In a sequence that does not fall, what is at most c comes first.
LEMMA CutAt ==
    ASSUME NEW n \in Nat, NEW key \in [1 .. n -> Int], \A j, k \in 1 .. n : j <= k => key[j] <= key[k],
           NEW c \in Int
    PROVE  \E m \in 0 .. n : \A p \in 1 .. n : key[p] <= c <=> p <= m
<1> DEFINE P == {p \in 1 .. n : key[p] <= c}
<1>1. CASE P = {}
    <2>1. \A p \in 1 .. n : key[p] <= c <=> p <= 0
        BY <1>1
    <2>2. 0 \in 0 .. n
        OBVIOUS
    <2> QED BY <2>1, <2>2
<1>2. CASE P # {}
    <2> DEFINE m == Max(P)
    <2>1. IsFiniteSet(1 .. n)
        BY LargestType
    <2>2. P \in SUBSET Int /\ IsFiniteSet(P)
        BY <2>1, FS_Subset
    <2>3. m \in P /\ \A p \in P : m >= p
        <3> HIDE DEF P
        <3> QED BY <1>2, <2>2, MaxExists
    <2> HIDE DEF m
    <2>4. m \in 0 .. n /\ m \in 1 .. n
        BY <2>3
    <2>5. ASSUME NEW p \in 1 .. n PROVE key[p] <= c <=> p <= m
        <3>1. p <= m => key[p] <= key[m]
            BY <2>4
        <3>2. key[m] <= c
            BY <2>3
        <3>3. key[p] <= c => p <= m
            BY <2>3, <2>4
        <3>4. key[p] \in Int /\ key[m] \in Int
            BY <2>4
        <3> QED BY <3>1, <3>2, <3>3, <3>4
    <2> QED BY <2>4, <2>5
<1> QED BY <1>1, <1>2

=============================================================================
