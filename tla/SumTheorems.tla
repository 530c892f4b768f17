---------------------------- MODULE SumTheorems ----------------------------
(***************************************************************************)
(* Sums over finite sets (SumFunctionOnSet of the community modules): what *)
(* the recursion that defines them computes, and how sums compare.  The    *)
(* inductions are made by least counterexamples.                           *)
(***************************************************************************)
EXTENDS Integers, FiniteSets, Functions, FiniteSetTheorems, TLAPS

-----------------------------------------------------------------------------
(* Induction over the subsets of a finite set, as the choice of a least    *)
(* counterexample: inclusion is well-founded.                              *)
LEMMA LeastSubset ==
  ASSUME NEW S, IsFiniteSet(S), NEW Bad \in SUBSET SUBSET S, Bad # {}
  PROVE  \E T \in Bad : \A U \in Bad : U \subseteq T => U = T
<1> DEFINE R == StrictSubsetOrdering(S)
<1>1. IsWellFoundedOn(R, SUBSET S)
  BY FS_FiniteSubsetsOfFinite, FS_StrictSubsetOrderingWellFounded
<1>2. PICK T \in Bad : \A U \in Bad : <<U, T>> \notin R
  <2> HIDE DEF R
  <2> QED BY <1>1, WFMin
<1>3. ASSUME NEW U \in Bad, U \subseteq T PROVE U = T
  BY <1>2, <1>3 DEF StrictSubsetOrdering
<1> QED BY <1>2, <1>3

(* SumFunctionOnSet takes the elements out in an order of its own.  On the *)
(* subsets of S it is the function h of this recursion.                    *)
First(T) == CHOOSE x \in T : TRUE
Adding(h, g, D) == h = [T \in D |-> IF T = {} THEN 0 ELSE g[First(T)] + h[T \ {First(T)}]]

LEMMA FirstIsElement == \A T : T # {} => First(T) \in T
BY DEF First

(* The recursion has a solution, by induction over the size of the sets it *)
(* is defined for.                                                         *)
LEMMA AddingExists ==
  ASSUME NEW S, IsFiniteSet(S), NEW g
  PROVE  \E h : Adding(h, g, SUBSET S)
<1> DEFINE Small(T) == {U \in SUBSET S : Cardinality(U) <= Cardinality(T)}
           Bad == {T \in SUBSET S : ~ \E h : Adding(h, g, Small(T))}
<1>1. \A T \in SUBSET S : IsFiniteSet(T) /\ Cardinality(T) \in Nat
  BY FS_Subset, FS_CardinalityType
<1>2. Small(S) = SUBSET S
  BY FS_Subset
<1>3. SUFFICES ASSUME Bad # {} PROVE FALSE
  BY <1>2
<1>4. PICK T \in Bad : \A U \in Bad : U \subseteq T => U = T
  <2> HIDE DEF Bad
  <2>1. Bad \in SUBSET SUBSET S
    BY DEF Bad
  <2> QED BY <1>3, <2>1, LeastSubset
<1>5. CASE T = {}
  <2> DEFINE h == [U \in Small(T) |-> 0]
  <2>1. \A U \in Small(T) : U = {}
    BY <1>1, <1>5, FS_EmptySet
  <2>2. Adding(h, g, Small(T))
    BY <2>1 DEF Adding
  <2> QED BY <1>4, <2>2
<1>6. CASE T # {}
  <2> DEFINE V == T \ {First(T)}
  <2>1. First(T) \in T /\ V \in SUBSET S /\ V # T
    BY <1>6, FirstIsElement
  <2>2. Cardinality(V) = Cardinality(T) - 1
    BY <1>1, <2>1, FS_RemoveElement
  <2>3. PICK h : Adding(h, g, Small(V))
    BY <1>4, <2>1
  <2> HIDE DEF V
  <2> DEFINE k == [U \in Small(T) |-> IF U = {} THEN 0 ELSE g[First(U)] + h[U \ {First(U)}]]
  <2>4. ASSUME NEW U \in Small(T), U # {}
        PROVE  U \ {First(U)} \in Small(V) /\ U \ {First(U)} \in Small(T)
    <3>1. First(U) \in U /\ U \ {First(U)} \in SUBSET S
      BY <2>4, FirstIsElement
    <3>2. Cardinality(U \ {First(U)}) = Cardinality(U) - 1
      BY <1>1, <3>1, FS_RemoveElement
    <3> QED BY <1>1, <2>1, <2>2, <3>1, <3>2
  <2>5. ASSUME NEW U \in Small(V) \cap Small(T) PROVE k[U] = h[U]
    BY <2>3 DEF Adding
  <2>6. ASSUME NEW U \in Small(T), U # {} PROVE k[U \ {First(U)}] = h[U \ {First(U)}]
    BY <2>4, <2>5, <2>6
  <2>7. k = [U \in Small(T) |-> IF U = {} THEN 0 ELSE g[First(U)] + k[U \ {First(U)}]]
    <3> HIDE DEF Small
    <3> QED BY <2>6
  <2> HIDE DEF k
  <2>8. Adding(k, g, Small(T))
    BY <2>7 DEF Adding
  <2> QED BY <1>4, <2>8
<1> QED BY <1>5, <1>6

LEMMA SumIsAdding ==
  ASSUME NEW S, IsFiniteSet(S), NEW g
  PROVE  \E h : Adding(h, g, SUBSET S) /\ SumFunctionOnSet(g, S) = h[S]
<1>1. PICK k : Adding(k, g, SUBSET S)
  BY AddingExists
<1> QED BY <1>1 DEF Adding, First, SumFunctionOnSet, FoldFunctionOnSet, MapThenFoldSet

(* ... and only one.                                                       *)
LEMMA AddingAgrees ==
  ASSUME NEW S, IsFiniteSet(S), NEW T \in SUBSET S, NEW g, NEW h, NEW k,
         Adding(h, g, SUBSET S), Adding(k, g, SUBSET T)
  PROVE  h[T] = k[T]
<1> DEFINE Bad == {U \in SUBSET T : h[U] # k[U]}
<1>1. SUFFICES ASSUME Bad # {} PROVE FALSE
  OBVIOUS
<1>2. IsFiniteSet(T)
  BY FS_Subset
<1>3. PICK U \in Bad : \A V \in Bad : V \subseteq U => V = U
  <2> HIDE DEF Bad
  <2>1. Bad \in SUBSET SUBSET T
    BY DEF Bad
  <2> QED BY <1>1, <1>2, <2>1, LeastSubset
<1>4. CASE U = {}
  BY <1>3, <1>4 DEF Adding
<1>5. CASE U # {}
  <2> DEFINE V == U \ {First(U)}
  <2>1. First(U) \in U /\ V \subseteq U /\ V # U /\ V \in SUBSET T
    BY <1>3, <1>5, FirstIsElement
  <2>2. h[V] = k[V]
    BY <1>3, <2>1
  <2>3. h[U] = g[First(U)] + h[V] /\ k[U] = g[First(U)] + k[V]
    BY <1>3, <1>5 DEF Adding
  <2> QED BY <1>3, <2>2, <2>3
<1> QED BY <1>4, <1>5

LEMMA SumUnfolds ==
  ASSUME NEW S, IsFiniteSet(S), NEW g
  PROVE  SumFunctionOnSet(g, S) =
           IF S = {} THEN 0 ELSE g[First(S)] + SumFunctionOnSet(g, S \ {First(S)})
<1>1. PICK h : Adding(h, g, SUBSET S) /\ SumFunctionOnSet(g, S) = h[S]
  BY SumIsAdding
<1>2. IsFiniteSet(S \ {First(S)})
  BY FS_Subset
<1>3. PICK k : /\ Adding(k, g, SUBSET (S \ {First(S)}))
               /\ SumFunctionOnSet(g, S \ {First(S)}) = k[S \ {First(S)}]
  BY <1>2, SumIsAdding
<1>4. h[S \ {First(S)}] = k[S \ {First(S)}]
  BY <1>1, <1>3, AddingAgrees
<1>5. h[S] = IF S = {} THEN 0 ELSE g[First(S)] + h[S \ {First(S)}]
  <2>1. S \in SUBSET S
    OBVIOUS
  <2> QED BY <1>1, <2>1 DEF Adding
<1> QED BY <1>1, <1>3, <1>4, <1>5

(* A sum of integers is an integer.                                        *)
LEMMA SumType ==
  ASSUME NEW S, IsFiniteSet(S), NEW g, \A x \in S : g[x] \in Int
  PROVE  SumFunctionOnSet(g, S) \in Int
<1> DEFINE Bad == {T \in SUBSET S : SumFunctionOnSet(g, T) \notin Int}
<1>1. SUFFICES ASSUME Bad # {} PROVE FALSE
  OBVIOUS
<1>2. PICK T \in Bad : \A U \in Bad : U \subseteq T => U = T
  <2> HIDE DEF Bad
  <2>1. Bad \in SUBSET SUBSET S
    BY DEF Bad
  <2> QED BY <1>1, <2>1, LeastSubset
<1>3. IsFiniteSet(T)
  BY FS_Subset
<1>4. CASE T = {}
  BY <1>2, <1>3, <1>4, SumUnfolds
<1>5. CASE T # {}
  <2>1. First(T) \in T
    BY <1>5, FirstIsElement
  <2>2. SumFunctionOnSet(g, T \ {First(T)}) \in Int
    BY <1>2, <2>1
  <2>3. SumFunctionOnSet(g, T) = g[First(T)] + SumFunctionOnSet(g, T \ {First(T)})
    BY <1>3, <1>5, SumUnfolds
  <2> QED BY <1>2, <2>1, <2>2, <2>3
<1> QED BY <1>4, <1>5

(* Any element may be taken out first.                                     *)
LEMMA SumTakesOut ==
  ASSUME NEW S, IsFiniteSet(S), NEW g, \A x \in S : g[x] \in Int, NEW x \in S
  PROVE  SumFunctionOnSet(g, S) = g[x] + SumFunctionOnSet(g, S \ {x})
<1> DEFINE Sum(T) == SumFunctionOnSet(g, T)
           Bad == {T \in SUBSET S : \E y \in T : Sum(T) # g[y] + Sum(T \ {y})}
<1>0. \A T \in SUBSET S : IsFiniteSet(T) /\ Sum(T) \in Int
  BY FS_Subset, SumType
<1>1. SUFFICES ASSUME Bad # {} PROVE FALSE
  OBVIOUS
<1>2. PICK T \in Bad : \A U \in Bad : U \subseteq T => U = T
  <2> HIDE DEF Bad
  <2>1. Bad \in SUBSET SUBSET S
    BY DEF Bad
  <2> QED BY <1>1, <2>1, LeastSubset
<1>3. PICK y \in T : Sum(T) # g[y] + Sum(T \ {y})
  BY <1>2
<1> DEFINE f == First(T)
<1>4. f \in T /\ Sum(T) = g[f] + Sum(T \ {f})
  BY <1>0, <1>3, SumUnfolds, FirstIsElement
<1> HIDE DEF f
<1>5. y # f
  BY <1>3, <1>4
<1>6. /\ T \ {f} \in SUBSET S /\ T \ {f} # T /\ y \in T \ {f}
      /\ T \ {y} \in SUBSET S /\ T \ {y} # T /\ f \in T \ {y}
  BY <1>2, <1>3, <1>4, <1>5
<1>7. /\ Sum(T \ {f}) = g[y] + Sum((T \ {f}) \ {y})
      /\ Sum(T \ {y}) = g[f] + Sum((T \ {y}) \ {f})
  BY <1>2, <1>6
<1>8. (T \ {f}) \ {y} = (T \ {y}) \ {f} /\ (T \ {f}) \ {y} \in SUBSET S
  BY <1>6
<1>9. g[f] \in Int /\ g[y] \in Int /\ Sum((T \ {f}) \ {y}) \in Int
  BY <1>0, <1>2, <1>3, <1>4, <1>8
<1>10. /\ Sum(T) = g[f] + (g[y] + Sum((T \ {f}) \ {y}))
       /\ Sum(T \ {y}) = g[f] + Sum((T \ {f}) \ {y})
  <2> HIDE DEF Sum
  <2> QED BY <1>4, <1>7, <1>8
<1>11. Sum(T) = g[y] + Sum(T \ {y})
  <2> HIDE DEF Sum
  <2> QED BY <1>9, <1>10
<1> QED BY <1>3, <1>11

(* Sums over parts A and B of a set, compared element by element: one that *)
(* is not in a part counts for nothing there.                              *)
LEMMA SumCompares ==
  ASSUME NEW S, IsFiniteSet(S), NEW A \in SUBSET S, NEW B \in SUBSET S, NEW g, NEW h,
         \A x \in A : g[x] \in Int, \A x \in B : h[x] \in Int,
         \A x \in A \cap B : g[x] <= h[x],
         \A x \in A \ B : g[x] <= 0, \A x \in B \ A : 0 <= h[x]
  PROVE  SumFunctionOnSet(g, A) <= SumFunctionOnSet(h, B)
<1> DEFINE G(T) == SumFunctionOnSet(g, A \cap T)
           H(T) == SumFunctionOnSet(h, B \cap T)
           Bad == {T \in SUBSET S : ~ (G(T) <= H(T))}
<1>1. \A T : A \cap T \in SUBSET S /\ B \cap T \in SUBSET S
  OBVIOUS
<1>2. \A T : /\ IsFiniteSet(A \cap T) /\ IsFiniteSet(B \cap T)
             /\ G(T) \in Int /\ H(T) \in Int
  BY <1>1, FS_Subset, SumType
<1>3. SUFFICES ASSUME Bad # {} PROVE FALSE
  <2>1. A \cap S = A /\ B \cap S = B
    OBVIOUS
  <2> QED BY <2>1
<1>4. PICK T \in Bad : \A U \in Bad : U \subseteq T => U = T
  <2> HIDE DEF Bad
  <2>1. Bad \in SUBSET SUBSET S
    BY DEF Bad
  <2> QED BY <1>3, <2>1, LeastSubset
<1>5. CASE T = {}
  <2>1. A \cap T = {} /\ B \cap T = {}
    BY <1>5
  <2>2. G(T) = 0 /\ H(T) = 0
    BY <1>2, <2>1, SumUnfolds
  <2> QED BY <1>4, <2>2
<1>6. CASE T # {}
  <2>1. PICK x \in T : TRUE
    BY <1>6
  <2> DEFINE U == T \ {x}
  <2>2. U \in SUBSET S /\ U \subseteq T /\ U # T
    BY <2>1
  <2>3. G(U) <= H(U)
    BY <1>4, <2>2
  <2>4. G(T) = IF x \in A THEN g[x] + G(U) ELSE G(U)
    <3>1. CASE x \in A
      <4>1. x \in A \cap T /\ (A \cap T) \ {x} = A \cap U
        BY <2>1, <3>1
      <4>2. SumFunctionOnSet(g, A \cap T) = g[x] + SumFunctionOnSet(g, (A \cap T) \ {x})
        <5>1. IsFiniteSet(A \cap T) /\ \A y \in A \cap T : g[y] \in Int
          BY <1>2
        <5> QED BY <4>1, <5>1, SumTakesOut
      <4> QED BY <3>1, <4>1, <4>2
    <3>2. CASE x \notin A
      <4>1. A \cap T = A \cap U
        BY <3>2
      <4> QED BY <3>2, <4>1
    <3> QED BY <3>1, <3>2
  <2>5. H(T) = IF x \in B THEN h[x] + H(U) ELSE H(U)
    <3>1. CASE x \in B
      <4>1. x \in B \cap T /\ (B \cap T) \ {x} = B \cap U
        BY <2>1, <3>1
      <4>2. SumFunctionOnSet(h, B \cap T) = h[x] + SumFunctionOnSet(h, (B \cap T) \ {x})
        <5>1. IsFiniteSet(B \cap T) /\ \A y \in B \cap T : h[y] \in Int
          BY <1>2
        <5> QED BY <4>1, <5>1, SumTakesOut
      <4> QED BY <3>1, <4>1, <4>2
    <3>2. CASE x \notin B
      <4>1. B \cap T = B \cap U
        BY <3>2
      <4> QED BY <3>2, <4>1
    <3> QED BY <3>1, <3>2
  <2>6. ~ (G(T) <= H(T))
    BY <1>4
  <2>7. G(T) \in Int /\ H(T) \in Int /\ G(U) \in Int /\ H(U) \in Int
    BY <1>2
  <2> HIDE DEF G, H, U
  <2> QED BY <2>3, <2>4, <2>5, <2>6, <2>7
<1> QED BY <1>5, <1>6

(* Sums of equal terms are equal.                                          *)
LEMMA SumSame ==
  ASSUME NEW S, IsFiniteSet(S), NEW g, NEW h, \A x \in S : g[x] \in Int /\ h[x] = g[x]
  PROVE  SumFunctionOnSet(h, S) = SumFunctionOnSet(g, S)
<1>1. /\ SumFunctionOnSet(g, S) <= SumFunctionOnSet(h, S)
      /\ SumFunctionOnSet(h, S) <= SumFunctionOnSet(g, S)
  <2>1. /\ S \in SUBSET S /\ S \ S = {}
        /\ \A x \in S : g[x] \in Int /\ h[x] \in Int
        /\ \A x \in S \cap S : g[x] <= h[x] /\ h[x] <= g[x]
    OBVIOUS
  <2> QED BY <2>1, SumCompares
<1>2. SumFunctionOnSet(g, S) \in Int /\ SumFunctionOnSet(h, S) \in Int
  BY SumType
<1> QED BY <1>1, <1>2

(* When one term changes, the sum changes by as much.                      *)
LEMMA SumChanges ==
  ASSUME NEW S, IsFiniteSet(S), NEW g, NEW h, NEW x \in S,
         \A y \in S : g[y] \in Int /\ h[y] \in Int, \A y \in S \ {x} : h[y] = g[y]
  PROVE  /\ SumFunctionOnSet(h, S) = SumFunctionOnSet(g, S) - g[x] + h[x]
         /\ SumFunctionOnSet(g, S) \in Int
<1>1. /\ SumFunctionOnSet(g, S) = g[x] + SumFunctionOnSet(g, S \ {x})
      /\ SumFunctionOnSet(h, S) = h[x] + SumFunctionOnSet(h, S \ {x})
  BY SumTakesOut
<1>2. IsFiniteSet(S \ {x})
  BY FS_Subset
<1>3. SumFunctionOnSet(h, S \ {x}) = SumFunctionOnSet(g, S \ {x})
  BY <1>2, SumSame
<1>4. SumFunctionOnSet(g, S \ {x}) \in Int
  BY <1>2, SumType
<1> QED BY <1>1, <1>3, <1>4

(* A term that grows or shrinks takes the sum with it.                     *)
LEMMA SumShifts ==
  ASSUME NEW S, IsFiniteSet(S), NEW x \in S, NEW d \in Int,
         NEW g \in [S -> Int], NEW h \in [S -> Int],
         \A y \in S \ {x} : h[y] = g[y], h[x] = g[x] + d
  PROVE  SumFunctionOnSet(h, S) = SumFunctionOnSet(g, S) + d
<1>1. \A y \in S : g[y] \in Int /\ h[y] \in Int
  OBVIOUS
<1>2. /\ SumFunctionOnSet(h, S) = SumFunctionOnSet(g, S) - g[x] + h[x]
      /\ SumFunctionOnSet(g, S) \in Int
  BY <1>1, SumChanges
<1> QED BY <1>1, <1>2
=============================================================================
