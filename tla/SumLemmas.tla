------------------------------ MODULE SumLemmas ------------------------------
(***************************************************************************)
(* Sums over finite sets (SumFunctionOnSet), for the proofs about debts,    *)
(* refunds and payouts.  The induction is over data, in the first-order     *)
(* form of the library's well-foundedness theorems: among the subsets of a  *)
(* finite set that are counterexamples there is a smallest one.             *)
(***************************************************************************)
EXTENDS Integers, FiniteSetsExt, FiniteSetTheorems, WellFoundedInduction, TLAPS

\* Every set of subsets of a finite set has a smallest member.
LEMMA SmallestSubset ==
  ASSUME NEW S, IsFiniteSet(S), NEW Bad \in SUBSET SUBSET S, Bad # {}
  PROVE  \E T \in Bad : \A U \in SUBSET T : U # T => U \notin Bad
<1>1. FiniteSubsetsOf(S) = SUBSET S
  BY FS_FiniteSubsetsOfFinite
<1>2. IsWellFoundedOn(StrictSubsetOrdering(S), SUBSET S)
  BY <1>1, FS_StrictSubsetOrderingWellFounded
<1>3. PICK T \in Bad : \A U \in Bad : ~ (<<U, T>> \in StrictSubsetOrdering(S))
  BY <1>2, WFMin
<1>4. ASSUME NEW U \in SUBSET T, U # T, U \in Bad PROVE FALSE
  BY <1>3, <1>4 DEF StrictSubsetOrdering
<1> QED
  BY <1>3, <1>4

\* Every set of natural numbers has a least member.
LEMMA SmallestNumber ==
  ASSUME NEW Bad \in SUBSET Nat, Bad # {}
  PROVE  \E m \in Bad : \A n \in Bad : m <= n
<1>1. PICK m \in Bad : \A n \in Bad : ~ (<<n, m>> \in OpToRel(<, Nat))
  BY NatLessThanWellFounded, WFMin
<1>2. \A n \in Bad : ~ (n < m)
  BY <1>1 DEF OpToRel
<1> QED
  BY <1>2

----------------------------------------------------------------------------
(* The recursion of the community modules' sum is well defined. *)

\* The element the fold takes first, and the function it is the value of.
Pick(s) == CHOOSE x \in s : TRUE
IsSum(h, g, S) == h = [s \in SUBSET S |-> IF s = {} THEN 0 ELSE g[Pick(s)] + h[s \ {Pick(s)}]]

\* What the definition of the community modules comes to.
LEMMA SumIs ==
  ASSUME NEW g, NEW S
  PROVE SumFunctionOnSet(g, S) = (CHOOSE h : IsSum(h, g, S))[S]
  BY DEF SumFunctionOnSet, FoldFunctionOnSet, MapThenFoldSet, IsSum, Pick

LEMMA PickIn == ASSUME NEW s, s # {} PROVE Pick(s) \in s
  BY DEF Pick

\* The recursion has one solution, whatever set it is over, ...
LEMMA SumUnique ==
  ASSUME NEW g, NEW A, IsFiniteSet(A), NEW h, IsSum(h, g, A), NEW B \in SUBSET A, NEW k, IsSum(k, g, B)
  PROVE  \A s \in SUBSET B : h[s] = k[s]
<1> DEFINE Bad == {s \in SUBSET B : h[s] # k[s]}
<1> SUFFICES ASSUME Bad # {} PROVE FALSE
  OBVIOUS
<1>0. IsFiniteSet(B)
  BY FS_Subset
<1>1. PICK T \in Bad : \A U \in SUBSET T : U # T => U \notin Bad
  <2> HIDE DEF Bad
  <2>1. Bad \in SUBSET SUBSET B
    BY DEF Bad
  <2> QED BY <1>0, <2>1, SmallestSubset
<1>2. T \in SUBSET B /\ T \in SUBSET A
  OBVIOUS
<1>3. h[T] = IF T = {} THEN 0 ELSE g[Pick(T)] + h[T \ {Pick(T)}]
  BY <1>2 DEF IsSum
<1>4. k[T] = IF T = {} THEN 0 ELSE g[Pick(T)] + k[T \ {Pick(T)}]
  BY <1>2 DEF IsSum
<1>5. T # {} => h[T \ {Pick(T)}] = k[T \ {Pick(T)}]
  BY <1>1, PickIn
<1> QED
  BY <1>1, <1>3, <1>4, <1>5

\* ... and it has one: each value is taken from the solution over a smaller set.
LEMMA SumExists ==
  ASSUME NEW g, NEW S, IsFiniteSet(S)
  PROVE  \E h : IsSum(h, g, S)
<1> DEFINE Bad == {s \in SUBSET S : ~ \E h : IsSum(h, g, s)}
<1> SUFFICES ASSUME Bad # {} PROVE FALSE
  OBVIOUS
<1>1. PICK T \in Bad : \A U \in SUBSET T : U # T => U \notin Bad
  <2> HIDE DEF Bad
  <2>1. Bad \in SUBSET SUBSET S
    BY DEF Bad
  <2> QED BY <2>1, SmallestSubset
<1>2. T \in SUBSET S /\ IsFiniteSet(T)
  BY FS_Subset
<1> DEFINE of(s) == CHOOSE h : IsSum(h, g, s)
<1>3. ASSUME NEW U \in SUBSET T, U # T PROVE IsSum(of(U), g, U)
  BY <1>1, <1>2, <1>3
<1> DEFINE F == [s \in SUBSET T |-> IF s = {} THEN 0 ELSE g[Pick(s)] + of(s \ {Pick(s)})[s \ {Pick(s)}]]
<1>4. ASSUME NEW s \in SUBSET T, s # {}
      PROVE F[s \ {Pick(s)}] = of(s \ {Pick(s)})[s \ {Pick(s)}]
  <2> DEFINE U == s \ {Pick(s)}
             V == U \ {Pick(U)}
  <2>1. U \in SUBSET T /\ U # T /\ IsFiniteSet(U)
    BY <1>4, <1>2, PickIn, FS_Subset
  <2>2. IsSum(of(U), g, U)
    BY <2>1, <1>3
  <2>3. of(U)[U] = IF U = {} THEN 0 ELSE g[Pick(U)] + of(U)[V]
    <3> HIDE DEF of, U
    <3> QED BY <2>2 DEF IsSum
  <2>4. U # {} => of(U)[V] = of(V)[V]
    <3>1. V \in SUBSET U 
      OBVIOUS
    <3>2. U # {} => V # T /\ V \in SUBSET T
      BY <2>1, PickIn
    <3>3. U # {} => IsSum(of(V), g, V)
      BY <1>3, <3>2
    <3> HIDE DEF of, U, V
    <3> QED BY <2>1, <2>2, <3>1, <3>3, SumUnique
  <2>5. F[U] = IF U = {} THEN 0 ELSE g[Pick(U)] + of(V)[V]
    <3> HIDE DEF of
    <3> QED BY <2>1
  <2> QED
    BY <2>3, <2>4, <2>5
<1>5. IsSum(F, g, T)
  <2> DEFINE R == [s \in SUBSET T |-> IF s = {} THEN 0 ELSE g[Pick(s)] + F[s \ {Pick(s)}]]
  <2>1. \A s \in SUBSET T : F[s] = R[s]
    <3> SUFFICES ASSUME NEW s \in SUBSET T PROVE F[s] = R[s] OBVIOUS
    <3>1. F[s] = IF s = {} THEN 0 ELSE g[Pick(s)] + of(s \ {Pick(s)})[s \ {Pick(s)}]
      <4> HIDE DEF of
      <4> QED OBVIOUS
    <3>2. R[s] = IF s = {} THEN 0 ELSE g[Pick(s)] + F[s \ {Pick(s)}]
      <4> HIDE DEF F
      <4> QED OBVIOUS
    <3> HIDE DEF F, R, of
    <3> QED BY <3>1, <3>2, <1>4
  <2>2. F = R
    <3>1. F = [s \in SUBSET T |-> F[s]]
      <4> HIDE DEF of
      <4> QED OBVIOUS
    <3>2. R = [s \in SUBSET T |-> R[s]]
      <4> HIDE DEF F
      <4> QED OBVIOUS
    <3> HIDE DEF F, R
    <3> QED BY <2>1, <3>1, <3>2
  <2> HIDE DEF F
  <2> QED BY <2>2 DEF IsSum
<1> QED
  BY <1>1, <1>5


\* So a sum is what the fold says.
LEMMA SumDef ==
  ASSUME NEW g, NEW S, IsFiniteSet(S)
  PROVE  SumFunctionOnSet(g, S) =
           IF S = {} THEN 0 ELSE g[Pick(S)] + SumFunctionOnSet(g, S \ {Pick(S)})
<1> DEFINE h == CHOOSE h : IsSum(h, g, S)
           T == S \ {Pick(S)}
           k == CHOOSE k : IsSum(k, g, T)
<1>1. IsSum(h, g, S) /\ SumFunctionOnSet(g, S) = h[S]
  BY SumExists, SumIs
<1>2. IsSum(k, g, T) /\ SumFunctionOnSet(g, T) = k[T]
  <2>1. IsFiniteSet(T)
    BY FS_Subset
  <2> HIDE DEF T
  <2> QED BY <2>1, SumExists, SumIs
<1> HIDE DEF h, k
<1>3. h[S] = IF S = {} THEN 0 ELSE g[Pick(S)] + h[T]
  BY <1>1 DEF IsSum
<1>4. h[T] = k[T]
  <2>1. T \in SUBSET S
    OBVIOUS
  <2> HIDE DEF T
  <2> QED BY <1>1, <1>2, <2>1, SumUnique
<1> QED
  BY <1>1, <1>2, <1>3, <1>4

----------------------------------------------------------------------------
(* What the proofs use. *)

\* The sum over no elements.
LEMMA SumEmpty ==
  ASSUME NEW g
  PROVE  SumFunctionOnSet(g, {}) = 0
  BY SumDef, FS_EmptySet

\* A sum stays in a set of integers that addition does not leave.
LEMMA SumIn ==
  ASSUME NEW N, N \subseteq Int, 0 \in N, \A a, b \in N : a + b \in N,
         NEW g, NEW S, IsFiniteSet(S), \A x \in S : g[x] \in N
  PROVE  SumFunctionOnSet(g, S) \in N
<1> DEFINE Bad == {s \in SUBSET S : SumFunctionOnSet(g, s) \notin N}
<1> SUFFICES ASSUME Bad # {} PROVE FALSE
  OBVIOUS
<1>1. PICK T \in Bad : \A U \in SUBSET T : U # T => U \notin Bad
  <2> HIDE DEF Bad
  <2>1. Bad \in SUBSET SUBSET S
    BY DEF Bad
  <2> QED BY <2>1, SmallestSubset
<1>2. T \in SUBSET S /\ IsFiniteSet(T)
  BY FS_Subset
<1>3. CASE T = {}
  BY <1>1, <1>3, SumEmpty
<1>4. CASE T # {}
  <2>1. Pick(T) \in T
    BY <1>4, PickIn
  <2>2. SumFunctionOnSet(g, T \ {Pick(T)}) \in N
    BY <1>1, <1>2, <2>1
  <2>3. SumFunctionOnSet(g, T) = g[Pick(T)] + SumFunctionOnSet(g, T \ {Pick(T)})
    BY <1>2, <1>4, SumDef
  <2>4. g[Pick(T)] \in N
    BY <1>2, <2>1
  <2> QED
    BY <1>1, <2>2, <2>3, <2>4
<1> QED
  BY <1>3, <1>4

LEMMA SumInt ==
  ASSUME NEW g, NEW S, IsFiniteSet(S), \A x \in S : g[x] \in Int
  PROVE  SumFunctionOnSet(g, S) \in Int
  BY SumIn

LEMMA SumNat ==
  ASSUME NEW g, NEW S, IsFiniteSet(S), \A x \in S : g[x] \in Nat
  PROVE  SumFunctionOnSet(g, S) \in Nat
<1>1. Nat \subseteq Int /\ 0 \in Nat /\ \A a, b \in Nat : a + b \in Nat
  OBVIOUS
<1> QED
  BY <1>1, SumIn

\* The order of summation is irrelevant: any element may be taken out first.
LEMMA SumRemove ==
  ASSUME NEW g, NEW S, IsFiniteSet(S), \A x \in S : g[x] \in Int, NEW a \in S
  PROVE  SumFunctionOnSet(g, S) = g[a] + SumFunctionOnSet(g, S \ {a})
<1> DEFINE Bad == {s \in SUBSET S : \E x \in s : SumFunctionOnSet(g, s) # g[x] + SumFunctionOnSet(g, s \ {x})}
<1> SUFFICES ASSUME Bad # {} PROVE FALSE
  OBVIOUS
<1>1. PICK T \in Bad : \A U \in SUBSET T : U # T => U \notin Bad
  <2> HIDE DEF Bad
  <2>1. Bad \in SUBSET SUBSET S
    BY DEF Bad
  <2> QED BY <2>1, SmallestSubset
<1>2. T \in SUBSET S /\ IsFiniteSet(T)
  BY FS_Subset
<1>3. PICK x \in T : SumFunctionOnSet(g, T) # g[x] + SumFunctionOnSet(g, T \ {x})
  BY <1>1
<1> DEFINE p == Pick(T)
           Tp == T \ {p}
           Tx == T \ {x}
           Tpx == T \ {p, x}
<1>4. p \in T /\ SumFunctionOnSet(g, T) = g[p] + SumFunctionOnSet(g, Tp)
  BY <1>2, SumDef, PickIn
<1>5. p # x
  BY <1>3, <1>4
<1>6. SumFunctionOnSet(g, Tp) = g[x] + SumFunctionOnSet(g, Tpx)
  <2>1. Tp \in SUBSET T /\ Tp # T /\ x \in Tp /\ Tp \ {x} = Tpx /\ Tp \in SUBSET S
    BY <1>2, <1>4, <1>5
  <2>2. Tp \notin Bad
    BY <1>1, <2>1
  <2> QED BY <2>1, <2>2
<1>7. SumFunctionOnSet(g, Tx) = g[p] + SumFunctionOnSet(g, Tpx)
  <2>1. Tx \in SUBSET T /\ Tx # T /\ p \in Tx /\ Tx \ {p} = Tpx /\ Tx \in SUBSET S
    BY <1>2, <1>4, <1>5
  <2>2. Tx \notin Bad
    BY <1>1, <2>1
  <2> QED BY <2>1, <2>2
<1>8. g[p] \in Int /\ g[x] \in Int /\ SumFunctionOnSet(g, Tpx) \in Int
  <2>1. IsFiniteSet(Tpx) /\ Tpx \subseteq S
    BY <1>2, FS_Subset
  <2> QED BY <1>2, <1>4, <2>1, SumInt
<1> QED
  BY <1>3, <1>4, <1>6, <1>7, <1>8

\* A new element is added to the sum.
LEMMA SumAdd ==
  ASSUME NEW g, NEW S, IsFiniteSet(S), \A x \in S : g[x] \in Int, NEW a, a \notin S, g[a] \in Int
  PROVE  SumFunctionOnSet(g, S \union {a}) = g[a] + SumFunctionOnSet(g, S)
<1>1. IsFiniteSet(S \union {a}) /\ (S \union {a}) \ {a} = S
  BY FS_AddElement
<1> QED
  BY <1>1, SumRemove

\* A sum is at most another if each of its elements has one of its own there that
\* is at least as large, and the others there are not negative.
LEMMA SumInto ==
  ASSUME NEW S, IsFiniteSet(S), NEW T, IsFiniteSet(T), NEW f, NEW g, NEW e \in [S -> T],
         \A x, y \in S : e[x] = e[y] => x = y,
         \A y \in T : g[y] \in Nat,
         \A x \in S : f[x] \in Int /\ f[x] <= g[e[x]]
  PROVE  SumFunctionOnSet(f, S) <= SumFunctionOnSet(g, T)
<1> DEFINE Image(s) == {e[x] : x \in s}
           Bad == {s \in SUBSET S : \E t \in SUBSET T :
                     Image(s) \subseteq t /\ ~ (SumFunctionOnSet(f, s) <= SumFunctionOnSet(g, t))}
<1> SUFFICES ASSUME Bad # {} PROVE FALSE
  OBVIOUS
<1>1. PICK A \in Bad : \A U \in SUBSET A : U # A => U \notin Bad
  <2> HIDE DEF Bad
  <2>1. Bad \in SUBSET SUBSET S
    BY DEF Bad
  <2> QED BY <2>1, SmallestSubset
<1>2. A \in SUBSET S /\ IsFiniteSet(A)
  BY FS_Subset
<1>3. PICK B \in SUBSET T : Image(A) \subseteq B /\ ~ (SumFunctionOnSet(f, A) <= SumFunctionOnSet(g, B))
  BY <1>1
<1>4. IsFiniteSet(B) /\ \A y \in B : g[y] \in Nat
  BY FS_Subset
<1>5. CASE A = {}
  BY <1>3, <1>4, <1>5, SumEmpty, SumNat
<1>6. CASE A # {}
  <2>1. PICK a \in A : TRUE
    BY <1>6
  <2> DEFINE A1 == A \ {a}
             B1 == B \ {e[a]}
  <2>2. SumFunctionOnSet(f, A) = f[a] + SumFunctionOnSet(f, A1)
    BY <1>2, <2>1, SumRemove
  <2>3. e[a] \in B
    BY <1>3, <2>1
  <2>4. SumFunctionOnSet(g, B) = g[e[a]] + SumFunctionOnSet(g, B1)
    BY <1>4, <2>3, SumRemove
  <2>5. SumFunctionOnSet(f, A1) <= SumFunctionOnSet(g, B1)
    <3>1. A1 \in SUBSET A /\ A1 # A /\ B1 \in SUBSET T /\ A1 \in SUBSET S
      BY <1>2, <2>1
    <3>2. Image(A1) \subseteq B1
      <4>1. ASSUME NEW x \in A1 PROVE e[x] \in B1
        BY <1>2, <1>3, <2>1
      <4> QED BY <4>1
    <3>3. A1 \notin Bad
      BY <1>1, <3>1
    <3> QED BY <3>1, <3>2, <3>3
  <2>6. f[a] <= g[e[a]] /\ f[a] \in Int /\ g[e[a]] \in Int
    BY <1>2, <2>1
  <2>7. SumFunctionOnSet(f, A1) \in Int /\ SumFunctionOnSet(g, B1) \in Int
    <3>1. IsFiniteSet(A1) /\ IsFiniteSet(B1)
      BY <1>2, <1>4, FS_Subset
    <3>2. (\A x \in A1 : f[x] \in Int) /\ (\A y \in B1 : g[y] \in Int)
      BY <1>2, <1>4
    <3> QED BY <3>1, <3>2, SumInt
  <2> QED
    BY <1>3, <2>2, <2>4, <2>5, <2>6, <2>7
<1> QED
  BY <1>5, <1>6

\* Elements that are not negative add to a sum or leave it as it is.
LEMMA SumGrows ==
  ASSUME NEW g, NEW T, IsFiniteSet(T), NEW S \in SUBSET T, \A x \in T : g[x] \in Nat
  PROVE  SumFunctionOnSet(g, S) <= SumFunctionOnSet(g, T)
<1> DEFINE id == [x \in S |-> x]
<1>1. id \in [S -> T] /\ (\A x \in S : id[x] = x) /\ IsFiniteSet(S)
  BY FS_Subset
<1> HIDE DEF id
<1> QED
  BY <1>1, SumInto

=============================================================================
