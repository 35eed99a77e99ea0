----------------------------- MODULE Sums_proofs -----------------------------
(***************************************************************************)
(* Laws of SumFunctionOnSet, the sum of the values of a function over a    *)
(* finite set, which the accounts of Machines, Deposits and Withdrawals    *)
(* are made of.                                                            *)
(*                                                                         *)
(* The operator is a recursive function on the subsets of the set.  All    *)
(* proofs by induction take a minimal counterexample among these subsets:  *)
(* MinimalSubset says that there is one.                                   *)
(***************************************************************************)
EXTENDS FiniteSetsExt, FiniteSetTheorems, TLAPS

(* Among subsets of a finite set, one has no other that it contains.        *)
LEMMA MinimalSubset ==
  ASSUME NEW S, IsFiniteSet(S), NEW B, B \subseteq SUBSET S, B # {}
  PROVE  \E T \in B : \A U \in B : U \subseteq T => U = T
<1>1. IsWellFoundedOn(StrictSubsetOrdering(S), SUBSET S)
  BY FS_StrictSubsetOrderingWellFounded, FS_FiniteSubsetsOfFinite
<1> DEFINE R == StrictSubsetOrdering(S)
<1>2. PICK T \in B : \A U \in B : ~ (<<U, T>> \in R)
  <2> HIDE DEF R
  <2>1. IsWellFoundedOn(R, SUBSET S)
    BY <1>1 DEF R
  <2> QED BY <2>1, WFMin
<1>3. ASSUME NEW U \in B, U \subseteq T
      PROVE  U = T
  <2>1. U \in SUBSET S /\ T \in SUBSET S
    OBVIOUS
  <2>2. U # T => <<U, T>> \in R
    BY <2>1, <1>3 DEF StrictSubsetOrdering
  <2> QED BY <2>2, <1>2
<1> QED BY <1>3

-----------------------------------------------------------------------------
(* The recursion that SumFunctionOnSet(f, T) stands for                     *)
Pick(U) == CHOOSE x \in U : TRUE
SumsUp(g, f, T) == g = [U \in SUBSET T |-> IF U = {} THEN 0
                                           ELSE f[Pick(U)] + g[U \ {Pick(U)}]]

(* SumFunctionOnSet is the value at the whole set of some function that     *)
(* obeys its recursion, if there is any.                                    *)
LEMMA SumUnfolds ==
  ASSUME NEW f, NEW S
  PROVE  SumFunctionOnSet(f, S) = (CHOOSE g : SumsUp(g, f, S))[S]
BY DEF SumFunctionOnSet, FoldFunctionOnSet, MapThenFoldSet, SumsUp, Pick

(* At most one function obeys the recursion, also where its domains differ. *)
LEMMA SumsAgree ==
  ASSUME NEW f, NEW W, IsFiniteSet(W), NEW V \in SUBSET W,
         NEW g, NEW h, SumsUp(g, f, V), SumsUp(h, f, W)
  PROVE  \A U \in SUBSET V : g[U] = h[U]
<1> DEFINE B == {U \in SUBSET V : g[U] # h[U]}
<1>1. SUFFICES ASSUME B # {} PROVE FALSE
  OBVIOUS
<1>2. IsFiniteSet(V)
  BY FS_Subset
<1>3. PICK U \in B : \A T \in B : T \subseteq U => T = U
  <2>1. B \subseteq SUBSET V
    OBVIOUS
  <2> HIDE DEF B
  <2> QED BY <1>1, <1>2, <2>1, MinimalSubset
<1>4. U # {}
  BY DEF SumsUp
<1>5. Pick(U) \in U
  BY <1>4 DEF Pick
<1>6. g[U \ {Pick(U)}] = h[U \ {Pick(U)}]
  BY <1>3, <1>5
<1>7. /\ g[U] = f[Pick(U)] + g[U \ {Pick(U)}]
      /\ h[U] = f[Pick(U)] + h[U \ {Pick(U)}]
  BY <1>4 DEF SumsUp
<1> QED BY <1>6, <1>7

(* Some function obeys the recursion.                                       *)
LEMMA SumsExist ==
  ASSUME NEW f, NEW S, IsFiniteSet(S)
  PROVE  \E g : SumsUp(g, f, S)
<1> DEFINE B == {T \in SUBSET S : ~ \E g : SumsUp(g, f, T)}
<1>1. SUFFICES ASSUME B # {} PROVE FALSE
  OBVIOUS
<1>2. PICK T \in B : \A U \in B : U \subseteq T => U = T
  <2>1. B \subseteq SUBSET S
    OBVIOUS
  <2> HIDE DEF B
  <2> QED BY <1>1, <2>1, MinimalSubset
<1> DEFINE G(U) == CHOOSE g : SumsUp(g, f, U)
           Rest(U) == U \ {Pick(U)}
           h == [U \in SUBSET T |-> IF U = {} THEN 0 ELSE f[Pick(U)] + G(Rest(U))[Rest(U)]]
<1>3. ASSUME NEW U \in SUBSET T, U # T
      PROVE  SumsUp(G(U), f, U)
  <2>1. \E g : SumsUp(g, f, U)
    BY <1>2, <1>3
  <2> QED BY <2>1
<1>4. ASSUME NEW U \in SUBSET T, U # {}
      PROVE  Rest(U) \in SUBSET T /\ Rest(U) # T /\ Rest(U) # U
  <2>1. Pick(U) \in U
    BY <1>4 DEF Pick
  <2> QED BY <2>1
<1>5. ASSUME NEW V \in SUBSET T, V # T
      PROVE  G(V)[V] = h[V]
  <2>1. SumsUp(G(V), f, V)
    BY <1>3, <1>5
  <2>2. G(V)[V] = IF V = {} THEN 0 ELSE f[Pick(V)] + G(V)[Rest(V)]
    <3> HIDE DEF G
    <3> QED BY <2>1 DEF SumsUp
  <2>3. ASSUME V # {}
        PROVE  G(Rest(V))[Rest(V)] = G(V)[Rest(V)]
    <3>1. Rest(V) \in SUBSET T /\ Rest(V) # T
      BY <1>4, <2>3
    <3>2. SumsUp(G(Rest(V)), f, Rest(V))
      BY <3>1, <1>3
    <3>3. IsFiniteSet(V) /\ Rest(V) \in SUBSET V
      <4>1. V \in SUBSET S
        BY <1>2
      <4> QED BY <4>1, FS_Subset
    <3> HIDE DEF G, Rest
    <3> QED BY <2>1, <3>2, <3>3, SumsAgree
  <2>4. h[V] = IF V = {} THEN 0 ELSE f[Pick(V)] + G(Rest(V))[Rest(V)]
    <3> HIDE DEF G, Rest
    <3> QED OBVIOUS
  <2> HIDE DEF G, Rest, h
  <2> QED BY <2>2, <2>3, <2>4
<1>6. \A U \in SUBSET T : U # {} => G(Rest(U))[Rest(U)] = h[Rest(U)]
  <2> HIDE DEF G, Rest, h
  <2> QED BY <1>4, <1>5
<1>7. h = [U \in SUBSET T |-> IF U = {} THEN 0 ELSE f[Pick(U)] + h[Rest(U)]]
  <2>1. \A U \in SUBSET T : h[U] = IF U = {} THEN 0 ELSE f[Pick(U)] + h[Rest(U)]
    <3>1. \A U \in SUBSET T : h[U] = IF U = {} THEN 0 ELSE f[Pick(U)] + G(Rest(U))[Rest(U)]
      <4> HIDE DEF G, Rest
      <4> QED OBVIOUS
    <3> HIDE DEF G, Rest, h
    <3> QED BY <3>1, <1>6
  <2>2. h = [U \in SUBSET T |-> h[U]]
    OBVIOUS
  <2> HIDE DEF G, Rest, h
  <2> QED BY <2>1, <2>2
<1>8. SumsUp(h, f, T)
  <2> HIDE DEF h
  <2> QED BY <1>7 DEF SumsUp
<1> QED BY <1>2, <1>8

(* What SumFunctionOnSet is: nothing over the empty set, else the value at  *)
(* one element and the sum over the others.                                 *)
LEMMA SumOne ==
  ASSUME NEW f, NEW S, IsFiniteSet(S), S # {}
  PROVE  /\ Pick(S) \in S
         /\ SumFunctionOnSet(f, S) = f[Pick(S)] + SumFunctionOnSet(f, S \ {Pick(S)})
<1> DEFINE T == S \ {Pick(S)}
           g == CHOOSE g : SumsUp(g, f, S)
           h == CHOOSE h : SumsUp(h, f, T)
<1>1. Pick(S) \in S
  BY DEF Pick
<1>2. IsFiniteSet(T) /\ T \in SUBSET S
  BY FS_Subset
<1>3. SumsUp(g, f, S) /\ SumsUp(h, f, T)
  BY <1>2, SumsExist
<1>4. SumFunctionOnSet(f, S) = g[S] /\ SumFunctionOnSet(f, T) = h[T]
  BY SumUnfolds
<1> HIDE DEF g, h
<1>5. g[S] = f[Pick(S)] + g[T]
  BY <1>3 DEF SumsUp
<1>6. h[T] = g[T]
  BY <1>2, <1>3, SumsAgree
<1> QED BY <1>1, <1>4, <1>5, <1>6

LEMMA SumEmpty == \A f : SumFunctionOnSet(f, {}) = 0
<1> TAKE f
<1> DEFINE g == CHOOSE g : SumsUp(g, f, {})
<1>1. SumsUp(g, f, {})
  BY SumsExist, FS_EmptySet
<1>2. SumFunctionOnSet(f, {}) = g[{}]
  BY SumUnfolds
<1> HIDE DEF g
<1>3. g[{}] = 0
  BY <1>1 DEF SumsUp
<1> QED BY <1>2, <1>3

-----------------------------------------------------------------------------
(* Sums of integers are integers, and of naturals naturals.                 *)
LEMMA SumInt ==
  ASSUME NEW f, NEW S, IsFiniteSet(S), \A x \in S : f[x] \in Int
  PROVE  SumFunctionOnSet(f, S) \in Int
<1> DEFINE B == {T \in SUBSET S : SumFunctionOnSet(f, T) \notin Int}
<1>1. SUFFICES ASSUME B # {} PROVE FALSE
  OBVIOUS
<1>2. PICK T \in B : \A U \in B : U \subseteq T => U = T
  <2>1. B \subseteq SUBSET S
    OBVIOUS
  <2> HIDE DEF B
  <2> QED BY <1>1, <2>1, MinimalSubset
<1>3. T \in SUBSET S /\ IsFiniteSet(T)
  BY FS_Subset
<1>4. T # {}
  BY <1>2, SumEmpty
<1>5. /\ Pick(T) \in T
      /\ SumFunctionOnSet(f, T) = f[Pick(T)] + SumFunctionOnSet(f, T \ {Pick(T)})
  BY <1>3, <1>4, SumOne
<1>6. SumFunctionOnSet(f, T \ {Pick(T)}) \in Int
  BY <1>2, <1>3, <1>5
<1> QED BY <1>2, <1>3, <1>5, <1>6

LEMMA SumNat ==
  ASSUME NEW f, NEW S, IsFiniteSet(S), \A x \in S : f[x] \in Nat
  PROVE  SumFunctionOnSet(f, S) \in Nat
<1> DEFINE B == {T \in SUBSET S : SumFunctionOnSet(f, T) \notin Nat}
<1>1. SUFFICES ASSUME B # {} PROVE FALSE
  OBVIOUS
<1>2. PICK T \in B : \A U \in B : U \subseteq T => U = T
  <2>1. B \subseteq SUBSET S
    OBVIOUS
  <2> HIDE DEF B
  <2> QED BY <1>1, <2>1, MinimalSubset
<1>3. T \in SUBSET S /\ IsFiniteSet(T)
  BY FS_Subset
<1>4. T # {}
  <2>1. {} \notin B
    BY SumEmpty
  <2> QED BY <2>1
<1>5. /\ Pick(T) \in T
      /\ SumFunctionOnSet(f, T) = f[Pick(T)] + SumFunctionOnSet(f, T \ {Pick(T)})
  BY <1>3, <1>4, SumOne
<1>6. SumFunctionOnSet(f, T \ {Pick(T)}) \in Nat
  BY <1>2, <1>3, <1>5
<1> QED BY <1>2, <1>3, <1>5, <1>6

(* The element taken first does not matter.                                 *)
LEMMA SumRemove ==
  ASSUME NEW f, NEW S, IsFiniteSet(S), \A x \in S : f[x] \in Int, NEW x \in S
  PROVE  SumFunctionOnSet(f, S) = f[x] + SumFunctionOnSet(f, S \ {x})
<1> DEFINE B == {T \in SUBSET S : \E y \in T :
                   SumFunctionOnSet(f, T) # f[y] + SumFunctionOnSet(f, T \ {y})}
<1>1. SUFFICES ASSUME B # {} PROVE FALSE
  OBVIOUS
<1>2. PICK T \in B : \A U \in B : U \subseteq T => U = T
  <2>1. B \subseteq SUBSET S
    OBVIOUS
  <2> HIDE DEF B
  <2> QED BY <1>1, <2>1, MinimalSubset
<1>3. T \in SUBSET S /\ IsFiniteSet(T)
  BY FS_Subset
<1>4. PICK y \in T : SumFunctionOnSet(f, T) # f[y] + SumFunctionOnSet(f, T \ {y})
  BY <1>2
<1> DEFINE p == Pick(T)
<1>5. p \in T /\ SumFunctionOnSet(f, T) = f[p] + SumFunctionOnSet(f, T \ {p})
  BY <1>3, <1>4, SumOne
<1> HIDE DEF p
<1>6. y # p
  BY <1>4, <1>5
<1>7. SumFunctionOnSet(f, T \ {p}) = f[y] + SumFunctionOnSet(f, (T \ {p}) \ {y})
  <2>1. T \ {p} \notin B /\ T \ {p} \in SUBSET S
    BY <1>2, <1>3, <1>5
  <2> QED BY <2>1, <1>6
<1>8. SumFunctionOnSet(f, T \ {y}) = f[p] + SumFunctionOnSet(f, (T \ {y}) \ {p})
  <2>1. T \ {y} \notin B /\ T \ {y} \in SUBSET S
    BY <1>2, <1>3, <1>4
  <2> QED BY <2>1, <1>5, <1>6
<1> DEFINE R == (T \ {y}) \ {p}
<1>9. R = (T \ {p}) \ {y}
  OBVIOUS
<1>10. SumFunctionOnSet(f, R) \in Int
  <2>1. IsFiniteSet(R) /\ \A z \in R : f[z] \in Int
    BY <1>3, FS_Subset
  <2> HIDE DEF R
  <2> QED BY <2>1, SumInt
<1>11. f[p] \in Int /\ f[y] \in Int
  BY <1>3, <1>5
<1> HIDE DEF R
<1>12. /\ SumFunctionOnSet(f, T \ {p}) = f[y] + SumFunctionOnSet(f, R)
       /\ SumFunctionOnSet(f, T \ {y}) = f[p] + SumFunctionOnSet(f, R)
  BY <1>7, <1>8, <1>9 DEF R
<1> QED BY <1>4, <1>5, <1>10, <1>11, <1>12

LEMMA SumAdd ==
  ASSUME NEW f, NEW S, IsFiniteSet(S), \A y \in S : f[y] \in Int,
         NEW x, x \notin S, f[x] \in Int
  PROVE  SumFunctionOnSet(f, S \cup {x}) = SumFunctionOnSet(f, S) + f[x]
<1> DEFINE T == S \cup {x}
<1>1. IsFiniteSet(T) /\ x \in T /\ T \ {x} = S /\ \A y \in T : f[y] \in Int
  BY FS_AddElement
<1> HIDE DEF T
<1>2. SumFunctionOnSet(f, T) = f[x] + SumFunctionOnSet(f, S)
  BY <1>1, SumRemove
<1>3. SumFunctionOnSet(f, S) \in Int
  BY SumInt
<1> QED BY <1>2, <1>3 DEF T

(* Only the values over the set count.                                      *)
LEMMA SumSame ==
  ASSUME NEW f, NEW g, NEW S, IsFiniteSet(S), \A x \in S : f[x] = g[x]
  PROVE  SumFunctionOnSet(f, S) = SumFunctionOnSet(g, S)
<1> DEFINE B == {T \in SUBSET S : SumFunctionOnSet(f, T) # SumFunctionOnSet(g, T)}
<1>1. SUFFICES ASSUME B # {} PROVE FALSE
  OBVIOUS
<1>2. PICK T \in B : \A U \in B : U \subseteq T => U = T
  <2>1. B \subseteq SUBSET S
    OBVIOUS
  <2> HIDE DEF B
  <2> QED BY <1>1, <2>1, MinimalSubset
<1>3. T \in SUBSET S /\ IsFiniteSet(T)
  BY FS_Subset
<1>4. T # {}
  <2>1. SumFunctionOnSet(f, {}) = 0 /\ SumFunctionOnSet(g, {}) = 0
    BY SumEmpty
  <2>2. {} \notin B
    BY <2>1
  <2> QED BY <2>2
<1>5. /\ Pick(T) \in T
      /\ SumFunctionOnSet(f, T) = f[Pick(T)] + SumFunctionOnSet(f, T \ {Pick(T)})
      /\ SumFunctionOnSet(g, T) = g[Pick(T)] + SumFunctionOnSet(g, T \ {Pick(T)})
  BY <1>3, <1>4, SumOne
<1>6. SumFunctionOnSet(f, T \ {Pick(T)}) = SumFunctionOnSet(g, T \ {Pick(T)})
  BY <1>2, <1>3, <1>5
<1> QED BY <1>2, <1>3, <1>5, <1>6

(* The sum over a set is that over a part of it and that over the rest.     *)
LEMMA SumSplit ==
  ASSUME NEW f, NEW S, IsFiniteSet(S), \A x \in S : f[x] \in Int, NEW P \in SUBSET S
  PROVE  SumFunctionOnSet(f, S) = SumFunctionOnSet(f, P) + SumFunctionOnSet(f, S \ P)
<1> DEFINE B == {T \in SUBSET P :
                   SumFunctionOnSet(f, S) # SumFunctionOnSet(f, T) + SumFunctionOnSet(f, S \ T)}
<1>1. SUFFICES ASSUME B # {} PROVE FALSE
  OBVIOUS
<1>2. PICK T \in B : \A U \in B : U \subseteq T => U = T
  <2>1. B \subseteq SUBSET P /\ IsFiniteSet(P)
    BY FS_Subset
  <2> HIDE DEF B
  <2> QED BY <1>1, <2>1, MinimalSubset
<1>3. T \in SUBSET S /\ IsFiniteSet(T)
  BY FS_Subset
<1>4. SumFunctionOnSet(f, S) \in Int
  BY SumInt
<1>5. T # {}
  <2>1. S \ {} = S /\ SumFunctionOnSet(f, {}) = 0
    BY SumEmpty
  <2>2. SumFunctionOnSet(f, S) = 0 + SumFunctionOnSet(f, S)
    BY <1>4
  <2>3. {} \notin B
    BY <2>1, <2>2
  <2> QED BY <2>3
<1>6. PICK x \in T : TRUE
  BY <1>5
<1> DEFINE U == T \ {x}
<1>7. U \in SUBSET S /\ U \in SUBSET P /\ IsFiniteSet(U) /\ IsFiniteSet(S \ U) /\ IsFiniteSet(S \ T)
  BY <1>3, FS_Subset
<1>8. SumFunctionOnSet(f, S) = SumFunctionOnSet(f, U) + SumFunctionOnSet(f, S \ U)
  <2>1. U \notin B
    BY <1>2, <1>6
  <2> QED BY <2>1, <1>7
<1>9. SumFunctionOnSet(f, T) = f[x] + SumFunctionOnSet(f, U)
  BY <1>3, SumRemove
<1>10. SumFunctionOnSet(f, S \ U) = f[x] + SumFunctionOnSet(f, S \ T)
  <2> DEFINE V == S \ U
  <2>1. x \in V /\ V \ {x} = S \ T /\ IsFiniteSet(V) /\ \A y \in V : f[y] \in Int
    BY <1>3, <1>7
  <2> HIDE DEF V
  <2>2. SumFunctionOnSet(f, V) = f[x] + SumFunctionOnSet(f, V \ {x})
    BY <2>1, SumRemove
  <2> QED BY <2>1, <2>2 DEF V
<1>11. /\ SumFunctionOnSet(f, U) \in Int /\ SumFunctionOnSet(f, S \ T) \in Int
       /\ f[x] \in Int
  <2>1. \A y \in U : f[y] \in Int
    BY <1>7
  <2>2. SumFunctionOnSet(f, U) \in Int
    BY <1>7, <2>1, SumInt
  <2>3. SumFunctionOnSet(f, S \ T) \in Int
    BY <1>7, SumInt
  <2> QED BY <2>2, <2>3, <1>3
<1> HIDE DEF U
<1> QED BY <1>2, <1>8, <1>9, <1>10, <1>11

(* A sum of sums                                                            *)
LEMMA SumOfSums ==
  ASSUME NEW f, NEW g, NEW h, NEW S, IsFiniteSet(S),
         \A x \in S : f[x] \in Int /\ g[x] \in Int /\ h[x] = f[x] + g[x]
  PROVE  SumFunctionOnSet(h, S) = SumFunctionOnSet(f, S) + SumFunctionOnSet(g, S)
<1> DEFINE B == {T \in SUBSET S :
                   SumFunctionOnSet(h, T) # SumFunctionOnSet(f, T) + SumFunctionOnSet(g, T)}
<1>1. SUFFICES ASSUME B # {} PROVE FALSE
  OBVIOUS
<1>2. PICK T \in B : \A U \in B : U \subseteq T => U = T
  <2>1. B \subseteq SUBSET S
    OBVIOUS
  <2> HIDE DEF B
  <2> QED BY <1>1, <2>1, MinimalSubset
<1>3. T \in SUBSET S /\ IsFiniteSet(T)
  BY FS_Subset
<1>4. T # {}
  <2>1. /\ SumFunctionOnSet(f, {}) = 0 /\ SumFunctionOnSet(g, {}) = 0
        /\ SumFunctionOnSet(h, {}) = 0
    BY SumEmpty
  <2>2. {} \notin B
    BY <2>1
  <2> QED BY <2>2
<1> DEFINE p == Pick(T)
           U == T \ {p}
<1>5. /\ p \in T
      /\ SumFunctionOnSet(f, T) = f[p] + SumFunctionOnSet(f, U)
      /\ SumFunctionOnSet(g, T) = g[p] + SumFunctionOnSet(g, U)
      /\ SumFunctionOnSet(h, T) = h[p] + SumFunctionOnSet(h, U)
  BY <1>3, <1>4, SumOne
<1>6. U \in SUBSET S /\ IsFiniteSet(U) /\ U \notin B
  BY <1>2, <1>3, <1>5, FS_Subset
<1>7. SumFunctionOnSet(h, U) = SumFunctionOnSet(f, U) + SumFunctionOnSet(g, U)
  BY <1>6
<1>8. SumFunctionOnSet(f, U) \in Int /\ SumFunctionOnSet(g, U) \in Int
  <2>1. \A x \in U : f[x] \in Int /\ g[x] \in Int
    BY <1>6
  <2> HIDE DEF U
  <2> QED BY <1>6, <2>1, SumInt
<1> HIDE DEF U, p
<1> QED BY <1>2, <1>3, <1>5, <1>7, <1>8

-----------------------------------------------------------------------------
(* Consequences of these, in the form in which they are used.               *)
LEMMA SumPart ==
  ASSUME NEW f, NEW S, IsFiniteSet(S), \A x \in S : f[x] \in Nat, NEW P \in SUBSET S
  PROVE  /\ SumFunctionOnSet(f, P) \in Nat
         /\ SumFunctionOnSet(f, P) <= SumFunctionOnSet(f, S)
         /\ SumFunctionOnSet(f, S \ P) = SumFunctionOnSet(f, S) - SumFunctionOnSet(f, P)
<1>1. IsFiniteSet(P) /\ IsFiniteSet(S \ P)
  BY FS_Subset
<1>2. SumFunctionOnSet(f, P) \in Nat /\ SumFunctionOnSet(f, S \ P) \in Nat
  BY <1>1, SumNat
<1>3. SumFunctionOnSet(f, S) = SumFunctionOnSet(f, P) + SumFunctionOnSet(f, S \ P)
  BY SumSplit
<1> QED BY <1>2, <1>3

LEMMA SumElement ==
  ASSUME NEW f, NEW S, IsFiniteSet(S), \A x \in S : f[x] \in Nat, NEW x \in S
  PROVE  f[x] <= SumFunctionOnSet(f, S)
<1>1. SumFunctionOnSet(f, S) = f[x] + SumFunctionOnSet(f, S \ {x})
  BY SumRemove
<1>2. SumFunctionOnSet(f, S \ {x}) \in Nat
  <2>1. IsFiniteSet(S \ {x})
    BY FS_Subset
  <2> QED BY <2>1, SumNat
<1> QED BY <1>1, <1>2

LEMMA SumUnion ==
  ASSUME NEW f, NEW S, IsFiniteSet(S), NEW T, IsFiniteSet(T), S \cap T = {},
         \A x \in S \cup T : f[x] \in Int
  PROVE  SumFunctionOnSet(f, S \cup T) = SumFunctionOnSet(f, S) + SumFunctionOnSet(f, T)
<1> DEFINE W == S \cup T
<1>1. IsFiniteSet(W) /\ S \in SUBSET W /\ W \ S = T /\ \A x \in W : f[x] \in Int
  BY FS_Union
<1> HIDE DEF W
<1>2. SumFunctionOnSet(f, W) = SumFunctionOnSet(f, S) + SumFunctionOnSet(f, W \ S)
  BY <1>1, SumSplit
<1> QED BY <1>1, <1>2 DEF W

LEMMA SumAtMost ==
  ASSUME NEW f, NEW g, NEW S, IsFiniteSet(S),
         \A x \in S : f[x] \in Int /\ g[x] \in Int /\ f[x] <= g[x]
  PROVE  SumFunctionOnSet(f, S) <= SumFunctionOnSet(g, S)
<1> DEFINE d == [x \in S |-> g[x] - f[x]]
<1>1. \A x \in S : d[x] \in Nat /\ d[x] \in Int /\ g[x] = f[x] + d[x]
  OBVIOUS
<1> HIDE DEF d
<1>2. SumFunctionOnSet(g, S) = SumFunctionOnSet(f, S) + SumFunctionOnSet(d, S)
  BY <1>1, SumOfSums
<1>3. SumFunctionOnSet(d, S) \in Nat
  BY <1>1, SumNat
<1>4. SumFunctionOnSet(f, S) \in Int
  BY SumInt
<1> QED BY <1>2, <1>3, <1>4

(* One value changes.                                                       *)
LEMMA SumChange ==
  ASSUME NEW f, NEW g, NEW S, IsFiniteSet(S), \A x \in S : f[x] \in Int /\ g[x] \in Int,
         NEW x \in S, \A y \in S \ {x} : g[y] = f[y]
  PROVE  SumFunctionOnSet(g, S) = SumFunctionOnSet(f, S) - f[x] + g[x]
<1>1. IsFiniteSet(S \ {x})
  BY FS_Subset
<1>2. /\ SumFunctionOnSet(f, S) = f[x] + SumFunctionOnSet(f, S \ {x})
      /\ SumFunctionOnSet(g, S) = g[x] + SumFunctionOnSet(g, S \ {x})
  BY SumRemove
<1>3. SumFunctionOnSet(f, S \ {x}) = SumFunctionOnSet(g, S \ {x})
  BY <1>1, SumSame
<1>4. SumFunctionOnSet(f, S \ {x}) \in Int
  BY <1>1, SumInt
<1> QED BY <1>2, <1>3, <1>4

(* A sum of zeros                                                           *)
LEMMA SumZeros ==
  ASSUME NEW f, NEW S, IsFiniteSet(S), \A x \in S : f[x] = 0
  PROVE  SumFunctionOnSet(f, S) = 0
<1> DEFINE sum == SumFunctionOnSet(f, S)
<1>1. \A x \in S : f[x] \in Int /\ f[x] = f[x] + f[x]
  OBVIOUS
<1>2. sum = sum + sum
  BY <1>1, SumOfSums
<1>3. sum \in Int
  BY <1>1, SumInt
<1> HIDE DEF sum
<1>4. sum = 0
  BY <1>2, <1>3
<1> QED BY <1>4 DEF sum

(* Zeros do not count: a sum over a part is one over the whole set with zeros *)
(* for the rest.                                                            *)
LEMMA SumWithZeros ==
  ASSUME NEW f, NEW g, NEW S, IsFiniteSet(S), NEW P \in SUBSET S, \A x \in S : f[x] \in Int,
         \A x \in S \ P : f[x] = 0, \A x \in P : g[x] = f[x]
  PROVE  SumFunctionOnSet(g, P) = SumFunctionOnSet(f, S)
<1>1. IsFiniteSet(P) /\ IsFiniteSet(S \ P)
  BY FS_Subset
<1>2. SumFunctionOnSet(f, S) = SumFunctionOnSet(f, P) + SumFunctionOnSet(f, S \ P)
  BY SumSplit
<1>3. SumFunctionOnSet(f, S \ P) = 0
  BY <1>1, SumZeros
<1>4. SumFunctionOnSet(g, P) = SumFunctionOnSet(f, P)
  BY <1>1, SumSame
<1>5. SumFunctionOnSet(f, P) \in Int
  BY <1>1, SumInt
<1> QED BY <1>2, <1>3, <1>4, <1>5

(* A finite set of integers has a maximum, and Max is that.                 *)
LEMMA MaxIsGreatest ==
  ASSUME NEW S, IsFiniteSet(S), S # {}, S \subseteq Int
  PROVE  Max(S) \in S /\ \A y \in S : y <= Max(S)
<1> DEFINE Above(x) == {y \in S : y > x}
           B == {T \in SUBSET S : \E x \in S : T = Above(x)}
<1>1. PICK T \in B : \A U \in B : U \subseteq T => U = T
  <2>1. B \subseteq SUBSET S
    OBVIOUS
  <2>2. B # {}
    <3>1. PICK x \in S : TRUE
      OBVIOUS
    <3>2. Above(x) \in B
      BY <3>1
    <3> QED BY <3>2
  <2> HIDE DEF B, Above
  <2>3. IsFiniteSet(S)
    OBVIOUS
  <2> QED BY ONLY <2>1, <2>2, <2>3, MinimalSubset
<1>2. PICK x \in S : T = Above(x)
  OBVIOUS
<1>3. ASSUME NEW y \in S, y > x
      PROVE  FALSE
  <2>0. y \in Int /\ x \in Int
    OBVIOUS
  <2>1. Above(y) \subseteq Above(x) /\ Above(y) \in B
    <3>1. \A z \in S : z > y => z > x
      <4>1. \A z \in S : z \in Int
        OBVIOUS
      <4> QED BY <1>3, <2>0, <4>1
    <3> QED BY <3>1
  <2>2. y \in Above(x) /\ y \notin Above(y)
    BY <1>3
  <2> QED BY <1>1, <1>2, <2>1, <2>2
<1>4. \A y \in S : x >= y
  BY <1>3
<1>5. \E z \in S : \A y \in S : z >= y
  BY <1>4
<1> QED BY <1>5 DEF Max

(* Max and Min of two numbers                                               *)
LEMMA MaxOfTwo == \A a, b \in Int : Max({a, b}) = IF a >= b THEN a ELSE b
<1> TAKE a, b \in Int
<1> DEFINE m == IF a >= b THEN a ELSE b
<1>1. m \in {a, b} /\ \A y \in {a, b} : m >= y
  OBVIOUS
<1>2. \A x \in {a, b} : (\A y \in {a, b} : x >= y) => x = m
  OBVIOUS
<1> HIDE DEF m
<1>3. Max({a, b}) \in {a, b} /\ \A y \in {a, b} : Max({a, b}) >= y
  BY <1>1 DEF Max
<1> QED BY <1>2, <1>3 DEF m

LEMMA MinOfTwo == \A a, b \in Int : Min({a, b}) = IF a <= b THEN a ELSE b
<1> TAKE a, b \in Int
<1> DEFINE m == IF a <= b THEN a ELSE b
<1>1. m \in {a, b} /\ \A y \in {a, b} : m =< y
  OBVIOUS
<1>2. \A x \in {a, b} : (\A y \in {a, b} : x =< y) => x = m
  OBVIOUS
<1> HIDE DEF m
<1>3. Min({a, b}) \in {a, b} /\ \A y \in {a, b} : Min({a, b}) =< y
  BY <1>1 DEF Min
<1> QED BY <1>2, <1>3 DEF m

(* What a function makes of a finite set is finite.                         *)
LEMMA ImageIsFinite ==
  ASSUME NEW S, IsFiniteSet(S), NEW f
  PROVE  IsFiniteSet({f[x] : x \in S})
<1> DEFINE T == {f[x] : x \in S}
           g == [x \in S |-> f[x]]
<1>1. g \in Surjection(S, T)
  BY DEF Surjection
<1> HIDE DEF g, T
<1>2. IsFiniteSet(T)
  BY <1>1, FS_Surjection
<1> QED BY <1>2 DEF T

(* Triples of elements of finite sets are finitely many.                    *)
LEMMA TriplesAreFinite ==
  ASSUME NEW A, NEW B, NEW C, IsFiniteSet(A), IsFiniteSet(B), IsFiniteSet(C)
  PROVE  IsFiniteSet(A \X B \X C)
<1> DEFINE P == (A \X B) \X C
           f == [x \in P |-> <<x[1][1], x[1][2], x[2]>>]
<1>1. IsFiniteSet(P)
  <2>1. IsFiniteSet(A \X B)
    BY FS_Product
  <2> QED BY <2>1, FS_Product
<1>2. A \X B \X C = {f[x] : x \in P}
  <2>1. \A x \in P : f[x] \in A \X B \X C
    OBVIOUS
  <2>2. ASSUME NEW y \in A \X B \X C
        PROVE  \E x \in P : y = f[x]
    <3>1. PICK a \in A, b \in B, c \in C : y = <<a, b, c>>
      OBVIOUS
    <3>2. <<<<a, b>>, c>> \in P /\ f[<<<<a, b>>, c>>] = <<a, b, c>>
      OBVIOUS
    <3> QED BY <3>1, <3>2
  <2> HIDE DEF f, P
  <2> QED BY <2>1, <2>2
<1> HIDE DEF f, P
<1> QED BY <1>1, <1>2, ImageIsFinite

(* The elements of D are as many as those with value u under g, for every u   *)
(* of M, together.                                                            *)
LEMMA SumOfFibres ==
  ASSUME NEW D, IsFiniteSet(D), NEW M, IsFiniteSet(M), NEW g, \A x \in D : g[x] \in M
  PROVE  SumFunctionOnSet([u \in M |-> Cardinality({x \in D : g[x] = u})], M) = Cardinality(D)
<1> DEFINE Fibre(T, u) == {x \in T : g[x] = u}
           F(T) == [u \in M |-> Cardinality(Fibre(T, u))]
           B == {T \in SUBSET D : SumFunctionOnSet(F(T), M) # Cardinality(T)}
<1>1. SUFFICES ASSUME B # {} PROVE FALSE
  OBVIOUS
<1>2. PICK T \in B : \A U \in B : U \subseteq T => U = T
  <2>1. B \subseteq SUBSET D
    OBVIOUS
  <2> HIDE DEF B
  <2> QED BY <1>1, <2>1, MinimalSubset
<1>3. T \in SUBSET D /\ IsFiniteSet(T) /\ SumFunctionOnSet(F(T), M) # Cardinality(T)
  BY FS_Subset
<1>4. CASE T = {}
  <2>1. \A u \in M : F(T)[u] = 0
    <3>1. \A u : Fibre(T, u) = {}
      BY <1>4
    <3> QED BY <3>1, FS_EmptySet
  <2>2. SumFunctionOnSet(F(T), M) = 0
    <3> HIDE DEF F
    <3> QED BY <2>1, SumZeros
  <2> QED BY <1>3, <1>4, <2>2, FS_EmptySet
<1>5. CASE T # {}
  <2>1. PICK x \in T : TRUE
    BY <1>5
  <2> DEFINE U == T \ {x}
  <2>2. U \in SUBSET D /\ U \subseteq T /\ U # T /\ g[x] \in M
    BY <1>3
  <2>3. SumFunctionOnSet(F(U), M) = Cardinality(U)
    <3>1. U \notin B
      BY <1>2, <2>2
    <3> QED BY <2>2, <3>1
  <2>4. \A V \in SUBSET D : \A u : IsFiniteSet(Fibre(V, u)) /\ Cardinality(Fibre(V, u)) \in Nat
    <3>1. \A V \in SUBSET D : \A u : Fibre(V, u) \in SUBSET D
      OBVIOUS
    <3> HIDE DEF Fibre
    <3> QED BY <3>1, FS_Subset, FS_CardinalityType
  <2>5. \A u \in M \ {g[x]} : Fibre(U, u) = Fibre(T, u)
    OBVIOUS
  <2>6. /\ Fibre(T, g[x]) = Fibre(U, g[x]) \cup {x} /\ x \notin Fibre(U, g[x])
        /\ T = U \cup {x} /\ x \notin U
    BY <2>1
  <2>7. Cardinality(Fibre(T, g[x])) = Cardinality(Fibre(U, g[x])) + 1
    <3> HIDE DEF Fibre
    <3> QED BY <2>2, <2>4, <2>6, FS_AddElement
  <2>8. Cardinality(T) = Cardinality(U) + 1 /\ Cardinality(U) \in Nat
    <3>1. IsFiniteSet(U)
      BY <2>2, FS_Subset
    <3> HIDE DEF U
    <3> QED BY <2>6, <3>1, FS_AddElement, FS_CardinalityType
  <2> DEFINE old == F(U)
             new == F(T)
  <2>9. /\ \A u \in M : old[u] \in Int /\ new[u] \in Int
        /\ \A u \in M \ {g[x]} : new[u] = old[u]
        /\ new[g[x]] = old[g[x]] + 1
    <3> HIDE DEF Fibre, U
    <3> QED BY <1>3, <2>2, <2>4, <2>5, <2>7
  <2>10. SumFunctionOnSet(old, M) = Cardinality(U) /\ SumFunctionOnSet(new, M) # Cardinality(T)
    BY <1>3, <2>3
  <2> HIDE DEF old, new, U
  <2>11. SumFunctionOnSet(new, M) = SumFunctionOnSet(old, M) - old[g[x]] + new[g[x]]
    BY <2>2, <2>9, SumChange
  <2> QED BY <2>2, <2>8, <2>9, <2>10, <2>11
<1> QED BY <1>4, <1>5

(* The sums over the parts of D on which g is u add up, over every u of M,    *)
(* to the sum over D.                                                         *)
LEMMA SumOfParts ==
  ASSUME NEW D, IsFiniteSet(D), NEW M, IsFiniteSet(M), NEW g, \A x \in D : g[x] \in M,
         NEW f, \A x \in D : f[x] \in Int
  PROVE  SumFunctionOnSet([u \in M |-> SumFunctionOnSet(f, {x \in D : g[x] = u})], M)
           = SumFunctionOnSet(f, D)
<1> DEFINE Fibre(T, u) == {x \in T : g[x] = u}
           Part(T, u) == SumFunctionOnSet(f, Fibre(T, u))
           F(T) == [u \in M |-> Part(T, u)]
           B == {T \in SUBSET D : SumFunctionOnSet(F(T), M) # SumFunctionOnSet(f, T)}
<1>1. SUFFICES ASSUME B # {} PROVE FALSE
  OBVIOUS
<1>2. PICK T \in B : \A U \in B : U \subseteq T => U = T
  <2>1. B \subseteq SUBSET D
    OBVIOUS
  <2> HIDE DEF B
  <2> QED BY <1>1, <2>1, MinimalSubset
<1>3. T \in SUBSET D /\ IsFiniteSet(T) /\ SumFunctionOnSet(F(T), M) # SumFunctionOnSet(f, T)
  BY FS_Subset
<1>4. CASE T = {}
  <2>1. \A u \in M : F(T)[u] = 0
    <3>1. \A u : Fibre(T, u) = {}
      BY <1>4
    <3>2. \A u : Part(T, u) = 0
      <4> HIDE DEF Fibre
      <4> QED BY <3>1, SumEmpty
    <3> HIDE DEF Part
    <3> QED BY <3>2
  <2>2. SumFunctionOnSet(F(T), M) = 0
    <3> HIDE DEF F
    <3> QED BY <2>1, SumZeros
  <2> QED BY <1>3, <1>4, <2>2, SumEmpty
<1>5. CASE T # {}
  <2>1. PICK x \in T : TRUE
    BY <1>5
  <2> DEFINE U == T \ {x}
  <2>2. U \in SUBSET D /\ U \subseteq T /\ U # T /\ g[x] \in M /\ f[x] \in Int
    BY <1>3
  <2>3. SumFunctionOnSet(F(U), M) = SumFunctionOnSet(f, U)
    <3>1. U \notin B
      BY <1>2, <2>2
    <3> QED BY <2>2, <3>1
  <2>4. \A V \in SUBSET D : \A u : IsFiniteSet(Fibre(V, u)) /\ \A y \in Fibre(V, u) : f[y] \in Int
    <3>1. \A V \in SUBSET D : \A u : Fibre(V, u) \in SUBSET D
      OBVIOUS
    <3> HIDE DEF Fibre
    <3> QED BY <3>1, FS_Subset
  <2>5. \A V \in SUBSET D : \A u : Part(V, u) \in Int
    <3> HIDE DEF Fibre
    <3> QED BY <2>4, SumInt
  <2>6. \A u \in M \ {g[x]} : Fibre(U, u) = Fibre(T, u)
    OBVIOUS
  <2>7. /\ Fibre(T, g[x]) = Fibre(U, g[x]) \cup {x} /\ x \notin Fibre(U, g[x])
        /\ T = U \cup {x} /\ x \notin U
    BY <2>1
  <2>8. Part(T, g[x]) = Part(U, g[x]) + f[x]
    <3>1. IsFiniteSet(Fibre(U, g[x])) /\ \A y \in Fibre(U, g[x]) : f[y] \in Int
      BY <2>2, <2>4
    <3> DEFINE A == Fibre(U, g[x])
    <3>2. SumFunctionOnSet(f, A \cup {x}) = SumFunctionOnSet(f, A) + f[x]
      <4>1. IsFiniteSet(A) /\ (\A y \in A : f[y] \in Int) /\ x \notin A /\ f[x] \in Int
        BY <2>2, <2>7, <3>1
      <4> HIDE DEF A
      <4> QED BY <4>1, SumAdd
    <3> QED BY <2>7, <3>2
  <2>9. SumFunctionOnSet(f, T) = SumFunctionOnSet(f, U) + f[x] /\ SumFunctionOnSet(f, U) \in Int
    <3>1. IsFiniteSet(U) /\ \A y \in U : f[y] \in Int
      BY <2>2, FS_Subset
    <3> HIDE DEF U
    <3> QED BY <2>2, <2>7, <3>1, SumAdd, SumInt
  <2> DEFINE old == F(U)
             new == F(T)
  <2>10. /\ \A u \in M : old[u] \in Int /\ new[u] \in Int
         /\ \A u \in M \ {g[x]} : new[u] = old[u]
         /\ new[g[x]] = old[g[x]] + f[x]
    <3>1. \A u \in M \ {g[x]} : Part(U, u) = Part(T, u)
      <4> HIDE DEF Fibre
      <4> QED BY <2>6
    <3> HIDE DEF Part, U
    <3> QED BY <1>3, <2>2, <2>5, <2>8, <3>1
  <2>11. SumFunctionOnSet(old, M) = SumFunctionOnSet(f, U)
         /\ SumFunctionOnSet(new, M) # SumFunctionOnSet(f, T)
    BY <1>3, <2>3
  <2> HIDE DEF old, new, U
  <2>12. SumFunctionOnSet(new, M) = SumFunctionOnSet(old, M) - old[g[x]] + new[g[x]]
    BY <2>2, <2>10, SumChange
  <2>13. old[g[x]] \in Int
    BY <2>2, <2>10
  <2> QED BY <2>2, <2>9, <2>10, <2>11, <2>12, <2>13
<1> QED BY <1>4, <1>5
==============================================================================
