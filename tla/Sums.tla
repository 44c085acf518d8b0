-------------------------------- MODULE Sums --------------------------------
(* Facts about SumFunctionOnSet(f, S), the sum of f over a finite set S,    *)
(* for the proofs about money: it does not depend on the order, it adds up  *)
(* over disjoint sets, and it changes by what one of its terms changes.     *)
EXTENDS Functions, Integers, FiniteSetTheorems, WellFoundedInduction, TLAPS

(* The recursion that folds f over s, one element at a time.                *)
First(s)     == CHOOSE x \in s : TRUE
Rec(f, g, s) == IF s = {} THEN 0 ELSE f[First(s)] + g[s \ {First(s)}]
Fits(f, g, D) == g = [s \in SUBSET D |-> Rec(f, g, s)]

-----------------------------------------------------------------------------
(* Existence.                                                               *)

(* What is said of every finite set smaller than a set is said of the set:  *)
(* a family of finite sets has a smallest member.                           *)
LEMMA SmallestSet ==
    ASSUME NEW F, F # {}, \A s \in F : IsFiniteSet(s)
    PROVE  \E s \in F : \A t \in F : t \subseteq s => t = s
<1> DEFINE T == {Cardinality(s) : s \in F}
           R == {p \in Nat \X Nat : p[1] < p[2]}
<1>1. \A s \in F : Cardinality(s) \in Nat
  BY FS_CardinalityType
<1>2. PICK n \in T : \A y \in T : ~(<<y, n>> \in R)
  <2>1. T # {} /\ T \subseteq Nat
    BY <1>1
  <2>2. IsWellFoundedOn(R, Nat)
    BY NatLessThanWellFounded, Zenon DEF OpToRel
  <2> HIDE DEF T, R
  <2> QED
    BY <2>1, <2>2, WFMin
<1>3. PICK s \in F : Cardinality(s) = n
  BY <1>2
<1>4. ASSUME NEW t \in F, t \subseteq s PROVE t = s
  <2>1. Cardinality(t) <= Cardinality(s) /\ (Cardinality(s) = Cardinality(t) => s = t)
    BY <1>4, FS_Subset
  <2>2. ~(Cardinality(t) < n)
    BY <1>1, <1>2, <1>3
  <2> QED
    BY <1>1, <1>3, <2>1, <2>2
<1> QED
  BY <1>4

(* The values of a function with a finite domain are finitely many.         *)
LEMMA ImageIsFinite ==
    ASSUME NEW S, NEW f, IsFiniteSet(S), f = [x \in S |-> f[x]]
    PROVE  IsFiniteSet({f[x] : x \in S})
<1>1. PICK T : T = {f[x] : x \in S}
  OBVIOUS
<1>2. f \in Surjection(S, T)
  <2>1. f \in [S -> T]
    BY <1>1
  <2> QED
    BY <1>1, <2>1 DEF Surjection
<1> QED
  BY <1>1, <1>2, FS_Surjection

(* A chosen member is a member.                                             *)
LEMMA FirstIs == ASSUME NEW s, s # {} PROVE First(s) \in s
BY DEF First

(* What a solution is at a set.                                             *)
LEMMA FitsAt ==
    ASSUME NEW f, NEW g, NEW D, Fits(f, g, D), NEW s \in SUBSET D
    PROVE  g[s] = Rec(f, g, s)
BY Zenon DEF Fits

(* The recursion has one solution.                                          *)
LEMMA FitsUnique ==
    ASSUME NEW D, NEW E, IsFiniteSet(D), NEW f, NEW g, NEW h, Fits(f, g, D), Fits(f, h, E),
           NEW s, s \subseteq D, s \subseteq E
    PROVE  g[s] = h[s]
<1> DEFINE F == {t \in SUBSET D : t \subseteq E /\ g[t] # h[t]}
<1> SUFFICES ASSUME F # {} PROVE FALSE
  OBVIOUS
<1>1. \A t \in F : IsFiniteSet(t)
  BY FS_Subset
<1>2. PICK t \in F : \A u \in F : u \subseteq t => u = t
  <2> HIDE DEF F
  <2> QED
    BY <1>1, SmallestSet
<1>3. g[t] = Rec(f, g, t) /\ h[t] = Rec(f, h, t)
  BY Zenon DEF Fits
<1>4. t # {}
  BY <1>2, <1>3 DEF Rec
<1> DEFINE u == t \ {First(t)}
<1>5. First(t) \in t /\ u \subseteq t /\ u # t
  BY <1>4, FirstIs
<1>6. g[u] = h[u]
  BY <1>2, <1>5
<1> QED
  BY <1>2, <1>3, <1>4, <1>6 DEF Rec

(* And it has one.                                                          *)
LEMMA FitsExists == ASSUME NEW D, IsFiniteSet(D), NEW f PROVE \E g : Fits(f, g, D)
<1> DEFINE F == {s \in SUBSET D : ~\E g : Fits(f, g, s)}
           H(s) == CHOOSE g : Fits(f, g, s)
<1> SUFFICES ASSUME F # {} PROVE FALSE
  OBVIOUS
<1>1. \A s \in F : IsFiniteSet(s)
  BY FS_Subset
<1>2. PICK s \in F : \A u \in F : u \subseteq s => u = s
  <2> HIDE DEF F
  <2> QED
    BY <1>1, SmallestSet
<1>3. ASSUME NEW u, u \subseteq s, u # s PROVE Fits(f, H(u), u) /\ IsFiniteSet(u)
  <2>1. IsFiniteSet(u) /\ \E g : Fits(f, g, u)
    BY <1>1, <1>2, <1>3, FS_Subset
  <2> QED
    BY <2>1, Zenon
<1> HIDE DEF H
<1> DEFINE G == [u \in SUBSET s |-> Rec(f, H(u \ {First(u)}), u)]
<1>4. ASSUME NEW w, w \subseteq s, w # s PROVE G[w] = H(w)[w]
  <2>1. H(w)[w] = Rec(f, H(w), w)
    <3>1. Fits(f, H(w), w) /\ w \in SUBSET w
      BY <1>3, <1>4
    <3> QED
      BY <3>1, FitsAt
  <2>2. G[w] = Rec(f, H(w \ {First(w)}), w)
    BY <1>4
  <2>3. CASE w = {}
    BY <2>1, <2>2, <2>3 DEF Rec
  <2>4. CASE w # {}
    <3> DEFINE v == w \ {First(w)}
    <3>1. v \subseteq w /\ v \subseteq s /\ v # s /\ v \subseteq v
      BY <1>4
    <3>2. Fits(f, H(v), v) /\ Fits(f, H(w), w) /\ IsFiniteSet(v) /\ IsFiniteSet(w)
      BY <1>3, <1>4, <3>1
    <3> HIDE DEF v
    <3>3. H(v)[v] = H(w)[v]
      BY <3>1, <3>2, FitsUnique
    <3> USE DEF v
    <3> QED
      BY <2>1, <2>2, <2>4, <3>3 DEF Rec
  <2> QED
    BY <2>3, <2>4
<1>5. ASSUME NEW u \in SUBSET s PROVE Rec(f, H(u \ {First(u)}), u) = Rec(f, G, u)
  <2>1. CASE u = {}
    BY <2>1 DEF Rec
  <2>2. CASE u # {}
    <3> DEFINE w == u \ {First(u)}
    <3>1. First(u) \in u /\ w \subseteq s /\ w # s
      BY <2>2, FirstIs
    <3>2. G[w] = H(w)[w]
      BY <1>4, <3>1
    <3> HIDE DEF G
    <3> QED
      BY <2>2, <3>2 DEF Rec
  <2> QED
    BY <2>1, <2>2
<1>6. Fits(f, G, s)
  <2> DEFINE K == G
  <2>1. K = [u \in SUBSET s |-> Rec(f, H(u \ {First(u)}), u)]
    OBVIOUS
  <2>2. \A u \in SUBSET s : Rec(f, H(u \ {First(u)}), u) = Rec(f, K, u)
    BY <1>5
  <2> HIDE DEF K, G
  <2>3. K = [u \in SUBSET s |-> Rec(f, K, u)]
    BY <2>1, <2>2
  <2> QED
    BY <2>3 DEF Fits, K
<1> QED
  BY <1>2, <1>6

(* The sum is what the recursion gives.                                     *)
LEMMA SumFits ==
    ASSUME NEW f, NEW S, IsFiniteSet(S)
    PROVE  \E g : Fits(f, g, S) /\ SumFunctionOnSet(f, S) = g[S]
<1> DEFINE g == CHOOSE iter : Fits(f, iter, S)
<1>1. Fits(f, g, S)
  BY FitsExists, Zenon
<1>2. SumFunctionOnSet(f, S) = g[S]
  BY Zenon DEF SumFunctionOnSet, FoldFunctionOnSet, MapThenFoldSet, Fits, Rec, First
<1> QED
  BY <1>1, <1>2

-----------------------------------------------------------------------------
(* The laws.                                                                *)

(* The sum over nothing.                                                    *)
LEMMA SumEmpty == ASSUME NEW f PROVE SumFunctionOnSet(f, {}) = 0
<1>1. PICK g : Fits(f, g, {}) /\ SumFunctionOnSet(f, {}) = g[{}]
  BY FS_EmptySet, SumFits
<1>2. g[{}] = Rec(f, g, {})
  BY <1>1, FitsAt
<1> QED
  BY <1>1, <1>2 DEF Rec

(* The sum as it is computed.                                               *)
LEMMA SumFirst ==
    ASSUME NEW f, NEW S, IsFiniteSet(S), S # {}
    PROVE  SumFunctionOnSet(f, S) = f[First(S)] + SumFunctionOnSet(f, S \ {First(S)})
<1> DEFINE T == S \ {First(S)}
<1>1. PICK g : Fits(f, g, S) /\ SumFunctionOnSet(f, S) = g[S]
  BY SumFits
<1>2. IsFiniteSet(T) /\ T \subseteq S /\ T \subseteq T
  BY FS_Subset
<1>3. PICK h : Fits(f, h, T) /\ SumFunctionOnSet(f, T) = h[T]
  BY <1>2, SumFits
<1> HIDE DEF T
<1>4. h[T] = g[T]
  BY <1>1, <1>2, <1>3, FitsUnique
<1>5. g[S] = Rec(f, g, S)
  BY <1>1, FitsAt
<1> USE DEF T
<1> QED
  BY <1>1, <1>3, <1>4, <1>5 DEF Rec

(* Sums of integers are integers, of naturals naturals.                     *)
LEMMA SumType ==
    ASSUME NEW f, NEW S, IsFiniteSet(S), \A x \in S : f[x] \in Int
    PROVE  SumFunctionOnSet(f, S) \in Int
<1> DEFINE F == {s \in SUBSET S : SumFunctionOnSet(f, s) \notin Int}
<1> SUFFICES ASSUME F # {} PROVE FALSE
  OBVIOUS
<1>1. \A s \in F : IsFiniteSet(s)
  BY FS_Subset
<1>2. PICK s \in F : \A u \in F : u \subseteq s => u = s
  <2> HIDE DEF F
  <2> QED
    BY <1>1, SmallestSet
<1>3. s # {}
  <2>1. SumFunctionOnSet(f, {}) = 0 /\ 0 \in Int
    BY SumEmpty
  <2>2. SumFunctionOnSet(f, s) \notin Int
    BY <1>2
  <2> QED
    BY <2>1, <2>2
<1>4. First(s) \in s /\ f[First(s)] \in Int /\ SumFunctionOnSet(f, s \ {First(s)}) \in Int
  BY <1>2, <1>3, FirstIs
<1> QED
  BY <1>1, <1>2, <1>3, <1>4, SumFirst

LEMMA SumNat ==
    ASSUME NEW f, NEW S, IsFiniteSet(S), \A x \in S : f[x] \in Nat
    PROVE  SumFunctionOnSet(f, S) \in Nat
<1> DEFINE F == {s \in SUBSET S : SumFunctionOnSet(f, s) \notin Nat}
<1> SUFFICES ASSUME F # {} PROVE FALSE
  OBVIOUS
<1>1. \A s \in F : IsFiniteSet(s)
  BY FS_Subset
<1>2. PICK s \in F : \A u \in F : u \subseteq s => u = s
  <2> HIDE DEF F
  <2> QED
    BY <1>1, SmallestSet
<1>3. s # {}
  <2>1. SumFunctionOnSet(f, {}) = 0 /\ 0 \in Nat
    BY SumEmpty
  <2>2. SumFunctionOnSet(f, s) \notin Nat
    BY <1>2
  <2> QED
    BY <2>1, <2>2
<1>4. First(s) \in s /\ f[First(s)] \in Nat /\ SumFunctionOnSet(f, s \ {First(s)}) \in Nat
  BY <1>2, <1>3, FirstIs
<1> QED
  BY <1>1, <1>2, <1>3, <1>4, SumFirst

(* What is nothing adds up to nothing.                                      *)
LEMMA SumZero ==
    ASSUME NEW f, NEW S, IsFiniteSet(S), \A x \in S : f[x] = 0
    PROVE  SumFunctionOnSet(f, S) = 0
<1> DEFINE F == {s \in SUBSET S : SumFunctionOnSet(f, s) # 0}
<1> SUFFICES ASSUME F # {} PROVE FALSE
  OBVIOUS
<1>1. \A s \in F : IsFiniteSet(s)
  BY FS_Subset
<1>2. PICK s \in F : \A u \in F : u \subseteq s => u = s
  <2> HIDE DEF F
  <2> QED
    BY <1>1, SmallestSet
<1>3. s # {} /\ s \subseteq S /\ IsFiniteSet(s)
  BY <1>1, SumEmpty
<1>4. First(s) \in s /\ s \ {First(s)} \notin F
  BY <1>2, <1>3, FirstIs
<1>5. SumFunctionOnSet(f, s \ {First(s)}) = 0 /\ f[First(s)] = 0
  BY <1>3, <1>4
<1>6. SumFunctionOnSet(f, s) = 0
  BY <1>3, <1>5, SumFirst
<1> QED
  BY <1>6

(* Only the values on the set count.                                        *)
LEMMA SumAgrees ==
    ASSUME NEW f, NEW g, NEW S, IsFiniteSet(S), \A x \in S : f[x] = g[x]
    PROVE  SumFunctionOnSet(f, S) = SumFunctionOnSet(g, S)
<1> DEFINE F == {s \in SUBSET S : SumFunctionOnSet(f, s) # SumFunctionOnSet(g, s)}
<1> SUFFICES ASSUME F # {} PROVE FALSE
  OBVIOUS
<1>1. \A s \in F : IsFiniteSet(s)
  BY FS_Subset
<1>2. PICK s \in F : \A u \in F : u \subseteq s => u = s
  <2> HIDE DEF F
  <2> QED
    BY <1>1, SmallestSet
<1>3. s # {}
  BY <1>2, SumEmpty
<1>4. /\ f[First(s)] = g[First(s)]
      /\ SumFunctionOnSet(f, s \ {First(s)}) = SumFunctionOnSet(g, s \ {First(s)})
  BY <1>2, <1>3, FirstIs
<1> QED
  BY <1>1, <1>2, <1>3, <1>4, SumFirst

(* Any member may come first.                                               *)
LEMMA SumTake ==
    ASSUME NEW f, NEW S, IsFiniteSet(S), \A x \in S : f[x] \in Int, NEW x \in S
    PROVE  SumFunctionOnSet(f, S) = f[x] + SumFunctionOnSet(f, S \ {x})
<1> DEFINE sum(s) == SumFunctionOnSet(f, s)
           F == {s \in SUBSET S : \E y \in s : sum(s) # f[y] + sum(s \ {y})}
<1> SUFFICES ASSUME F # {} PROVE FALSE
  OBVIOUS
<1>1. \A s \in SUBSET S : IsFiniteSet(s) /\ sum(s) \in Int
  BY FS_Subset, SumType
<1>2. PICK s \in F : \A u \in F : u \subseteq s => u = s
  <2>1. \A s \in F : IsFiniteSet(s)
    BY <1>1
  <2> HIDE DEF F
  <2> QED
    BY <2>1, SmallestSet
<1>3. PICK y \in s : sum(s) # f[y] + sum(s \ {y})
  BY <1>2
<1> DEFINE z == First(s)
<1>4. z \in s /\ sum(s) = f[z] + sum(s \ {z}) /\ z # y
  BY <1>1, <1>2, <1>3, FirstIs, SumFirst
<1>5. \A u \in SUBSET S : u \subseteq s /\ u # s => \A w \in u : sum(u) = f[w] + sum(u \ {w})
  BY <1>2
<1>6. s \in SUBSET S
  BY <1>2
<1> HIDE DEF sum, F, z
<1>7. sum(s \ {z}) = f[y] + sum((s \ {z}) \ {y})
  BY <1>3, <1>4, <1>5, <1>6
<1>8. sum(s \ {y}) = f[z] + sum((s \ {y}) \ {z})
  BY <1>3, <1>4, <1>5, <1>6
<1>9. (s \ {y}) \ {z} = (s \ {z}) \ {y}
  OBVIOUS
<1>10. f[y] \in Int /\ f[z] \in Int /\ sum((s \ {z}) \ {y}) \in Int
  BY <1>1, <1>3, <1>4, <1>6
<1>11. PICK a \in Int, b \in Int, c \in Int :
           a = f[y] /\ b = f[z] /\ c = sum((s \ {z}) \ {y})
  BY <1>10
<1>12. sum(s) = b + (a + c) /\ sum(s \ {y}) = b + c
  BY <1>4, <1>7, <1>8, <1>9, <1>11
<1>13. b + (a + c) = a + (b + c)
  OBVIOUS
<1> QED
  BY <1>3, <1>11, <1>12, <1>13

(* One member more.                                                         *)
LEMMA SumAdd ==
    ASSUME NEW f, NEW S, IsFiniteSet(S), NEW x, x \notin S, \A y \in S \cup {x} : f[y] \in Int
    PROVE  SumFunctionOnSet(f, S \cup {x}) = f[x] + SumFunctionOnSet(f, S)
<1>1. IsFiniteSet(S \cup {x}) /\ x \in S \cup {x} /\ (S \cup {x}) \ {x} = S
  BY FS_AddElement
<1> QED
  BY <1>1, SumTake

(* One term changes.                                                        *)
LEMMA SumChange ==
    ASSUME NEW f, NEW g, NEW S, IsFiniteSet(S), NEW x \in S,
           \A y \in S : f[y] \in Int /\ g[y] \in Int /\ (y # x => g[y] = f[y])
    PROVE  SumFunctionOnSet(g, S) = SumFunctionOnSet(f, S) - f[x] + g[x]
<1>1. SumFunctionOnSet(f, S) = f[x] + SumFunctionOnSet(f, S \ {x})
  BY SumTake
<1>2. SumFunctionOnSet(g, S) = g[x] + SumFunctionOnSet(g, S \ {x})
  BY SumTake
<1>3. IsFiniteSet(S \ {x})
  BY FS_Subset
<1>4. SumFunctionOnSet(f, S \ {x}) = SumFunctionOnSet(g, S \ {x})
  BY <1>3, SumAgrees
<1>5. SumFunctionOnSet(f, S \ {x}) \in Int
  BY <1>3, SumType
<1> QED
  BY <1>1, <1>2, <1>4, <1>5

(* Disjoint sets.                                                           *)
LEMMA SumUnion ==
    ASSUME NEW f, NEW A, NEW B, IsFiniteSet(A), IsFiniteSet(B), A \cap B = {},
           \A x \in A \cup B : f[x] \in Int
    PROVE  SumFunctionOnSet(f, A \cup B) = SumFunctionOnSet(f, A) + SumFunctionOnSet(f, B)
<1> DEFINE sum(s) == SumFunctionOnSet(f, s)
           F == {s \in SUBSET B : sum(A \cup s) # sum(A) + sum(s)}
<1> SUFFICES ASSUME F # {} PROVE FALSE
  OBVIOUS
<1>1. \A s \in SUBSET B : IsFiniteSet(s) /\ IsFiniteSet(A \cup s) /\ sum(s) \in Int
                          /\ sum(A \cup s) \in Int
  <2> SUFFICES ASSUME NEW s \in SUBSET B
               PROVE  IsFiniteSet(s) /\ IsFiniteSet(A \cup s) /\ sum(s) \in Int /\ sum(A \cup s) \in Int
    OBVIOUS
  <2>1. IsFiniteSet(s)
    BY FS_Subset
  <2>2. IsFiniteSet(A \cup s)
    BY <2>1, FS_Union
  <2> QED
    BY <2>1, <2>2, SumType
<1>2. PICK s \in F : \A u \in F : u \subseteq s => u = s
  <2>1. \A s \in F : IsFiniteSet(s)
    BY <1>1
  <2> HIDE DEF F
  <2> QED
    BY <2>1, SmallestSet
<1>3. sum(A) \in Int
  BY SumType
<1>4. PICK x \in s : TRUE
  <2> SUFFICES ASSUME s = {} PROVE FALSE
    OBVIOUS
  <2>1. sum({}) = 0 /\ A \cup {} = A
    BY SumEmpty
  <2>2. sum(A \cup {}) # sum(A) + sum({})
    BY <1>2
  <2> QED
    BY <1>3, <2>1, <2>2
<1> DEFINE t == s \ {x}
<1>5. t \in SUBSET B /\ s \in SUBSET B /\ t # s /\ t \subseteq s
  BY <1>2, <1>4
<1>6. sum(A \cup t) = sum(A) + sum(t) /\ sum(A \cup s) # sum(A) + sum(s)
  BY <1>2, <1>5
<1>7. sum(s) = f[x] + sum(t)
  BY <1>1, <1>4, <1>5, SumTake
<1>8. sum(A \cup s) = f[x] + sum(A \cup t)
  <2>1. x \in A \cup s /\ (A \cup s) \ {x} = A \cup t
    BY <1>4, <1>5
  <2>2. \A y \in A \cup s : f[y] \in Int
    BY <1>5
  <2> QED
    BY <1>1, <1>5, <2>1, <2>2, SumTake
<1>9. f[x] \in Int /\ sum(t) \in Int
  BY <1>1, <1>4, <1>5
<1> HIDE DEF sum, F, t
<1> QED
  BY <1>3, <1>6, <1>7, <1>8, <1>9

(* Of naturals, a part sums to no more than the whole.                      *)
LEMMA SumPart ==
    ASSUME NEW f, NEW S, IsFiniteSet(S), NEW T, T \subseteq S, \A x \in S : f[x] \in Nat
    PROVE  SumFunctionOnSet(f, T) <= SumFunctionOnSet(f, S)
<1>1. IsFiniteSet(T) /\ IsFiniteSet(S \ T)
  BY FS_Subset
<1>2. SumFunctionOnSet(f, T) \in Nat /\ SumFunctionOnSet(f, S \ T) \in Nat
  BY <1>1, SumNat
<1>3. T \cup (S \ T) = S /\ T \cap (S \ T) = {} /\ \A x \in T \cup (S \ T) : f[x] \in Int
  OBVIOUS
<1>4. SumFunctionOnSet(f, S) = SumFunctionOnSet(f, T) + SumFunctionOnSet(f, S \ T)
  BY <1>1, <1>3, SumUnion
<1> QED
  BY <1>2, <1>4

(* The sum of a function with one more argument.                            *)
LEMMA SumFunctionAdd ==
    ASSUME NEW f, NEW g, NEW S, IsFiniteSet(S), NEW x, x \notin S, DOMAIN f = S,
           DOMAIN g = S \cup {x}, \A y \in S : f[y] = g[y], \A y \in S \cup {x} : g[y] \in Int
    PROVE  SumFunction(f) \in Int /\ SumFunction(g) = SumFunction(f) + g[x]
<1>1. SumFunctionOnSet(f, S) = SumFunctionOnSet(g, S)
  BY SumAgrees
<1>2. SumFunctionOnSet(g, S) \in Int
  BY SumType
<1>3. SumFunctionOnSet(g, S \cup {x}) = g[x] + SumFunctionOnSet(g, S)
  BY SumAdd
<1>4. SumFunction(f) = SumFunctionOnSet(f, S) /\ SumFunction(g) = SumFunctionOnSet(g, S \cup {x})
  BY DEF SumFunction
<1>5. g[x] \in Int
  OBVIOUS
<1> QED
  BY <1>1, <1>2, <1>3, <1>4, <1>5

(* The sum of a function with fewer arguments is no larger.                 *)
LEMMA SumFunctionPart ==
    ASSUME NEW f, NEW g, NEW S, IsFiniteSet(S), NEW T, T \subseteq S, DOMAIN f = T, DOMAIN g = S,
           \A y \in T : f[y] = g[y], \A y \in S : g[y] \in Nat
    PROVE  SumFunction(f) \in Nat /\ SumFunction(g) \in Nat /\ SumFunction(f) <= SumFunction(g)
<1>1. IsFiniteSet(T)
  BY FS_Subset
<1>2. SumFunctionOnSet(f, T) = SumFunctionOnSet(g, T)
  BY <1>1, SumAgrees
<1>3. SumFunctionOnSet(g, T) \in Nat /\ SumFunctionOnSet(g, S) \in Nat
  BY <1>1, SumNat
<1>4. SumFunctionOnSet(g, T) <= SumFunctionOnSet(g, S)
  BY SumPart
<1> QED
  BY <1>2, <1>3, <1>4 DEF SumFunction

-----------------------------------------------------------------------------
(* Sums of sums.                                                            *)

(* Induction over a finite set: what holds of the empty set, and of each    *)
(* part with one more member if of the part, holds of the set. The parts it *)
(* holds of are the set G.                                                  *)
LEMMA PartByPart ==
    ASSUME NEW S, IsFiniteSet(S), NEW G, {} \in G,
           \A T \in SUBSET S, x \in S : T \in G /\ x \notin T => T \cup {x} \in G
    PROVE  S \in G
<1> DEFINE F == {T \in SUBSET S : T \notin G}
<1> SUFFICES ASSUME F # {} PROVE FALSE
  OBVIOUS
<1>1. \A T \in F : IsFiniteSet(T)
  BY FS_Subset
<1>2. PICK T \in F : \A U \in F : U \subseteq T => U = T
  <2> HIDE DEF F
  <2> QED
    BY <1>1, SmallestSet
<1>3. T # {} /\ T \subseteq S /\ T \notin G
  OBVIOUS
<1>4. First(T) \in T
  BY <1>3, FirstIs
<1>5. PICK x \in T : TRUE
  BY <1>4
<1>6. T \ {x} \in G /\ (T \ {x}) \cup {x} = T /\ x \in S /\ x \notin T \ {x}
  BY <1>2, <1>3, <1>5
<1>7. T \ {x} \in SUBSET S
  BY <1>3
<1> QED
  BY <1>3, <1>6, <1>7
=============================================================================
