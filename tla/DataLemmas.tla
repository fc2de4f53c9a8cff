----------------------------- MODULE DataLemmas -----------------------------
(***************************************************************************)
(* Lemmas about data that the proofs of several components need: induction *)
(* over the subsets of a finite set and over numbers, as the existence of  *)
(* least elements, which needs no operator as a parameter, and with it     *)
(* what TotalOf, a recursive fold, sums.                                   *)
(***************************************************************************)
EXTENDS Totals, Integers, FiniteSets, Sequences, SequencesExt, FiniteSetTheorems,
        WellFoundedInduction, TLAPS

(* Every non-empty set of subsets of a finite set has a smallest one. *)
LEMMA SmallestSet ==
  ASSUME NEW S, IsFiniteSet(S), NEW T, T \subseteq SUBSET S, T # {}
  PROVE  \E x \in T : \A y \in T : ~ (y \subseteq x /\ y # x)
<1>1. T \subseteq FiniteSubsetsOf(S)
  BY FS_Subset DEF FiniteSubsetsOf
<1>2. \E x \in T : \A y \in T : ~ (<<y, x>> \in StrictSubsetOrdering(S))
  BY <1>1, FS_StrictSubsetOrderingWellFounded, WFMin
<1> QED
  BY <1>2 DEF StrictSubsetOrdering

(* So has every non-empty set of natural numbers. *)
LEMMA SmallestNumber ==
  ASSUME NEW T, T \subseteq Nat, T # {}
  PROVE  \E x \in T : \A y \in T : x <= y
<1> DEFINE R == {ss \in Nat \X Nat : ss[1] < ss[2]}
<1>1. IsWellFoundedOn(R, Nat)
  BY NatLessThanWellFounded DEF OpToRel
<1>2. \A x, y \in Nat : y < x => <<y, x>> \in R
  OBVIOUS
<1> HIDE DEF R
<1>3. \E x \in T : \A y \in T : ~ (<<y, x>> \in R)
  BY <1>1, WFMin
<1>4. PICK x \in T : \A y \in T : ~ (<<y, x>> \in R)
  BY <1>3
<1>5. ASSUME NEW y \in T PROVE x <= y
  <2>1. x \in Nat /\ y \in Nat /\ ~ (y < x)
    BY <1>2, <1>4
  <2> QED
    BY <2>1
<1> QED
  BY <1>5

(* Recursion: when a step F gives the value of f at a point from the values *)
(* of f at lower points, there is a function whose values it gives.        *)
UpTo(D, V, height, F, k, f) ==
  /\ f \in [D -> V]
  /\ \A d \in D : height[d] < k => f[d] = F[<<d, f>>]

LooksBelow(D, V, height, F) ==
  \A d \in D : \A g, h \in [D -> V] :
    (\A e \in D : height[e] < height[d] => g[e] = h[e]) => F[<<d, g>>] = F[<<d, h>>]

IsRecursion(D, V, height, F) ==
  /\ V # {} /\ height \in [D -> Nat] /\ F \in [D \X [D -> V] -> V]
  /\ LooksBelow(D, V, height, F)

LEMMA UpToAgree ==
  ASSUME NEW D, NEW V, NEW height \in [D -> Nat], NEW F, LooksBelow(D, V, height, F),
         NEW k \in Nat, NEW l \in Nat, NEW f, NEW g,
         UpTo(D, V, height, F, k, f), UpTo(D, V, height, F, l, g)
  PROVE  \A d \in D : height[d] < k /\ height[d] < l => f[d] = g[d]
<1> DEFINE bad == {d \in D : height[d] < k /\ height[d] < l /\ f[d] # g[d]}
           T == {height[d] : d \in bad}
<1>1. SUFFICES ASSUME bad # {} PROVE FALSE
  OBVIOUS
<1>2. T \subseteq Nat /\ T # {}
  BY <1>1
<1> HIDE DEF T
<1>3. PICK h \in T : \A j \in T : h <= j
  BY <1>2, SmallestNumber
<1>4. PICK d \in bad : h = height[d]
  BY <1>3 DEF T
<1>5. ASSUME NEW e \in D, height[e] < height[d]
      PROVE  f[e] = g[e]
  <2>1. e \in bad => height[e] \in T
    BY DEF T
  <2>2. e \notin bad
    BY <1>2, <1>3, <1>4, <1>5, <2>1
  <2> QED
    BY <1>5, <1>4, <2>2
<1>6. d \in D /\ height[d] < k /\ height[d] < l /\ f[d] # g[d]
  BY <1>4
<1>7. f \in [D -> V] /\ g \in [D -> V]
  BY DEF UpTo
<1>8. F[<<d, f>>] = F[<<d, g>>]
  BY <1>5, <1>6, <1>7, Zenon DEF LooksBelow
<1>9. f[d] = F[<<d, f>>] /\ g[d] = F[<<d, g>>]
  BY <1>6, Zenon DEF UpTo
<1> QED
  BY <1>6, <1>8, <1>9

LEMMA UpToExists ==
  ASSUME NEW D, NEW V, V # {}, NEW height \in [D -> Nat], NEW F \in [D \X [D -> V] -> V],
         LooksBelow(D, V, height, F), NEW k \in Nat
  PROVE  \E f : UpTo(D, V, height, F, k, f)
<1> DEFINE T == {n \in Nat : ~ \E f : UpTo(D, V, height, F, n, f)}
<1>1. SUFFICES ASSUME T # {} PROVE FALSE
  OBVIOUS
<1>2. PICK n \in T : \A j \in T : n <= j
  <2>1. T \subseteq Nat
    OBVIOUS
  <2> HIDE DEF T
  <2> QED
    BY <1>1, <2>1, SmallestNumber
<1>3. n \in Nat /\ ~ \E f : UpTo(D, V, height, F, n, f)
  OBVIOUS
<1>4. CASE n = 0
  <2>1. PICK v \in V : TRUE
    OBVIOUS
  <2>2. UpTo(D, V, height, F, 0, [d \in D |-> v])
    BY DEF UpTo
  <2> QED
    BY <1>3, <1>4, <2>2
<1>5. CASE n # 0
  <2>1. n - 1 \in Nat /\ n - 1 \notin T
    <3> HIDE DEF T
    <3> QED
      BY <1>2, <1>3, <1>5
  <2>2. PICK g : UpTo(D, V, height, F, n - 1, g)
    BY <2>1
  <2> HIDE DEF T
  <2> DEFINE f == [d \in D |-> F[<<d, g>>]]
  <2>3. g \in [D -> V] /\ f \in [D -> V]
    BY <2>2 DEF UpTo
  <2>4. \A e \in D : height[e] < n - 1 => f[e] = g[e]
    BY <2>2 DEF UpTo
  <2>5. ASSUME NEW d \in D, height[d] < n
        PROVE  f[d] = F[<<d, f>>]
    <3>0. \A e \in D : height[e] < height[d] => height[e] < n - 1
      <4>1. n \in Nat /\ height[d] \in Nat /\ \A e \in D : height[e] \in Nat
        BY <1>3
      <4> QED
        BY <2>5, <4>1
    <3>1. \A e \in D : height[e] < height[d] => f[e] = g[e]
      BY <2>4, <3>0, Zenon
    <3> HIDE DEF f
    <3>2. F[<<d, f>>] = F[<<d, g>>]
      BY <2>3, <3>1, Zenon DEF LooksBelow
    <3> QED
      BY <3>2 DEF f
  <2>6. UpTo(D, V, height, F, n, f)
    BY <2>3, <2>5 DEF UpTo
  <2> QED
    BY <1>3, <2>6
<1> QED
  BY <1>4, <1>5

LEMMA RecursionExists ==
  ASSUME NEW D, NEW V, NEW height, NEW F, IsRecursion(D, V, height, F)
  PROVE  \E f \in [D -> V] : \A d \in D : f[d] = F[<<d, f>>]
<1> USE DEF IsRecursion
<1> DEFINE Sol(k) == CHOOSE f : UpTo(D, V, height, F, k, f)
           f == [d \in D |-> Sol(height[d] + 1)[d]]
<1>1. \A k \in Nat : UpTo(D, V, height, F, k, Sol(k))
  BY UpToExists
<1> HIDE DEF Sol
<1>2. \A d \in D : UpTo(D, V, height, F, height[d] + 1, Sol(height[d] + 1))
  BY <1>1
<1>3. f \in [D -> V]
  BY <1>2 DEF UpTo
<1>4. ASSUME NEW d \in D
      PROVE  f[d] = F[<<d, f>>]
  <2> DEFINE g == Sol(height[d] + 1)
  <2>1. UpTo(D, V, height, F, height[d] + 1, g)
    BY <1>2
  <2>2. ASSUME NEW e \in D, height[e] < height[d]
        PROVE  f[e] = g[e]
    <3>1. /\ height[d] + 1 \in Nat /\ height[e] + 1 \in Nat
          /\ height[e] < height[d] + 1 /\ height[e] < height[e] + 1
      BY <2>2
    <3>2. UpTo(D, V, height, F, height[e] + 1, Sol(height[e] + 1))
      BY <1>2
    <3> HIDE DEF g
    <3>3. Sol(height[e] + 1)[e] = g[e]
      BY <2>1, <3>1, <3>2, UpToAgree
    <3> QED
      BY <3>3
  <2>3. g \in [D -> V] /\ height[d] < height[d] + 1
    BY <2>1 DEF UpTo
  <2>4. g[d] = F[<<d, g>>]
    BY <2>1, <2>3, Zenon DEF UpTo
  <2>5. f[d] = g[d]
    OBVIOUS
  <2> HIDE DEF f, g
  <2>6. F[<<d, f>>] = F[<<d, g>>]
    BY <1>3, <2>2, <2>3, Zenon DEF LooksBelow
  <2> QED
    BY <2>4, <2>5, <2>6
<1> QED
  BY <1>3, <1>4

-----------------------------------------------------------------------------
(* The recursive function behind TotalOf. *)
Chosen(s) == CHOOSE x \in s : TRUE
SumsUp(F, S, it) ==
  it = [s \in SUBSET S |-> IF s = {} THEN 0 ELSE F[Chosen(s)] + it[s \ {Chosen(s)}]]

LEMMA TotalDef ==
  ASSUME NEW F, NEW S
  PROVE  TotalOf(F, S) = (CHOOSE it : SumsUp(F, S, it))[S]
BY DEF TotalOf, MapThenSumSet, MapThenFoldSet, SumsUp, Chosen

LEMMA ChosenIn ==
  ASSUME NEW s, s # {}
  PROVE  Chosen(s) \in s
BY DEF Chosen

LEMMA SumsAgree ==
  ASSUME NEW F, NEW A, NEW B, IsFiniteSet(A), NEW g, NEW h, SumsUp(F, A, g), SumsUp(F, B, h)
  PROVE  \A s \in SUBSET A : s \in SUBSET B => g[s] = h[s]
<1> DEFINE T == {s \in SUBSET A : s \in SUBSET B /\ g[s] # h[s]}
<1>1. SUFFICES ASSUME T # {} PROVE FALSE
  OBVIOUS
<1>2. PICK s \in T : \A y \in T : ~ (y \subseteq s /\ y # s)
  <2>1. T \subseteq SUBSET A
    OBVIOUS
  <2> HIDE DEF T
  <2> QED
    BY <1>1, <2>1, SmallestSet
<1> DEFINE u == s \ {Chosen(s)}
<1>3. s # {}
  <2>1. s \in SUBSET A /\ s \in SUBSET B /\ g[s] # h[s]
    OBVIOUS
  <2> QED
    BY <2>1 DEF SumsUp
<1>4. Chosen(s) \in s
  BY <1>3, ChosenIn
<1>5. u \in SUBSET A /\ u \in SUBSET B /\ g[u] = h[u]
  BY <1>2, <1>4
<1>6. s \in SUBSET A /\ s \in SUBSET B /\ g[s] # h[s]
  OBVIOUS
<1>7. g[s] = F[Chosen(s)] + g[u] /\ h[s] = F[Chosen(s)] + h[u]
  BY <1>3, <1>6 DEF SumsUp
<1> QED
  BY <1>5, <1>6, <1>7

LEMMA SumExists ==
  ASSUME NEW F, NEW S, IsFiniteSet(S)
  PROVE  \E it : SumsUp(F, S, it)
<1> DEFINE T == {A \in SUBSET S : ~ \E it : SumsUp(F, A, it)}
<1>1. SUFFICES ASSUME T # {} PROVE FALSE
  OBVIOUS
<1>2. PICK A \in T : \A y \in T : ~ (y \subseteq A /\ y # A)
  <2>1. T \subseteq SUBSET S
    OBVIOUS
  <2> HIDE DEF T
  <2> QED
    BY <1>1, <2>1, SmallestSet
<1> DEFINE Sol(B) == CHOOSE it : SumsUp(F, B, it)
           rest(s) == s \ {Chosen(s)}
           sum == [s \in SUBSET A |-> IF s = {} THEN 0 ELSE F[Chosen(s)] + Sol(rest(s))[rest(s)]]
<1>3. \A B \in SUBSET A : B # A => SumsUp(F, B, Sol(B)) /\ IsFiniteSet(B)
  BY <1>2, FS_Subset
<1> HIDE DEF Sol
<1>4. ASSUME NEW u \in SUBSET A, u # A
      PROVE  sum[u] = Sol(u)[u]
  <2>1. CASE u = {}
    BY <1>3, <1>4, <2>1 DEF SumsUp
  <2>2. CASE u # {}
    <3>1. rest(u) \in SUBSET u /\ rest(u) # A /\ rest(u) \in SUBSET A
      BY <1>4, <2>2, ChosenIn
    <3>2. Sol(u)[rest(u)] = Sol(rest(u))[rest(u)]
      BY <1>3, <1>4, <3>1, SumsAgree
    <3>3. Sol(u)[u] = F[Chosen(u)] + Sol(u)[rest(u)]
      BY <1>3, <1>4, <2>2 DEF SumsUp
    <3> QED
      BY <2>2, <3>2, <3>3
  <2> QED
    BY <2>1, <2>2
<1>5. \A s \in SUBSET A : s # {} => sum[rest(s)] = Sol(rest(s))[rest(s)]
  <2>1. ASSUME NEW s \in SUBSET A, s # {}
        PROVE  rest(s) \in SUBSET A /\ rest(s) # A
    BY <2>1, ChosenIn
  <2> QED
    BY <2>1, <1>4
<1>6. SumsUp(F, A, sum)
  BY <1>5 DEF SumsUp
<1> QED
  BY <1>2, <1>6

LEMMA TotalSumsUp ==
  ASSUME NEW F, NEW S, IsFiniteSet(S)
  PROVE  /\ S = {} => TotalOf(F, S) = 0
         /\ S # {} => TotalOf(F, S) = F[Chosen(S)] + TotalOf(F, S \ {Chosen(S)})
<1> DEFINE Sol(B) == CHOOSE it : SumsUp(F, B, it)
           u == S \ {Chosen(S)}
<1>1. IsFiniteSet(u) /\ u \in SUBSET S
  BY FS_Subset
<1>2. SumsUp(F, S, Sol(S)) /\ SumsUp(F, u, Sol(u))
  BY <1>1, SumExists
<1>3. TotalOf(F, S) = Sol(S)[S] /\ TotalOf(F, u) = Sol(u)[u]
  BY TotalDef
<1> HIDE DEF Sol
<1>4. Sol(S)[u] = Sol(u)[u]
  <2>1. u \in SUBSET u
    OBVIOUS
  <2> HIDE DEF u
  <2> QED
    BY <1>1, <1>2, <2>1, SumsAgree
<1>5. Sol(S)[S] = IF S = {} THEN 0 ELSE F[Chosen(S)] + Sol(S)[u]
  BY <1>2 DEF SumsUp
<1> QED
  BY <1>3, <1>4, <1>5

(* The sum of natural numbers is one.                                      *)
LEMMA TotalType ==
  ASSUME NEW F, NEW S, IsFiniteSet(S), \A x \in S : F[x] \in Nat
  PROVE  TotalOf(F, S) \in Nat
<1> DEFINE T == {A \in SUBSET S : TotalOf(F, A) \notin Nat}
<1>1. SUFFICES ASSUME T # {} PROVE FALSE
  OBVIOUS
<1>2. PICK A \in T : \A y \in T : ~ (y \subseteq A /\ y # A)
  <2>1. T \subseteq SUBSET S
    OBVIOUS
  <2> HIDE DEF T
  <2> QED
    BY <1>1, <2>1, SmallestSet
<1>3. IsFiniteSet(A) /\ A \in SUBSET S /\ TotalOf(F, A) \notin Nat
  BY FS_Subset
<1>4. A # {} /\ TotalOf(F, A) = F[Chosen(A)] + TotalOf(F, A \ {Chosen(A)})
  BY <1>3, TotalSumsUp
<1>5. Chosen(A) \in A
  BY <1>4, ChosenIn
<1>6. TotalOf(F, A \ {Chosen(A)}) \in Nat /\ F[Chosen(A)] \in Nat
  BY <1>2, <1>3, <1>5
<1> QED
  BY <1>3, <1>4, <1>6

(* The sum of integers is one, and any element can be taken out.           *)
LEMMA TotalOfIntegers ==
  ASSUME NEW F, NEW S, IsFiniteSet(S), \A x \in S : F[x] \in Int
  PROVE  TotalOf(F, S) \in Int
<1> DEFINE T == {A \in SUBSET S : TotalOf(F, A) \notin Int}
<1>1. SUFFICES ASSUME T # {} PROVE FALSE
  OBVIOUS
<1>2. PICK A \in T : \A y \in T : ~ (y \subseteq A /\ y # A)
  <2>1. T \subseteq SUBSET S
    OBVIOUS
  <2> HIDE DEF T
  <2> QED
    BY <1>1, <2>1, SmallestSet
<1>3. IsFiniteSet(A) /\ A \in SUBSET S /\ TotalOf(F, A) \notin Int
  BY FS_Subset
<1>4. A # {} /\ TotalOf(F, A) = F[Chosen(A)] + TotalOf(F, A \ {Chosen(A)})
  BY <1>3, TotalSumsUp
<1>5. Chosen(A) \in A
  BY <1>4, ChosenIn
<1>6. TotalOf(F, A \ {Chosen(A)}) \in Int /\ F[Chosen(A)] \in Int
  BY <1>2, <1>3, <1>5
<1> QED
  BY <1>3, <1>4, <1>6

LEMMA TakeOutInteger ==
  ASSUME NEW F, NEW S, IsFiniteSet(S), \A x \in S : F[x] \in Int, NEW x \in S
  PROVE  TotalOf(F, S) = F[x] + TotalOf(F, S \ {x})
<1> DEFINE T == {A \in SUBSET S : \E a \in A : TotalOf(F, A) # F[a] + TotalOf(F, A \ {a})}
<1>1. SUFFICES ASSUME T # {} PROVE FALSE
  OBVIOUS
<1>2. PICK A \in T : \A y \in T : ~ (y \subseteq A /\ y # A)
  <2>1. T \subseteq SUBSET S
    OBVIOUS
  <2> HIDE DEF T
  <2> QED
    BY <1>1, <2>1, SmallestSet
<1>3. PICK a \in A : TotalOf(F, A) # F[a] + TotalOf(F, A \ {a})
  OBVIOUS
<1> DEFINE c == Chosen(A)
<1>4. IsFiniteSet(A) /\ A \in SUBSET S /\ IsFiniteSet(A \ {a}) /\ IsFiniteSet(A \ {c})
  BY FS_Subset
<1>5. c \in A /\ TotalOf(F, A) = F[c] + TotalOf(F, A \ {c})
  BY <1>3, <1>4, TotalSumsUp, ChosenIn
<1>6. a # c
  BY <1>3, <1>5
<1> HIDE DEF c
<1>7. A \ {a} \notin T /\ A \ {c} \notin T
  BY <1>2, <1>5
<1>8. /\ TotalOf(F, A \ {c}) = F[a] + TotalOf(F, (A \ {c}) \ {a})
      /\ TotalOf(F, A \ {a}) = F[c] + TotalOf(F, (A \ {a}) \ {c})
  BY <1>3, <1>4, <1>5, <1>6, <1>7
<1>9. (A \ {c}) \ {a} = (A \ {a}) \ {c}
  OBVIOUS
<1>10. IsFiniteSet((A \ {a}) \ {c}) /\ TotalOf(F, (A \ {a}) \ {c}) \in Int
  <2>1. (A \ {a}) \ {c} \in SUBSET S
    BY <1>4
  <2> QED
    BY <2>1, FS_Subset, TotalOfIntegers
<1>11. F[a] \in Int /\ F[c] \in Int
  BY <1>4, <1>5
<1>12. TotalOf(F, A) # F[a] + TotalOf(F, A \ {a})
  BY <1>3
<1> HIDE DEF T
<1>13. PICK r \in Int : r = TotalOf(F, (A \ {a}) \ {c})
  BY <1>10
<1>14. TotalOf(F, A) = F[c] + (F[a] + r) /\ TotalOf(F, A \ {a}) = F[c] + r
  BY <1>5, <1>8, <1>9, <1>13
<1>15. F[c] + (F[a] + r) = F[a] + (F[c] + r)
  BY <1>11
<1> QED
  BY <1>12, <1>14, <1>15, Zenon

LEMMA TotalTakeOut ==
  ASSUME NEW F, NEW S, IsFiniteSet(S), \A x \in S : F[x] \in Nat, NEW x \in S
  PROVE  TotalOf(F, S) = F[x] + TotalOf(F, S \ {x})
<1>1. \A y \in S : F[y] \in Int
  OBVIOUS
<1> QED
  BY <1>1, TakeOutInteger

LEMMA TotalSubset ==
  ASSUME NEW F, NEW S, IsFiniteSet(S), \A x \in S : F[x] \in Nat, NEW A \in SUBSET S
  PROVE  TotalOf(F, A) <= TotalOf(F, S)
<1> DEFINE T == {B \in SUBSET S : A \subseteq B /\ ~ TotalOf(F, A) <= TotalOf(F, B)}
<1>1. SUFFICES ASSUME T # {} PROVE FALSE
  OBVIOUS
<1>2. PICK B \in T : \A y \in T : ~ (y \subseteq B /\ y # B)
  <2>1. T \subseteq SUBSET S
    OBVIOUS
  <2> HIDE DEF T
  <2> QED
    BY <1>1, <2>1, SmallestSet
<1>3. /\ B \in SUBSET S /\ A \subseteq B /\ ~ TotalOf(F, A) <= TotalOf(F, B)
      /\ IsFiniteSet(A) /\ IsFiniteSet(B)
  BY FS_Subset
<1>4. TotalOf(F, A) \in Nat /\ TotalOf(F, B) \in Nat
  BY <1>3, TotalType
<1>5. PICK x \in B : x \notin A
  BY <1>3, <1>4
<1>6. B \ {x} \notin T /\ B \ {x} \in SUBSET S /\ A \subseteq B \ {x} /\ IsFiniteSet(B \ {x})
  BY <1>2, <1>3, <1>5, FS_Subset
<1>7. TotalOf(F, A) <= TotalOf(F, B \ {x})
  BY <1>6
<1>8. TotalOf(F, B) = F[x] + TotalOf(F, B \ {x}) /\ F[x] \in Nat
  BY <1>3, <1>5, TotalTakeOut
<1>9. TotalOf(F, B \ {x}) \in Nat
  BY <1>3, <1>6, TotalType
<1> QED
  BY <1>3, <1>4, <1>7, <1>8, <1>9

(* It depends on the values that are added alone. *)
LEMMA TotalSame ==
  ASSUME NEW F, NEW G, NEW S, IsFiniteSet(S), \A x \in S : F[x] = G[x]
  PROVE  TotalOf(F, S) = TotalOf(G, S)
<1> DEFINE T == {A \in SUBSET S : TotalOf(F, A) # TotalOf(G, A)}
<1>1. SUFFICES ASSUME T # {} PROVE FALSE
  OBVIOUS
<1>2. PICK A \in T : \A y \in T : ~ (y \subseteq A /\ y # A)
  <2>1. T \subseteq SUBSET S
    OBVIOUS
  <2> HIDE DEF T
  <2> QED
    BY <1>1, <2>1, SmallestSet
<1>3. IsFiniteSet(A) /\ A \in SUBSET S /\ TotalOf(F, A) # TotalOf(G, A)
  BY FS_Subset
<1>4. /\ A # {} /\ TotalOf(F, A) = F[Chosen(A)] + TotalOf(F, A \ {Chosen(A)})
      /\ TotalOf(G, A) = G[Chosen(A)] + TotalOf(G, A \ {Chosen(A)})
  BY <1>3, TotalSumsUp
<1>5. Chosen(A) \in A
  BY <1>4, ChosenIn
<1>6. A \ {Chosen(A)} \notin T
  BY <1>2, <1>5
<1>7. TotalOf(F, A \ {Chosen(A)}) = TotalOf(G, A \ {Chosen(A)}) /\ F[Chosen(A)] = G[Chosen(A)]
  BY <1>3, <1>5, <1>6
<1> QED
  BY <1>3, <1>4, <1>7

(* The sum of a sequence's first entries. *)
LEMMA TotalOfPrefix ==
  ASSUME NEW F, NEW k \in Nat, \A i \in 1 .. k : F[i] \in Nat
  PROVE  /\ TotalOf(F, 1 .. k) \in Nat
         /\ k = 0 => TotalOf(F, 1 .. k) = 0
         /\ k > 0 => TotalOf(F, 1 .. k) = TotalOf(F, 1 .. k - 1) + F[k]
         /\ \A j \in 0 .. k : /\ TotalOf(F, 1 .. j) \in Nat
                              /\ TotalOf(F, 1 .. j) <= TotalOf(F, 1 .. k)
<1>1. \A j \in Nat : IsFiniteSet(1 .. j)
  BY FS_Interval
<1>2. TotalOf(F, 1 .. k) \in Nat
  BY <1>1, TotalType
<1>3. k = 0 => TotalOf(F, 1 .. k) = 0
  <2>1. k = 0 => 1 .. k = {}
    OBVIOUS
  <2> QED
    BY <1>1, <2>1, TotalSumsUp
<1>4. ASSUME k > 0
      PROVE  TotalOf(F, 1 .. k) = TotalOf(F, 1 .. k - 1) + F[k]
  <2>1. k \in 1 .. k /\ (1 .. k) \ {k} = 1 .. k - 1 /\ F[k] \in Nat /\ k - 1 \in Nat
    BY <1>4
  <2>2. TotalOf(F, 1 .. k) = F[k] + TotalOf(F, 1 .. k - 1)
    BY <1>1, <2>1, TotalTakeOut
  <2>3. TotalOf(F, 1 .. k - 1) \in Nat
    <3>1. \A i \in 1 .. k - 1 : F[i] \in Nat
      OBVIOUS
    <3> QED
      BY <1>1, <2>1, <3>1, TotalType
  <2> QED
    BY <2>1, <2>2, <2>3
<1>5. ASSUME NEW j \in 0 .. k
      PROVE  TotalOf(F, 1 .. j) \in Nat /\ TotalOf(F, 1 .. j) <= TotalOf(F, 1 .. k)
  <2>1. 1 .. j \in SUBSET (1 .. k) /\ j \in Nat /\ \A i \in 1 .. j : F[i] \in Nat
    OBVIOUS
  <2> QED
    BY <1>1, <2>1, TotalSubset, TotalType
<1> QED
  BY <1>2, <1>3, <1>4, <1>5

-----------------------------------------------------------------------------
(* FlattenSeq: the recursive function behind it, on the first n sequences. *)
Joins(s, n, f) ==
  f = [i \in 1 .. n |-> IF i = 1 THEN s[i] ELSE f[i - 1] \o s[i]]

LEMMA JoinsAgree ==
  ASSUME NEW s, NEW r, NEW n \in Nat, NEW m \in Nat, n <= m,
         \A i \in 1 .. n : s[i] = r[i],
         NEW f, NEW g, Joins(s, n, f), Joins(r, m, g)
  PROVE  \A i \in 1 .. n : f[i] = g[i]
<1> DEFINE T == {i \in 1 .. n : f[i] # g[i]}
<1>1. SUFFICES ASSUME T # {} PROVE FALSE
  OBVIOUS
<1>2. PICK i \in T : \A j \in T : i <= j
  <2>1. T \subseteq Nat
    OBVIOUS
  <2> HIDE DEF T
  <2> QED
    BY <1>1, <2>1, SmallestNumber
<1>3. i \in 1 .. n /\ f[i] # g[i] /\ i \in 1 .. m /\ s[i] = r[i]
  OBVIOUS
<1>4. i # 1 => f[i - 1] = g[i - 1]
  BY <1>2, <1>3
<1> HIDE DEF T
<1>5. /\ f[i] = IF i = 1 THEN s[i] ELSE f[i - 1] \o s[i]
      /\ g[i] = IF i = 1 THEN r[i] ELSE g[i - 1] \o r[i]
  BY <1>3 DEF Joins
<1> QED
  BY <1>3, <1>4, <1>5

LEMMA JoinsExists ==
  ASSUME NEW s, NEW n \in Nat
  PROVE  \E f : Joins(s, n, f)
<1> DEFINE T == {k \in Nat : ~ \E f : Joins(s, k, f)}
<1>1. SUFFICES ASSUME T # {} PROVE FALSE
  OBVIOUS
<1>2. PICK k \in T : \A j \in T : k <= j
  <2>1. T \subseteq Nat
    OBVIOUS
  <2> HIDE DEF T
  <2> QED
    BY <1>1, <2>1, SmallestNumber
<1>3. CASE k = 0
  <2> DEFINE f == [i \in 1 .. 0 |-> s[i]]
  <2>1. Joins(s, 0, f)
    BY DEF Joins
  <2> QED
    BY <1>3, <2>1
<1>4. CASE k # 0
  <2>1. k \in Nat /\ k - 1 \in Nat /\ k - 1 \notin T
    <3>1. k \in Nat
      OBVIOUS
    <3> HIDE DEF T
    <3> QED
      BY <1>2, <1>4, <3>1
  <2>2. PICK g : Joins(s, k - 1, g)
    BY <2>1
  <2>3. \A i \in 1 .. k - 1 : g[i] = IF i = 1 THEN s[i] ELSE g[i - 1] \o s[i]
    BY <2>2 DEF Joins
  <2> k \in Nat
    BY <2>1
  <2> HIDE DEF T
  <2> DEFINE f == [i \in 1 .. k |-> IF i = 1 THEN s[i] ELSE g[i - 1] \o s[i]]
  <2>4. \A i \in 1 .. k - 1 : f[i] = g[i]
    BY <2>3
  <2>5. \A i \in 1 .. k : i # 1 => i - 1 \in 1 .. k - 1
    OBVIOUS
  <2>6. \A i \in 1 .. k : i # 1 => f[i - 1] = g[i - 1]
    BY <2>4, <2>5
  <2>7. Joins(s, k, f)
    BY <2>6 DEF Joins
  <2> QED
    BY <2>1, <2>7 DEF T
<1> QED
  BY <1>3, <1>4

LEMMA FlattenJoins ==
  ASSUME NEW s, NEW n \in Nat \ {0}, Len(s) = n
  PROVE  \E f : Joins(s, n, f) /\ FlattenSeq(s) = f[n]
<1> DEFINE f == CHOOSE f : Joins(s, n, f)
<1>1. Joins(s, n, f)
  BY JoinsExists
<1>2. FlattenSeq(s) = f[n]
  BY DEF FlattenSeq, Joins
<1> QED
  BY <1>1, <1>2

(* What FlattenSeq gives, as if it were defined by recursion. *)
LEMMA FlattenNone == FlattenSeq(<<>>) = <<>>
BY DEF FlattenSeq

LEMMA FlattenAppend ==
  ASSUME NEW S, NEW s \in Seq(Seq(S)), NEW x \in Seq(S)
  PROVE  FlattenSeq(Append(s, x)) = FlattenSeq(s) \o x
<1>1. FlattenSeq(<<>>) = <<>>
  BY FlattenNone
<1> DEFINE n == Len(s)
           r == Append(s, x)
<1>2. n \in Nat /\ Len(r) = n + 1 /\ r[n + 1] = x /\ \A i \in 1 .. n : s[i] = r[i]
  OBVIOUS
<1>3. PICK g : Joins(r, n + 1, g) /\ FlattenSeq(r) = g[n + 1]
  <2>1. n + 1 \in Nat \ {0}
    BY <1>2
  <2> HIDE DEF n, r
  <2> QED
    BY <1>2, <2>1, FlattenJoins
<1>4. CASE n = 0
  <2>1. s = <<>> /\ g[1] = x
    BY <1>2, <1>3, <1>4 DEF Joins
  <2> QED
    BY <1>1, <1>3, <1>4, <2>1
<1>5. CASE n # 0
  <2>1. PICK f : Joins(s, n, f) /\ FlattenSeq(s) = f[n]
    <3> HIDE DEF n
    <3> QED
      BY <1>2, <1>5, FlattenJoins DEF n
  <2>2. FlattenSeq(r) = g[n + 1] /\ n \in 1 .. n
    BY <1>2, <1>3, <1>5
  <2> HIDE DEF n, r
  <2>3. \A i \in 1 .. n : f[i] = g[i]
    <3>1. n \in Nat /\ n + 1 \in Nat /\ n <= n + 1 /\ \A i \in 1 .. n : s[i] = r[i]
      BY <1>2
    <3> QED
      BY <1>3, <2>1, <3>1, JoinsAgree
  <2>4. g[n + 1] = g[n] \o x
    <3>1. n + 1 \in 1 .. n + 1 /\ n + 1 # 1 /\ (n + 1) - 1 = n
      BY <1>2, <1>5
    <3>2. g[n + 1] = IF n + 1 = 1 THEN r[n + 1] ELSE g[(n + 1) - 1] \o r[n + 1]
      BY <1>3, <3>1 DEF Joins
    <3> QED
      BY <1>2, <3>1, <3>2
  <2> QED
    BY <1>1, <2>1, <2>2, <2>3, <2>4 DEF r
<1> QED
  BY <1>1, <1>4, <1>5

LEMMA FlattenType ==
  ASSUME NEW S, NEW s \in Seq(Seq(S))
  PROVE  FlattenSeq(s) \in Seq(S)
<1> DEFINE n == Len(s)
<1>1. n \in Nat /\ \A i \in 1 .. n : s[i] \in Seq(S)
  OBVIOUS
<1>2. CASE n = 0
  BY <1>2 DEF FlattenSeq
<1>3. CASE n # 0
  <2>1. PICK f : Joins(s, n, f) /\ FlattenSeq(s) = f[n]
    <3> HIDE DEF n
    <3> QED
      BY <1>1, <1>3, FlattenJoins DEF n
  <2> HIDE DEF n
  <2> DEFINE T == {i \in 1 .. n : f[i] \notin Seq(S)}
  <2>2. SUFFICES ASSUME T # {} PROVE FALSE
    BY <1>1, <1>3, <2>1
  <2>3. PICK i \in T : \A j \in T : i <= j
    <3>1. T \subseteq Nat
      OBVIOUS
    <3> HIDE DEF T
    <3> QED
      BY <2>2, <3>1, SmallestNumber
  <2>4. f[i] = (IF i = 1 THEN s[i] ELSE f[i - 1] \o s[i]) /\ i \in 1 .. n
    BY <2>1 DEF Joins
  <2>5. i # 1 => f[i - 1] \in Seq(S)
    BY <1>1, <2>3, <2>4
  <2>6. f[i] \notin Seq(S) /\ s[i] \in Seq(S)
    BY <1>1, <2>4
  <2>7. \A u, v \in Seq(S) : u \o v \in Seq(S)
    OBVIOUS
  <2> HIDE DEF T
  <2> QED
    BY <2>4, <2>5, <2>6, <2>7
<1> QED
  BY <1>2, <1>3

(* Where the elements of the sequences are in their concatenation.         *)
LEMMA ConcatPlaces ==
  ASSUME NEW S, NEW u \in Seq(S), NEW v \in Seq(S)
  PROVE  /\ u \o v \in Seq(S) /\ Len(u \o v) = Len(u) + Len(v)
         /\ \A k \in 1 .. Len(u) : (u \o v)[k] = u[k]
         /\ \A k \in 1 .. Len(v) : (u \o v)[Len(u) + k] = v[k]
OBVIOUS

LEMMA FlattenPlaces ==
  ASSUME NEW S, NEW s \in Seq(Seq(S)), NEW i \in 1 .. Len(s), NEW j \in 1 .. Len(s[i]),
         NEW w, \A k \in 1 .. Len(s) : w[k] = Len(s[k])
  PROVE  /\ TotalOf(w, 1 .. i - 1) \in Nat
         /\ TotalOf(w, 1 .. i - 1) + j \in 1 .. Len(FlattenSeq(s))
         /\ FlattenSeq(s)[TotalOf(w, 1 .. i - 1) + j] = s[i][j]
<1> DEFINE n == Len(s)
           before(k) == TotalOf(w, 1 .. k)
<1>1. n \in Nat \ {0} /\ i \in 1 .. n /\ \A k \in 1 .. n : s[k] \in Seq(S) /\ w[k] = Len(s[k])
  OBVIOUS
<1>2. PICK f : Joins(s, n, f) /\ FlattenSeq(s) = f[n]
  <2> HIDE DEF n
  <2> QED
    BY <1>1, FlattenJoins DEF n
<1> HIDE DEF n
<1>3. \A k \in 1 .. n : w[k] \in Nat
  BY <1>1
<1>4. ASSUME NEW k \in 0 .. n
      PROVE  /\ before(k) \in Nat
             /\ k = 0 => before(k) = 0
             /\ k > 0 => before(k) = before(k - 1) + Len(s[k])
  <2>1. k \in Nat /\ \A x \in 1 .. k : w[x] \in Nat
    BY <1>1, <1>3
  <2>2. k > 0 => w[k] = Len(s[k])
    BY <1>1
  <2> QED
    BY <2>1, <2>2, TotalOfPrefix
<1> HIDE DEF before
<1> DEFINE Good(m) == /\ f[m] \in Seq(S) /\ Len(f[m]) = before(m)
                      /\ m >= i => /\ before(i - 1) + j \in 1 .. before(m)
                                   /\ f[m][before(i - 1) + j] = s[i][j]
           T == {m \in 1 .. n : ~ Good(m)}
<1>5. T = {}
  <2>1. SUFFICES ASSUME T # {} PROVE FALSE
    OBVIOUS
  <2>2. PICK m \in T : \A y \in T : m <= y
    <3>1. T \subseteq Nat
      BY <1>1
    <3> HIDE DEF T
    <3> QED
      BY <2>1, <3>1, SmallestNumber
  <2>3. m \in 1 .. n /\ ~ Good(m)
    BY <2>2
  <2>4. m # 1 => m - 1 \in 1 .. n /\ Good(m - 1)
    <3>1. m # 1 => m - 1 \in 1 .. n /\ m - 1 \notin T
      <4> HIDE DEF T
      <4> QED
        BY <1>1, <2>2, <2>3
    <3> QED
      BY <3>1
  <2> HIDE DEF T
  <2>5. f[m] = IF m = 1 THEN s[m] ELSE f[m - 1] \o s[m]
    BY <1>2, <2>3 DEF Joins
  <2>6. s[m] \in Seq(S) /\ before(m) = before(m - 1) + Len(s[m]) /\ before(m - 1) \in Nat
    BY <1>1, <1>4, <2>3
  <2>7. CASE m = 1
    <3>1. before(0) = 0 /\ 0 \in 0 .. n
      BY <1>1, <1>4
    <3>2. m >= i => i = 1
      BY <2>7
    <3> QED
      BY <2>3, <2>5, <2>6, <2>7, <3>1, <3>2
  <2>8. CASE m # 1
    <3>1. f[m - 1] \in Seq(S) /\ Len(f[m - 1]) = before(m - 1) /\ f[m] = f[m - 1] \o s[m]
      BY <2>4, <2>5, <2>8
    <3> HIDE DEF Good
    <3>0. /\ \A k \in 1 .. Len(f[m - 1]) : f[m][k] = f[m - 1][k]
          /\ \A k \in 1 .. Len(s[m]) : f[m][Len(f[m - 1]) + k] = s[m][k]
          /\ f[m] \in Seq(S) /\ Len(f[m]) = Len(f[m - 1]) + Len(s[m])
      <4>1. PICK u \in Seq(S), v \in Seq(S) : u = f[m - 1] /\ v = s[m]
        BY <2>6, <3>1
      <4>2. f[m] = u \o v
        BY <3>1, <4>1
      <4>3. /\ \A k \in 1 .. Len(u) : (u \o v)[k] = u[k]
            /\ \A k \in 1 .. Len(v) : (u \o v)[Len(u) + k] = v[k]
            /\ u \o v \in Seq(S) /\ Len(u \o v) = Len(u) + Len(v)
        BY ConcatPlaces
      <4> QED
        BY <4>1, <4>2, <4>3, Zenon
    <3>2. f[m] \in Seq(S) /\ Len(f[m]) = before(m)
      BY <2>6, <3>0, <3>1
    <3>3. CASE m = i
      <4>1. f[m][before(m - 1) + j] = s[m][j] /\ before(m - 1) + j \in 1 .. before(m)
        <5>1. before(m - 1) = Len(f[m - 1]) /\ j \in 1 .. Len(s[m])
          BY <3>1, <3>3
        <5>2. f[m][before(m - 1) + j] = s[m][j]
          BY <3>0, <5>1
        <5>3. PICK l \in Nat, b \in Nat : l = Len(s[m]) /\ b = before(m - 1)
          BY <2>6
        <5>4. before(m) = b + l
          BY <2>6, <5>3
        <5>5. j \in 1 .. l
          BY <5>1, <5>3
        <5>6. b + j \in 1 .. b + l
          BY <5>5
        <5> QED
          BY <5>2, <5>3, <5>4, <5>6, Zenon
      <4> QED
        BY <2>3, <3>2, <3>3, <4>1 DEF Good
    <3>4. CASE m > i
      <4>1. m - 1 >= i
        BY <2>3, <3>4
      <4>2. before(i - 1) + j \in 1 .. before(m - 1) /\ f[m - 1][before(i - 1) + j] = s[i][j]
        BY <2>4, <2>8, <4>1 DEF Good
      <4>3. before(i - 1) + j \in 1 .. before(m)
        BY <2>6, <4>2
      <4>4. f[m][before(i - 1) + j] = f[m - 1][before(i - 1) + j]
        BY <3>0, <3>1, <4>2
      <4> QED
        BY <2>3, <3>2, <4>2, <4>3, <4>4 DEF Good
    <3>5. CASE m < i
      BY <2>3, <3>2, <3>5 DEF Good
    <3> QED
      BY <2>3, <3>3, <3>4, <3>5
  <2> QED
    BY <2>7, <2>8
<1>6. Good(n) /\ n >= i
  <2>1. n \in 1 .. n /\ n \notin T /\ n >= i
    <3> HIDE DEF T
    <3> QED
      BY <1>1, <1>5
  <2> QED
    BY <2>1
<1>7. before(i - 1) \in Nat
  <2>1. i - 1 \in 0 .. n
    BY <1>1
  <2> QED
    BY <1>4, <2>1
<1> QED
  BY <1>2, <1>6, <1>7 DEF before

(* The sum is linear: a sum of sums is taken apart. *)
LEMMA TotalAdds ==
  ASSUME NEW F, NEW G, NEW H, NEW S, IsFiniteSet(S),
         \A x \in S : G[x] \in Int /\ H[x] \in Int /\ F[x] = G[x] + H[x]
  PROVE  TotalOf(F, S) = TotalOf(G, S) + TotalOf(H, S)
<1> DEFINE T == {A \in SUBSET S : TotalOf(F, A) # TotalOf(G, A) + TotalOf(H, A)}
<1>1. SUFFICES ASSUME T # {} PROVE FALSE
  OBVIOUS
<1>2. PICK A \in T : \A y \in T : ~ (y \subseteq A /\ y # A)
  <2>1. T \subseteq SUBSET S
    OBVIOUS
  <2> HIDE DEF T
  <2> QED
    BY <1>1, <2>1, SmallestSet
<1>3. IsFiniteSet(A) /\ A \in SUBSET S /\ TotalOf(F, A) # TotalOf(G, A) + TotalOf(H, A)
  BY FS_Subset
<1>4. A # {}
  <2>1. A = {} => TotalOf(F, A) = 0 /\ TotalOf(G, A) = 0 /\ TotalOf(H, A) = 0
    BY <1>3, TotalSumsUp
  <2> HIDE DEF T
  <2> QED
    BY <1>3, <2>1
<1> DEFINE c == Chosen(A)
           B == A \ {c}
<1>5. c \in A /\ c \in S
  BY <1>3, <1>4, ChosenIn
<1>6. B \in SUBSET S /\ B \notin T /\ IsFiniteSet(B)
  BY <1>2, <1>3, <1>5, FS_Subset
<1>7. TotalOf(F, B) = TotalOf(G, B) + TotalOf(H, B)
  BY <1>6
<1>8. /\ TotalOf(F, A) = F[c] + TotalOf(F, B)
      /\ TotalOf(G, A) = G[c] + TotalOf(G, B)
      /\ TotalOf(H, A) = H[c] + TotalOf(H, B)
  BY <1>3, <1>4, TotalSumsUp
<1>9. TotalOf(G, B) \in Int /\ TotalOf(H, B) \in Int
  BY <1>6, TotalOfIntegers
<1>10. G[c] \in Int /\ H[c] \in Int /\ F[c] = G[c] + H[c]
  BY <1>5
<1> HIDE DEF T, c, B
<1> QED
  BY <1>3, <1>7, <1>8, <1>9, <1>10

(* A sum with one element that is not 0, and the sum of two sequences put  *)
(* one behind the other. *)
LEMMA TotalOfZeros ==
  ASSUME NEW F, NEW S, IsFiniteSet(S), \A x \in S : F[x] = 0
  PROVE  TotalOf(F, S) = 0
<1>1. \A x \in S : F[x] \in Int /\ F[x] = F[x] + F[x]
  OBVIOUS
<1>2. TotalOf(F, S) = TotalOf(F, S) + TotalOf(F, S) /\ TotalOf(F, S) \in Int
  BY <1>1, TotalAdds, TotalOfIntegers
<1>3. \A t \in Int : t = t + t => t = 0
  OBVIOUS
<1> QED
  BY <1>2, <1>3, Zenon

LEMMA TotalOfOne ==
  ASSUME NEW F, NEW S, IsFiniteSet(S), NEW x \in S, F[x] \in Int,
         \A y \in S : y # x => F[y] = 0
  PROVE  TotalOf(F, S) = F[x]
<1>1. \A y \in S : F[y] \in Int
  OBVIOUS
<1>2. TotalOf(F, S) = F[x] + TotalOf(F, S \ {x})
  BY <1>1, TakeOutInteger
<1>3. TotalOf(F, S \ {x}) = 0
  <2>1. IsFiniteSet(S \ {x}) /\ \A y \in S \ {x} : F[y] = 0
    BY FS_Subset
  <2> QED
    BY <2>1, TotalOfZeros
<1> QED
  BY <1>2, <1>3

LEMMA TotalOfPrefixIntegers ==
  ASSUME NEW F, NEW k \in Nat, \A i \in 1 .. k : F[i] \in Int
  PROVE  /\ TotalOf(F, 1 .. k) \in Int
         /\ k = 0 => TotalOf(F, 1 .. k) = 0
         /\ k > 0 => TotalOf(F, 1 .. k) = TotalOf(F, 1 .. k - 1) + F[k]
<1>1. \A j \in Nat : IsFiniteSet(1 .. j)
  BY FS_Interval
<1>2. TotalOf(F, 1 .. k) \in Int
  BY <1>1, TotalOfIntegers
<1>3. k = 0 => TotalOf(F, 1 .. k) = 0
  <2>1. k = 0 => 1 .. k = {}
    OBVIOUS
  <2> QED
    BY <1>1, <2>1, TotalSumsUp
<1>4. ASSUME k > 0
      PROVE  TotalOf(F, 1 .. k) = TotalOf(F, 1 .. k - 1) + F[k]
  <2>1. k \in 1 .. k /\ (1 .. k) \ {k} = 1 .. k - 1 /\ F[k] \in Int /\ k - 1 \in Nat
    BY <1>4
  <2>2. TotalOf(F, 1 .. k) = F[k] + TotalOf(F, 1 .. k - 1)
    BY <1>1, <2>1, TakeOutInteger
  <2>3. TotalOf(F, 1 .. k - 1) \in Int
    <3>1. \A i \in 1 .. k - 1 : F[i] \in Int
      OBVIOUS
    <3> QED
      BY <1>1, <2>1, <3>1, TotalOfIntegers
  <2> QED
    BY <2>1, <2>2, <2>3
<1> QED
  BY <1>2, <1>3, <1>4

Follows(F, G, H, n, m) ==
  /\ n \in Nat /\ m \in Nat
  /\ \A i \in 1 .. n : F[i] \in Int /\ F[i] = G[i]
  /\ \A i \in 1 .. m : F[n + i] \in Int /\ F[n + i] = H[i]

LEMMA TotalOfJoined ==
  ASSUME NEW F, NEW G, NEW H, NEW n, NEW m, Follows(F, G, H, n, m)
  PROVE  TotalOf(F, 1 .. n + m) = TotalOf(G, 1 .. n) + TotalOf(H, 1 .. m)
<1> USE DEF Follows
<1> DEFINE T == {k \in 0 .. m : TotalOf(F, 1 .. n + k) # TotalOf(G, 1 .. n) + TotalOf(H, 1 .. k)}
<1>1. SUFFICES ASSUME T # {} PROVE FALSE
  BY m \in 0 .. m
<1>2. PICK k \in T : \A j \in T : k <= j
  <2>1. T \subseteq Nat
    OBVIOUS
  <2> HIDE DEF T
  <2> QED
    BY <1>1, <2>1, SmallestNumber
<1>3. k \in 0 .. m /\ TotalOf(F, 1 .. n + k) # TotalOf(G, 1 .. n) + TotalOf(H, 1 .. k)
  OBVIOUS
<1>4. TotalOf(F, 1 .. n) = TotalOf(G, 1 .. n) /\ TotalOf(F, 1 .. n) \in Int
  <2>1. IsFiniteSet(1 .. n)
    BY FS_Interval
  <2> QED
    BY <2>1, TotalSame, TotalOfIntegers
<1>5. \A i \in 1 .. n + k : F[i] \in Int
  <2>1. ASSUME NEW i \in 1 .. n + k, i > n PROVE F[i] \in Int
    <3>1. i - n \in 1 .. m /\ n + (i - n) = i
      BY <1>3, <2>1
    <3> QED
      BY <3>1
  <2> QED
    BY <2>1
<1>6. \A i \in 1 .. k : H[i] \in Int
  <2>1. \A i \in 1 .. k : i \in 1 .. m
    BY <1>3
  <2> QED
    BY <2>1
<1>7. CASE k = 0
  <2>1. TotalOf(H, 1 .. 0) = 0
    BY <1>6, <1>7, TotalOfPrefixIntegers
  <2>2. TotalOf(F, 1 .. n + 0) = TotalOf(F, 1 .. n)
    OBVIOUS
  <2> QED
    BY <1>3, <1>4, <1>7, <2>1, <2>2
<1>8. CASE k # 0
  <2>1. k - 1 \in 0 .. m /\ k - 1 \notin T
    <3> HIDE DEF T
    <3> QED
      BY <1>2, <1>3, <1>8
  <2>2. TotalOf(F, 1 .. n + (k - 1)) = TotalOf(G, 1 .. n) + TotalOf(H, 1 .. k - 1)
    BY <2>1
  <2> HIDE DEF T
  <2>3. n + k \in Nat /\ n + k > 0 /\ (n + k) - 1 = n + (k - 1) /\ k \in Nat /\ k > 0
    BY <1>3, <1>8
  <2>4. TotalOf(F, 1 .. n + k) = TotalOf(F, 1 .. n + (k - 1)) + F[n + k]
    BY <1>5, <2>3, TotalOfPrefixIntegers
  <2>5. TotalOf(H, 1 .. k) = TotalOf(H, 1 .. k - 1) + H[k]
    BY <1>6, <2>3, TotalOfPrefixIntegers
  <2>6. TotalOf(H, 1 .. k - 1) \in Int
    <3>1. k - 1 \in Nat /\ \A i \in 1 .. k - 1 : H[i] \in Int
      BY <1>6, <2>3
    <3> QED
      BY <3>1, TotalOfPrefixIntegers
  <2>7. F[n + k] = H[k] /\ H[k] \in Int
    BY <1>3, <1>8
  <2> QED
    BY <1>3, <1>4, <2>2, <2>4, <2>5, <2>6, <2>7
<1> QED
  BY <1>7, <1>8

-----------------------------------------------------------------------------
(* Quotients. *)
LEMMA Quotient ==
  ASSUME NEW k \in Nat, NEW p \in Nat \ {0}
  PROVE  /\ k \div p \in Nat /\ k % p \in 0 .. p - 1
         /\ k = p * (k \div p) + (k % p)
OBVIOUS

LEMMA TimesMonotone ==
  ASSUME NEW a \in Nat, NEW x \in Nat, NEW y \in Nat, x <= y
  PROVE  a * x <= a * y
OBVIOUS

LEMMA QuotientIs ==
  ASSUME NEW p \in Nat \ {0}, NEW q \in Nat, NEW r \in 0 .. p - 1, NEW k \in Nat, k = p * q + r
  PROVE  k \div p = q /\ k % p = r
<1> DEFINE d == k \div p
<1>1. d \in Nat /\ k % p \in 0 .. p - 1 /\ k = p * d + (k % p)
  BY Quotient
<1> HIDE DEF d
<1>2. ~ d > q
  <2>1. SUFFICES ASSUME d > q PROVE FALSE
    OBVIOUS
  <2>2. p * (q + 1) <= p * d
    BY <1>1, <2>1, TimesMonotone
  <2> QED
    BY <1>1, <2>2
<1>3. ~ q > d
  <2>1. SUFFICES ASSUME q > d PROVE FALSE
    OBVIOUS
  <2>2. p * (d + 1) <= p * q
    BY <1>1, <2>1, TimesMonotone
  <2> QED
    BY <1>1, <2>2
<1>4. d = q
  BY <1>1, <1>2, <1>3
<1> QED
  BY <1>1, <1>4 DEF d

(* Two numbers with one remainder are a whole divisor apart, and between    *)
(* them there is one with any other remainder. *)
Leads(p, r, s, d) ==
  \A m, k \in Nat : m < k /\ m % p = r /\ k % p = r => k - d \in m + 1 .. k /\ (k - d) % p = s

LEMMA RemainderBetween ==
  ASSUME NEW p \in Nat \ {0}, NEW r \in 0 .. p - 1, NEW s \in 0 .. p - 1
  PROVE  \E d \in 0 .. p - 1 : Leads(p, r, s, d)
<1>0. PICK d \in 0 .. p - 1 : d = IF s <= r THEN r - s ELSE r - s + p
  <2>1. (IF s <= r THEN r - s ELSE r - s + p) \in 0 .. p - 1
    OBVIOUS
  <2> QED
    BY <2>1
<1> SUFFICES ASSUME NEW m \in Nat, NEW k \in Nat, m < k, m % p = r, k % p = r
             PROVE  k - d \in m + 1 .. k /\ (k - d) % p = s
  BY Zenon DEF Leads
<1>1. PICK a \in Nat, q \in Nat : m = p * a + r /\ k = p * q + r
  <2>1. m \div p \in Nat /\ m = p * (m \div p) + r
    BY Quotient
  <2>2. k \div p \in Nat /\ k = p * (k \div p) + r
    BY Quotient
  <2> QED
    BY <2>1, <2>2, Zenon
<1>3. a < q
  <2>1. SUFFICES ASSUME q <= a PROVE FALSE
    BY <1>1
  <2>2. p * q <= p * a /\ p * q \in Nat /\ p * a \in Nat
    BY <1>1, <2>1, TimesMonotone
  <2> QED
    BY <1>1, <2>2
<1>4. PICK h \in Nat : q = h + 1
  <2>1. q - 1 \in Nat /\ q = (q - 1) + 1
    BY <1>1, <1>3
  <2> QED
    BY <2>1
<1>5. p * q = p * h + p /\ p * h \in Nat /\ p * a \in Nat /\ p * a <= p * h
  <2>1. a <= h
    BY <1>1, <1>3, <1>4
  <2> QED
    BY <1>1, <1>4, <2>1, TimesMonotone
<1>6. PICK x \in Nat : x = p * h /\ k = x + p + r /\ m <= x + r
  BY <1>1, <1>5
<1>7. k - d \in m + 1 .. k /\ k - d \in Nat
  BY <1>6
<1>8. CASE s <= r
  <2>1. k - d = p * q + s
    BY <1>0, <1>1, <1>5, <1>6, <1>8
  <2>2. (k - d) % p = s
    BY <1>7, <2>1, QuotientIs
  <2> QED
    BY <1>7, <2>2
<1>9. CASE ~(s <= r)
  <2>1. k - d = p * h + s
    BY <1>0, <1>6, <1>9
  <2>2. (k - d) % p = s
    BY <1>7, <2>1, QuotientIs
  <2> QED
    BY <1>7, <2>2
<1> QED
  BY <1>8, <1>9

WithRemainder(B, p, r) == {i \in B : i % p = r}

(* In consecutive numbers, two remainders occur equally often to within    *)
(* one. *)
LEMMA RemaindersEven ==
  ASSUME NEW n \in Nat, NEW B \in SUBSET (1 .. n),
         \A i, k \in B : \A j \in i .. k : j \in B,
         NEW p \in Nat \ {0}, NEW r \in 0 .. p - 1, NEW s \in 0 .. p - 1
  PROVE  Cardinality(WithRemainder(B, p, r)) <= Cardinality(WithRemainder(B, p, s)) + 1
<1> DEFINE R == {i \in B : i % p = r}
           S == {i \in B : i % p = s}
<1>1. IsFiniteSet(R) /\ IsFiniteSet(S)
  <2>1. IsFiniteSet(1 .. n)
    BY FS_Interval
  <2> QED
    BY <2>1, FS_Subset
<1>2. Cardinality(R) \in Nat /\ Cardinality(S) \in Nat
  BY <1>1, FS_CardinalityType
<1>3. CASE R = {}
  BY <1>2, <1>3, FS_EmptySet DEF WithRemainder
<1>4. CASE R # {}
  <2>1. PICK m \in R : \A i \in R : m <= i
    <3>1. B \subseteq Nat
      OBVIOUS
    <3>2. R \subseteq B
      BY Zenon
    <3> HIDE DEF R
    <3> QED
      BY <1>4, <3>1, <3>2, SmallestNumber
  <2>0. PICK d \in 0 .. p - 1 : Leads(p, r, s, d)
    BY RemainderBetween
  <2> DEFINE f == [i \in R \ {m} |-> i - d]
  <2>2. ASSUME NEW i \in R \ {m} PROVE i - d \in S
    <3>1. m \in Nat /\ i \in Nat /\ m < i /\ m % p = r /\ i % p = r
      BY <2>1
    <3>2. i - d \in m + 1 .. i /\ (i - d) % p = s
      BY <2>0, <3>1, Zenon DEF Leads
    <3>3. i - d \in m .. i
      BY <3>1, <3>2
    <3>4. i - d \in B
      BY <3>3
    <3> QED
      BY <3>2, <3>4
  <2>3. \A i, k \in R \ {m} : i - d = k - d => i = k
    OBVIOUS
  <2> HIDE DEF R, S
  <2>4. f \in Injection(R \ {m}, S)
    BY <2>2, <2>3 DEF Injection, IsInjective
  <2>5. Cardinality(R \ {m}) <= Cardinality(S)
    BY <1>1, <2>4, FS_Injection
  <2>6. Cardinality(R \ {m}) = Cardinality(R) - 1
    BY <1>1, <2>1, FS_RemoveElement
  <2> QED
    BY <1>2, <2>5, <2>6 DEF R, S, WithRemainder
<1> QED
  BY <1>3, <1>4
=============================================================================
