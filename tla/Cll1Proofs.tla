------------------------------ MODULE Cll1Proofs ------------------------------
(***************************************************************************)
(* What the list macros return, for every list and every key, and the sums *)
(* over lists that the properties are about.  A sum is a fold, a recursion *)
(* over the subsets of its indices: that it has one solution, and what its *)
(* values are, is shown by way of the smallest subset where it would not.  *)
(***************************************************************************)
EXTENDS Cll1, SequenceTheorems, FiniteSetTheorems, WellFoundedInduction, TLAPS

(* Every non-empty set of naturals has a least element.                    *)
LEMMA LeastNatural ==
  ASSUME NEW T \in SUBSET Nat, T # {}
  PROVE  \E x \in T : \A y \in T : x <= y
  <1>1. PICK x \in T : \A y \in T : <<y, x>> \notin OpToRel(<, Nat)
    BY WFMin, NatLessThanWellFounded, Zenon
  <1>2. \A y \in T : ~ (y < x)
    BY <1>1, Zenon DEF OpToRel
  <1>3. \A y \in T : x <= y
    BY <1>2
  <1>. QED  BY <1>3

(* Every non-empty set of list positions has a greatest element.           *)
LEMMA GreatestIndex ==
  ASSUME NEW n \in Nat, NEW T \in SUBSET (1..n), T # {}
  PROVE  \E x \in T : \A y \in T : x >= y
  <1>. DEFINE U == {n - x : x \in T}
  <1>1. U \in SUBSET Nat /\ U # {}
    <2>1. PICK x \in T : TRUE
      OBVIOUS
    <2>2. n - x \in U
      OBVIOUS
    <2>3. \A y \in T : n - y \in Nat
      OBVIOUS
    <2>. QED  BY <2>2, <2>3
  <1>2. \E u \in U : \A v \in U : u <= v
    <2>. HIDE DEF U
    <2>. QED  BY <1>1, LeastNatural
  <1>3. PICK x \in T : \A y \in T : n - x <= n - y
    BY <1>2
  <1>4. \A y \in T : x >= y
    BY <1>3
  <1>. QED  BY <1>4

(* A set of list positions, if any, holds its Min and its Max: where       *)
(* if_exists stops, on a list and on one that is kept oldest first.        *)
LEMMA FirstIndex ==
  ASSUME NEW n \in Nat, NEW I \in SUBSET (1..n), I # {}
  PROVE  Min(I) \in I
  <1>1. \E x \in I : \A y \in I : x <= y
    BY LeastNatural
  <1>. QED  BY <1>1 DEF Min

LEMMA LastIndex ==
  ASSUME NEW n \in Nat, NEW I \in SUBSET (1..n), I # {}
  PROVE  Max(I) \in I
  <1>1. \E x \in I : \A y \in I : x >= y
    BY GreatestIndex
  <1>. QED  BY <1>1 DEF Max

(* InsertAt lengthens a list by one and shifts what follows the new        *)
(* element.                                                                *)
LEMMA InsertAtProperties ==
  ASSUME NEW S, NEW B \in Seq(S), NEW a \in S, NEW p \in 1..(Len(B) + 1)
  PROVE  /\ InsertAt(B, p, a) \in Seq(S)
         /\ Len(InsertAt(B, p, a)) = Len(B) + 1
         /\ \A i \in 1..(Len(B) + 1) :
              InsertAt(B, p, a)[i] =
                IF i < p THEN B[i] ELSE IF i = p THEN a ELSE B[i - 1]
  <1>. DEFINE front == SubSeq(B, 1, p - 1)
              back  == SubSeq(B, p, Len(B))
  <1>0. Len(B) \in Nat /\ p \in Int
    OBVIOUS
  <1>1. /\ front \in Seq(S) /\ Len(front) = p - 1
        /\ \A i \in 1..(p - 1) : front[i] = B[i]
    BY <1>0, SubSeqProperties
  <1>2. /\ back \in Seq(S) /\ Len(back) = Len(B) - p + 1
        /\ \A i \in 1..(Len(B) - p + 1) : back[i] = B[p + i - 1]
    BY <1>0, SubSeqProperties
  <1>3. <<a>> \in Seq(S) /\ Len(<<a>>) = 1 /\ <<a>>[1] = a
    OBVIOUS
  <1>. DEFINE fa == front \o <<a>>
  <1>. HIDE DEF front, back
  <1>4. /\ fa \in Seq(S) /\ Len(fa) = p
        /\ \A i \in 1..p : fa[i] = IF i < p THEN B[i] ELSE a
    BY <1>0, <1>1, <1>3, ConcatProperties
  <1>. HIDE DEF fa
  <1>5. /\ fa \o back \in Seq(S) /\ Len(fa \o back) = Len(B) + 1
        /\ \A i \in 1..(Len(B) + 1) :
             (fa \o back)[i] = IF i <= p THEN fa[i] ELSE back[i - p]
    BY <1>0, <1>2, <1>4, ConcatProperties
  <1>6. \A i \in 1..(Len(B) + 1) : i > p => back[i - p] = B[i - 1]
    BY <1>0, <1>2
  <1>7. InsertAt(B, p, a) = fa \o back
    BY DEF InsertAt, fa, front, back
  <1>. QED  BY <1>0, <1>4, <1>5, <1>6, <1>7

-----------------------------------------------------------------------------

(* The recursion that a sum over the subsets of s is the solution of.      *)
Chosen(s) == CHOOSE x \in s : TRUE
Adds(f, s, g) ==
  g = [t \in SUBSET s |-> IF t = {} THEN 0 ELSE f[Chosen(t)] + g[t \ {Chosen(t)}]]

(* The community module folds this very recursion.                        *)
LEMMA SumIsSolution ==
  ASSUME NEW f, NEW s
  PROVE  SumFunctionOnSet(f, s) = (CHOOSE g : Adds(f, s, g))[s]
  BY DEF SumFunctionOnSet, FoldFunctionOnSet, MapThenFoldSet, Adds, Chosen

(* A non-empty subset without its chosen element is one smaller.           *)
LEMMA OneFewer ==
  ASSUME NEW s, IsFiniteSet(s), NEW t \in SUBSET s, t # {}
  PROVE  /\ Chosen(t) \in t /\ t \ {Chosen(t)} \in SUBSET s
         /\ Cardinality(t) \in Nat /\ Cardinality(t) # 0
         /\ Cardinality(t \ {Chosen(t)}) = Cardinality(t) - 1
  <1>1. IsFiniteSet(t)
    BY FS_Subset
  <1>2. Chosen(t) \in t
    BY DEF Chosen
  <1>3. Cardinality(t) \in Nat /\ Cardinality(t) # 0
    BY <1>1, FS_CardinalityType, FS_EmptySet
  <1>4. Cardinality(t \ {Chosen(t)}) = Cardinality(t) - 1
    BY <1>1, <1>2, FS_RemoveElement
  <1>. QED  BY <1>2, <1>3, <1>4

(* It has one on a finite set.                                             *)
LEMMA SolutionExists ==
  ASSUME NEW f, NEW s, IsFiniteSet(s)
  PROVE  \E g : Adds(f, s, g)
  <1>. DEFINE Next(g, t) == IF t = {} THEN 0 ELSE f[Chosen(t)] + g[t \ {Chosen(t)}]
              Upto(n, g) ==
                /\ g = [t \in SUBSET s |-> g[t]]
                /\ \A t \in SUBSET s : Cardinality(t) <= n => g[t] = Next(g, t)
              Bad == {n \in Nat : ~ \E g : Upto(n, g)}
  <1>1. \A t \in SUBSET s : Cardinality(t) \in Nat /\ (Cardinality(t) <= 0 => t = {})
    BY FS_Subset, FS_CardinalityType, FS_EmptySet
  <1>2. Upto(0, [t \in SUBSET s |-> 0])
    BY <1>1
  <1>3. ASSUME NEW n \in Nat, NEW g, Upto(n, g)
        PROVE  Upto(n + 1, [t \in SUBSET s |-> Next(g, t)])
    <2>. DEFINE h == [t \in SUBSET s |-> Next(g, t)]
    <2>1. SUFFICES ASSUME NEW t \in SUBSET s, Cardinality(t) <= n + 1
                   PROVE  h[t] = Next(h, t)
      OBVIOUS
    <2>2. CASE t = {}
      BY <2>2
    <2>3. CASE t # {}
      <3>. DEFINE r == t \ {Chosen(t)}
      <3>1. r \in SUBSET s /\ Cardinality(r) <= n
        BY <2>1, <2>3, OneFewer
      <3>2. g[r] = Next(g, r)
        BY <3>1, <1>3
      <3>3. h[r] = g[r]
        BY <3>1, <3>2
      <3>. QED  BY <2>3, <3>3
    <2>. QED  BY <2>2, <2>3
  <1>4. Bad = {}
    <2>1. SUFFICES ASSUME Bad # {} PROVE FALSE
      OBVIOUS
    <2>2. PICK n \in Nat : n \in Bad /\ \A m \in Bad : n <= m
      <3>. HIDE DEF Bad
      <3>1. Bad \in SUBSET Nat
        BY DEF Bad
      <3>. QED  BY <2>1, <3>1, LeastNatural
    <2>3. ~ \E g : Upto(n, g)
      BY <2>2
    <2>. HIDE DEF Upto
    <2>4. n # 0
      BY <1>2, <2>3
    <2>5. n - 1 \in Nat /\ n - 1 + 1 = n /\ n - 1 \notin Bad
      <3>. HIDE DEF Bad
      <3>. QED  BY <2>2, <2>4
    <2>6. PICK g : Upto(n - 1, g)
      BY <2>5
    <2>7. Upto(n - 1 + 1, [t \in SUBSET s |-> Next(g, t)])
      <3>. HIDE DEF Next
      <3>. QED  BY <2>5, <2>6, <1>3
    <2>. QED  BY <2>3, <2>5, <2>7
  <1>5. Cardinality(s) \in Nat
    BY <1>1
  <1>6. PICK g : Upto(Cardinality(s), g)
    BY <1>4, <1>5
  <1>7. \A t \in SUBSET s : g[t] = Next(g, t)
    BY <1>6, <1>1, <1>5, FS_Subset
  <1>8. Adds(f, s, g)
    BY <1>6, <1>7 DEF Adds
  <1>. QED  BY <1>8

(* And no other on a smaller set.                                          *)
LEMMA SolutionUnique ==
  ASSUME NEW f, NEW s, IsFiniteSet(s), NEW r \in SUBSET s,
         NEW g, Adds(f, s, g), NEW h, Adds(f, r, h)
  PROVE  \A t \in SUBSET r : h[t] = g[t]
  <1>. DEFINE Sizes == {n \in Nat : \E t \in SUBSET r : Cardinality(t) = n /\ h[t] # g[t]}
  <1>1. \A t \in SUBSET r : t \in SUBSET s /\ Cardinality(t) \in Nat
    BY FS_Subset, FS_CardinalityType
  <1>2. SUFFICES ASSUME Sizes # {} PROVE FALSE
    BY <1>1
  <1>3. PICK n \in Sizes : \A m \in Sizes : n <= m
    <2>. HIDE DEF Sizes
    <2>1. Sizes \in SUBSET Nat
      BY DEF Sizes
    <2>. QED  BY <1>2, <2>1, LeastNatural
  <1>4. PICK t \in SUBSET r : Cardinality(t) = n /\ h[t] # g[t]
    OBVIOUS
  <1>5. h[t] = (IF t = {} THEN 0 ELSE f[Chosen(t)] + h[t \ {Chosen(t)}])
    BY DEF Adds
  <1>6. g[t] = (IF t = {} THEN 0 ELSE f[Chosen(t)] + g[t \ {Chosen(t)}])
    BY <1>1 DEF Adds
  <1>7. t # {}
    BY <1>4, <1>5, <1>6
  <1>. DEFINE u == t \ {Chosen(t)}
  <1>8. u \in SUBSET r /\ Cardinality(u) = n - 1 /\ n - 1 \in Nat
    <2>1. IsFiniteSet(r)
      BY FS_Subset
    <2>2. /\ u \in SUBSET r /\ Cardinality(t) \in Nat /\ Cardinality(t) # 0
          /\ Cardinality(u) = Cardinality(t) - 1
      BY <2>1, <1>7, OneFewer
    <2>. QED  BY <2>2, <1>4
  <1>9. n - 1 \notin Sizes
    BY <1>3, <1>8
  <1>10. h[u] = g[u]
    BY <1>8, <1>9
  <1>. QED  BY <1>4, <1>5, <1>6, <1>7, <1>10

(* So all sums of a function over the subsets of a set are one solution.   *)
LEMMA SumSolves ==
  ASSUME NEW f, NEW s, IsFiniteSet(s)
  PROVE  \E g : Adds(f, s, g) /\ \A t \in SUBSET s : SumFunctionOnSet(f, t) = g[t]
  <1>1. PICK g : Adds(f, s, g)
    BY SolutionExists
  <1>2. ASSUME NEW t \in SUBSET s
        PROVE  SumFunctionOnSet(f, t) = g[t]
    <2>. DEFINE h == CHOOSE h : Adds(f, t, h)
    <2>1. IsFiniteSet(t)
      BY FS_Subset
    <2>2. Adds(f, t, h)
      BY <2>1, SolutionExists
    <2>. HIDE DEF h
    <2>3. h[t] = g[t]
      BY <1>1, <2>2, SolutionUnique
    <2>. QED  BY <2>3, SumIsSolution DEF h
  <1>. QED  BY <1>1, <1>2

(* The sum over nothing.                                                   *)
LEMMA SumEmpty ==
  ASSUME NEW f
  PROVE  SumFunctionOnSet(f, {}) = 0
  <1>1. PICK g : Adds(f, {}, g) /\ \A t \in SUBSET {} : SumFunctionOnSet(f, t) = g[t]
    BY SumSolves, FS_EmptySet
  <1>. QED  BY <1>1 DEF Adds

(* The sum over a set, its chosen element apart.                           *)
LEMMA SumChosen ==
  ASSUME NEW f, NEW s, IsFiniteSet(s), s # {}
  PROVE  SumFunctionOnSet(f, s) = f[Chosen(s)] + SumFunctionOnSet(f, s \ {Chosen(s)})
  <1>1. PICK g : Adds(f, s, g) /\ \A t \in SUBSET s : SumFunctionOnSet(f, t) = g[t]
    BY SumSolves
  <1>2. s \in SUBSET s /\ s \ {Chosen(s)} \in SUBSET s
    OBVIOUS
  <1>3. g[s] = f[Chosen(s)] + g[s \ {Chosen(s)}]
    BY <1>1, <1>2 DEF Adds
  <1>. QED  BY <1>1, <1>2, <1>3

(* A sum of naturals is a natural.                                         *)
LEMMA SumNat ==
  ASSUME NEW f, NEW s, IsFiniteSet(s), \A x \in s : f[x] \in Nat
  PROVE  SumFunctionOnSet(f, s) \in Nat
  <1>. DEFINE Sizes == {n \in Nat : \E t \in SUBSET s :
                          Cardinality(t) = n /\ SumFunctionOnSet(f, t) \notin Nat}
  <1>1. \A t \in SUBSET s : IsFiniteSet(t) /\ Cardinality(t) \in Nat
    BY FS_Subset, FS_CardinalityType
  <1>2. SUFFICES ASSUME Sizes # {} PROVE FALSE
    BY <1>1
  <1>3. PICK n \in Nat : n \in Sizes /\ \A m \in Sizes : n <= m
    <2>. HIDE DEF Sizes
    <2>1. Sizes \in SUBSET Nat
      BY DEF Sizes
    <2>. QED  BY <1>2, <2>1, LeastNatural
  <1>4. PICK t \in SUBSET s : Cardinality(t) = n /\ SumFunctionOnSet(f, t) \notin Nat
    BY <1>3
  <1>5. t # {}
    BY <1>4, SumEmpty
  <1>. DEFINE u == t \ {Chosen(t)}
  <1>6. /\ Chosen(t) \in t /\ u \in SUBSET s
        /\ n - 1 \in Nat /\ Cardinality(u) = n - 1
    BY <1>4, <1>5, OneFewer
  <1>7. n - 1 \notin Sizes
    <2>. HIDE DEF Sizes
    <2>. QED  BY <1>3
  <1>8. SumFunctionOnSet(f, u) \in Nat
    BY <1>6, <1>7
  <1>9. SumFunctionOnSet(f, t) = f[Chosen(t)] + SumFunctionOnSet(f, u)
    BY <1>1, <1>5, SumChosen
  <1>10. f[Chosen(t)] \in Nat
    BY <1>6
  <1>. QED  BY <1>4, <1>8, <1>9, <1>10

(* Two functions that agree on a set have the same sum over it.            *)
LEMMA SumSame ==
  ASSUME NEW f, NEW g, NEW s, IsFiniteSet(s), \A x \in s : f[x] = g[x]
  PROVE  SumFunctionOnSet(f, s) = SumFunctionOnSet(g, s)
  <1>. DEFINE Differ(t) == SumFunctionOnSet(f, t) # SumFunctionOnSet(g, t)
              Sizes == {n \in Nat : \E t \in SUBSET s : Cardinality(t) = n /\ Differ(t)}
  <1>1. \A t \in SUBSET s : IsFiniteSet(t) /\ Cardinality(t) \in Nat
    BY FS_Subset, FS_CardinalityType
  <1>2. SUFFICES ASSUME Sizes # {} PROVE FALSE
    BY <1>1
  <1>3. PICK n \in Nat : n \in Sizes /\ \A m \in Sizes : n <= m
    <2>. HIDE DEF Sizes
    <2>1. Sizes \in SUBSET Nat
      BY DEF Sizes
    <2>. QED  BY <1>2, <2>1, LeastNatural
  <1>4. PICK t \in SUBSET s : Cardinality(t) = n /\ Differ(t)
    BY <1>3
  <1>5. t # {}
    BY <1>4, SumEmpty
  <1>. DEFINE u == t \ {Chosen(t)}
  <1>6. /\ Chosen(t) \in t /\ u \in SUBSET s
        /\ n - 1 \in Nat /\ Cardinality(u) = n - 1
    BY <1>4, <1>5, OneFewer
  <1>7. n - 1 \notin Sizes
    <2>. HIDE DEF Sizes
    <2>. QED  BY <1>3
  <1>8. ~ Differ(u)
    BY <1>6, <1>7
  <1>9. /\ SumFunctionOnSet(f, t) = f[Chosen(t)] + SumFunctionOnSet(f, u)
        /\ SumFunctionOnSet(g, t) = g[Chosen(t)] + SumFunctionOnSet(g, u)
    BY <1>1, <1>5, SumChosen
  <1>10. f[Chosen(t)] = g[Chosen(t)]
    BY <1>6
  <1>. QED  BY <1>4, <1>8, <1>9, <1>10

(* The places of a list are finitely many.                                 *)
LEMMA CountUpTo ==
  ASSUME NEW n \in Nat
  PROVE  IsFiniteSet(1..n) /\ Cardinality(1..n) = n
  <1>1. /\ IsFiniteSet(1..n)
        /\ Cardinality(1..n) = IF 1 > n THEN 0 ELSE n - 1 + 1
    BY FS_Interval
  <1>. QED  BY <1>1

(* Any element can be taken out of a sum.                                  *)
LEMMA SumApart ==
  ASSUME NEW f, NEW s, IsFiniteSet(s), \A x \in s : f[x] \in Nat, NEW x \in s
  PROVE  SumFunctionOnSet(f, s) = f[x] + SumFunctionOnSet(f, s \ {x})
  <1>. DEFINE Wrong(t) ==
                \E y \in t : SumFunctionOnSet(f, t) # f[y] + SumFunctionOnSet(f, t \ {y})
              Sizes == {n \in Nat : \E t \in SUBSET s : Cardinality(t) = n /\ Wrong(t)}
  <1>1. \A t \in SUBSET s : IsFiniteSet(t) /\ Cardinality(t) \in Nat
    BY FS_Subset, FS_CardinalityType
  <1>2. SUFFICES ASSUME Sizes # {} PROVE FALSE
    BY <1>1
  <1>3. PICK n \in Nat : n \in Sizes /\ \A m \in Sizes : n <= m
    <2>. HIDE DEF Sizes
    <2>1. Sizes \in SUBSET Nat
      BY DEF Sizes
    <2>. QED  BY <1>2, <2>1, LeastNatural
  <1>4. PICK t \in SUBSET s : Cardinality(t) = n /\ Wrong(t)
    BY <1>3
  <1>5. PICK y \in t : SumFunctionOnSet(f, t) # f[y] + SumFunctionOnSet(f, t \ {y})
    BY <1>4
  <1>. DEFINE c == Chosen(t)
              u == t \ {c}
              v == t \ {y}
              w == u \ {y}
  <1>6. /\ c \in t /\ u \in SUBSET s
        /\ n - 1 \in Nat /\ Cardinality(u) = n - 1
    BY <1>4, <1>5, OneFewer
  <1>7. n - 1 \notin Sizes
    <2>. HIDE DEF Sizes
    <2>. QED  BY <1>3
  <1>8. SumFunctionOnSet(f, t) = f[c] + SumFunctionOnSet(f, u)
    BY <1>1, <1>5, SumChosen
  <1>9. y # c
    BY <1>5, <1>8
  <1>10. SumFunctionOnSet(f, u) = f[y] + SumFunctionOnSet(f, w)
    BY <1>6, <1>7, <1>9
  <1>11. SumFunctionOnSet(f, v) = f[c] + SumFunctionOnSet(f, w)
    <2>1. Cardinality(v) = n - 1
      BY <1>1, <1>4, FS_RemoveElement
    <2>2. ~ Wrong(v)
      BY <1>6, <1>7, <2>1
    <2>3. c \in v /\ v \ {c} = w
      BY <1>6, <1>9
    <2>. HIDE DEF v
    <2>. QED  BY <2>2, <2>3
  <1>12. f[y] \in Nat /\ f[c] \in Nat /\ SumFunctionOnSet(f, w) \in Nat
    BY <1>1, <1>6, SumNat
  <1>. QED  BY <1>5, <1>8, <1>10, <1>11, <1>12

(* Where a sum is nothing, so is each of its terms.                        *)
LEMMA SumOfNothing ==
  ASSUME NEW f, NEW s, IsFiniteSet(s), \A x \in s : f[x] \in Nat,
         SumFunctionOnSet(f, s) = 0
  PROVE  \A x \in s : f[x] = 0
  <1>. TAKE x \in s
  <1>1. SumFunctionOnSet(f, s) = f[x] + SumFunctionOnSet(f, s \ {x})
    BY SumApart
  <1>2. IsFiniteSet(s \ {x}) /\ \A y \in s \ {x} : f[y] \in Nat
    BY FS_RemoveElement
  <1>3. SumFunctionOnSet(f, s \ {x}) \in Nat
    BY <1>2, SumNat
  <1>4. f[x] \in Nat
    OBVIOUS
  <1>. QED  BY <1>1, <1>3, <1>4

(* And a new element can be put in.                                        *)
LEMMA SumAdd ==
  ASSUME NEW f, NEW s, IsFiniteSet(s), NEW x, x \notin s,
         \A y \in s \cup {x} : f[y] \in Nat
  PROVE  SumFunctionOnSet(f, s \cup {x}) = f[x] + SumFunctionOnSet(f, s)
  <1>1. IsFiniteSet(s \cup {x}) /\ (s \cup {x}) \ {x} = s
    BY FS_AddElement
  <1>. QED  BY <1>1, SumApart

(* Where one term changes, so does the sum.                                *)
LEMMA SumOneChanged ==
  ASSUME NEW f, NEW g, NEW s, IsFiniteSet(s), NEW x \in s,
         \A y \in s : f[y] \in Nat /\ g[y] \in Nat, \A y \in s \ {x} : f[y] = g[y]
  PROVE  SumFunctionOnSet(g, s) + f[x] = SumFunctionOnSet(f, s) + g[x]
  <1>1. IsFiniteSet(s \ {x})
    BY FS_RemoveElement
  <1>2. SumFunctionOnSet(f, s \ {x}) = SumFunctionOnSet(g, s \ {x})
    BY <1>1, SumSame
  <1>3. SumFunctionOnSet(f, s \ {x}) \in Nat
    BY <1>1, SumNat
  <1>4. /\ SumFunctionOnSet(f, s) = f[x] + SumFunctionOnSet(f, s \ {x})
        /\ SumFunctionOnSet(g, s) = g[x] + SumFunctionOnSet(g, s \ {x})
    BY SumApart
  <1>. QED  BY <1>2, <1>3, <1>4

(* Where a term is moved into another, the sum stays.                      *)
Moved(f, g, s, x, y) ==
  /\ x \in s /\ y \in s /\ x # y
  /\ \A z \in s : f[z] \in Nat /\ g[z] \in Nat
  /\ g[x] = f[x] + f[y] /\ g[y] = 0
  /\ \A z \in s \ {x, y} : f[z] = g[z]

LEMMA SumMoved ==
  ASSUME NEW f, NEW g, NEW s, IsFiniteSet(s), NEW x, NEW y, Moved(f, g, s, x, y)
  PROVE  SumFunctionOnSet(g, s) = SumFunctionOnSet(f, s)
  <1>. DEFINE mid == [z \in s |-> IF z = x THEN g[x] ELSE f[z]]
  <1>1. /\ x \in s /\ y \in s /\ x # y
        /\ \A z \in s : f[z] \in Nat /\ g[z] \in Nat
        /\ g[x] = f[x] + f[y] /\ g[y] = 0
        /\ \A z \in s \ {x, y} : f[z] = g[z]
    BY DEF Moved
  <1>2. /\ \A z \in s : f[z] \in Nat /\ mid[z] \in Nat
        /\ \A z \in s \ {x} : f[z] = mid[z]
        /\ mid[x] = f[x] + f[y]
    BY <1>1
  <1>3. /\ \A z \in s : mid[z] \in Nat /\ g[z] \in Nat
        /\ \A z \in s \ {y} : mid[z] = g[z]
        /\ mid[y] = f[y]
    BY <1>1
  <1>. HIDE DEF mid
  <1>4. SumFunctionOnSet(mid, s) + f[x] = SumFunctionOnSet(f, s) + mid[x]
    BY <1>1, <1>2, SumOneChanged
  <1>5. SumFunctionOnSet(g, s) + mid[y] = SumFunctionOnSet(mid, s) + g[y]
    BY <1>1, <1>3, SumOneChanged
  <1>6. /\ SumFunctionOnSet(f, s) \in Nat /\ SumFunctionOnSet(mid, s) \in Nat
        /\ SumFunctionOnSet(g, s) \in Nat /\ f[x] \in Nat /\ f[y] \in Nat
    BY <1>1, <1>2, SumNat
  <1>7. mid[x] = f[x] + f[y] /\ mid[y] = f[y] /\ g[y] = 0
    BY <1>1, <1>2, <1>3
  <1>8. SumFunctionOnSet(mid, s) = SumFunctionOnSet(f, s) + f[y]
    BY <1>4, <1>6, <1>7
  <1>9. SumFunctionOnSet(g, s) + f[y] = SumFunctionOnSet(mid, s)
    BY <1>5, <1>6, <1>7
  <1>. QED  BY <1>6, <1>8, <1>9

(* What holds of the empty set, and stays when an element is added, holds  *)
(* of a finite set.                                                        *)
LEMMA SubsetInduction ==
  ASSUME NEW s, IsFiniteSet(s), NEW T, {} \in T,
         \A t \in SUBSET s : t \in T => \A x \in s \ t : t \cup {x} \in T
  PROVE  s \in T
  <1>. DEFINE Sizes == {n \in Nat : \E t \in SUBSET s : Cardinality(t) = n /\ t \notin T}
  <1>1. \A t \in SUBSET s : IsFiniteSet(t) /\ Cardinality(t) \in Nat
    BY FS_Subset, FS_CardinalityType
  <1>2. SUFFICES ASSUME Sizes # {} PROVE FALSE
    BY <1>1
  <1>3. PICK n \in Nat : n \in Sizes /\ \A m \in Sizes : n <= m
    <2>. HIDE DEF Sizes
    <2>1. Sizes \in SUBSET Nat
      BY DEF Sizes
    <2>. QED  BY <1>2, <2>1, LeastNatural
  <1>4. PICK t \in SUBSET s : Cardinality(t) = n /\ t \notin T
    BY <1>3
  <1>5. PICK x \in t : TRUE
    BY <1>4
  <1>6. Cardinality(t \ {x}) = n - 1 /\ n # 0
    BY <1>1, <1>4, <1>5, FS_RemoveElement, FS_EmptySet
  <1>7. n - 1 \in Nat /\ n - 1 \notin Sizes
    <2>. HIDE DEF Sizes
    <2>. QED  BY <1>3, <1>6
  <1>8. t \ {x} \in T
    BY <1>6, <1>7
  <1>9. (t \ {x}) \cup {x} = t
    BY <1>5
  <1>. QED  BY <1>4, <1>5, <1>8, <1>9

(* A sum is that of a part and of the rest.                                *)
LEMMA SumParts ==
  ASSUME NEW f, NEW s, IsFiniteSet(s), \A x \in s : f[x] \in Nat, NEW r \in SUBSET s
  PROVE  SumFunctionOnSet(f, s) = SumFunctionOnSet(f, r) + SumFunctionOnSet(f, s \ r)
  <1>. DEFINE Total(t) == SumFunctionOnSet(f, t)
              T == {t \in SUBSET s : Total(s) = Total(t) + Total(s \ t)}
  <1>1. \A t \in SUBSET s : IsFiniteSet(t) /\ Total(t) \in Nat
    BY FS_Subset, SumNat
  <1>2. {} \in T
    BY <1>1, SumEmpty
  <1>3. ASSUME NEW t \in SUBSET s, t \in T, NEW x \in s \ t
        PROVE  t \cup {x} \in T
    <2>1. Total(t \cup {x}) = f[x] + Total(t)
      BY <1>1, SumAdd
    <2>2. s \ (t \cup {x}) = (s \ t) \ {x} /\ IsFiniteSet(s \ t)
      BY <1>1
    <2>3. Total(s \ t) = f[x] + Total(s \ (t \cup {x}))
      BY <2>2, SumApart
    <2>4. /\ Total(t) \in Nat /\ f[x] \in Nat /\ Total(s \ (t \cup {x})) \in Nat
          /\ Total(s) = Total(t) + Total(s \ t)
      BY <1>1, <1>3
    <2>. HIDE DEF Total
    <2>. QED  BY <2>1, <2>3, <2>4
  <1>4. IsFiniteSet(r)
    BY <1>1
  <1>. HIDE DEF T
  <1>5. \A t \in SUBSET r : t \in T => \A x \in r \ t : t \cup {x} \in T
    BY <1>3
  <1>6. r \in T
    BY <1>2, <1>4, <1>5, SubsetInduction
  <1>. QED  BY <1>6 DEF T

LEMMA SumSubset ==
  ASSUME NEW f, NEW s, IsFiniteSet(s), \A x \in s : f[x] \in Nat, NEW r \in SUBSET s
  PROVE  SumFunctionOnSet(f, r) <= SumFunctionOnSet(f, s)
  <1>1. IsFiniteSet(r) /\ IsFiniteSet(s \ r)
    BY FS_Subset
  <1>2. SumFunctionOnSet(f, r) \in Nat /\ SumFunctionOnSet(f, s \ r) \in Nat
    BY <1>1, SumNat
  <1>. QED  BY <1>2, SumParts

-----------------------------------------------------------------------------

(* Induction over the naturals, of the elements of a set.                  *)
LEMMA NatInSet ==
  ASSUME NEW T, 0 \in T, \A n \in Nat : n \in T => n + 1 \in T
  PROVE  \A n \in Nat : n \in T
  <1>. DEFINE Bad == {n \in Nat : n \notin T}
  <1>1. SUFFICES ASSUME Bad # {} PROVE FALSE
    OBVIOUS
  <1>2. PICK n \in Nat : n \in Bad /\ \A m \in Bad : n <= m
    <2>. HIDE DEF Bad
    <2>1. Bad \in SUBSET Nat
      BY DEF Bad
    <2>. QED  BY <1>1, <2>1, LeastNatural
  <1>3. n # 0
    BY <1>2
  <1>4. n - 1 \in Nat /\ n - 1 + 1 = n /\ n - 1 \notin Bad
    <2>. HIDE DEF Bad
    <2>. QED  BY <1>2, <1>3
  <1>. QED  BY <1>2, <1>4

(* The last one of the first n positions.                                  *)
LEMMA MaxOfInterval ==
  ASSUME NEW n \in Nat, n # 0
  PROVE  Max(1..n) = n /\ (1..n) \ {n} = 1..(n - 1)
  <1>1. \A x \in 1..n : (\A y \in 1..n : x >= y) => x = n
    BY n \in 1..n
  <1>2. n \in 1..n /\ \A y \in 1..n : n >= y
    OBVIOUS
  <1>. QED  BY <1>1, <1>2 DEF Max

(* A fold over the positions of a list from first to last has a value, in  *)
(* the set that its steps lead to.                                         *)
StepsIn(step, n, V) == step \in [(1..n) \X V -> V]
IsFold(r, n, base, step) ==
  \A t \in SUBSET (1..n) :
    r[t] = IF t = {} THEN base ELSE step[<<Max(t), r[t \ {Max(t)}]>>]

LEMMA FoldSolutionExists ==
  ASSUME NEW n \in Nat, NEW V, NEW base \in V, NEW step, StepsIn(step, n, V)
  PROVE  \E r \in [SUBSET (1..n) -> V] : IsFold(r, n, base, step)
  <1>. DEFINE s == 1..n
              Next(g, t) == IF t = {} THEN base ELSE step[<<Max(t), g[t \ {Max(t)}]>>]
              Upto(k, g) == /\ g \in [SUBSET s -> V]
                            /\ \A t \in SUBSET s : Cardinality(t) <= k => g[t] = Next(g, t)
              T == {k \in Nat : \E g : Upto(k, g)}
  <1>0. step \in [(1..n) \X V -> V]
    BY DEF StepsIn
  <1>1. IsFiniteSet(s)
    BY CountUpTo
  <1>2. \A t \in SUBSET s : /\ Cardinality(t) \in Nat
                            /\ Cardinality(t) <= 0 => t = {}
                            /\ Cardinality(t) <= Cardinality(s)
    <2>. TAKE t \in SUBSET s
    <2>1. IsFiniteSet(t) /\ Cardinality(t) <= Cardinality(s)
      BY <1>1, FS_Subset
    <2>2. Cardinality(t) \in Nat /\ (Cardinality(t) = 0 => t = {})
      BY <2>1, FS_CardinalityType, FS_EmptySet
    <2>. QED  BY <2>1, <2>2
  <1>3. ASSUME NEW t \in SUBSET s, t # {}
        PROVE  /\ Max(t) \in t /\ t \ {Max(t)} \in SUBSET s
               /\ Cardinality(t \ {Max(t)}) = Cardinality(t) - 1
    <2>1. Max(t) \in t
      BY <1>3, LastIndex
    <2>2. IsFiniteSet(t)
      BY <1>1, FS_Subset
    <2>. QED  BY <2>1, <2>2, FS_RemoveElement
  <1>4. \A g \in [SUBSET s -> V] : [t \in SUBSET s |-> Next(g, t)] \in [SUBSET s -> V]
    <2>. SUFFICES ASSUME NEW g \in [SUBSET s -> V], NEW t \in SUBSET s
                  PROVE  Next(g, t) \in V
      OBVIOUS
    <2>1. CASE t = {}
      BY <2>1
    <2>2. CASE t # {}
      <3>1. Max(t) \in s /\ t \ {Max(t)} \in SUBSET s
        BY <1>3, <2>2
      <3>2. <<Max(t), g[t \ {Max(t)}]>> \in s \X V
        BY <3>1
      <3>. QED  BY <1>0, <2>2, <3>2
    <2>. QED  BY <2>1, <2>2
  <1>5. 0 \in T
    <2>1. Upto(0, [t \in SUBSET s |-> base])
      BY <1>2
    <2>. QED  BY <2>1
  <1>6. ASSUME NEW k \in Nat, k \in T
        PROVE  k + 1 \in T
    <2>1. PICK g : Upto(k, g)
      BY <1>6
    <2>. DEFINE h == [t \in SUBSET s |-> Next(g, t)]
    <2>2. h \in [SUBSET s -> V]
      BY <1>4, <2>1
    <2>3. ASSUME NEW t \in SUBSET s, Cardinality(t) <= k + 1
          PROVE  h[t] = Next(h, t)
      <3>1. CASE t = {}
        BY <3>1
      <3>2. CASE t # {}
        <4>. DEFINE u == t \ {Max(t)}
        <4>1. u \in SUBSET s /\ Cardinality(u) <= k
          BY <1>2, <1>3, <2>3, <3>2
        <4>2. h[u] = g[u]
          BY <2>1, <4>1
        <4>. QED  BY <3>2, <4>2
      <3>. QED  BY <3>1, <3>2
    <2>. HIDE DEF h, Next
    <2>4. Upto(k + 1, h)
      BY <2>2, <2>3
    <2>5. k + 1 \in Nat
      OBVIOUS
    <2>. HIDE DEF Upto
    <2>. QED  BY <2>4, <2>5
  <1>7. Cardinality(s) \in Nat
    BY <1>2
  <1>8. Cardinality(s) \in T
    <2>. HIDE DEF T
    <2>. QED  BY <1>5, <1>6, <1>7, NatInSet
  <1>9. PICK g : Upto(Cardinality(s), g)
    BY <1>8
  <1>10. \A t \in SUBSET s : g[t] = Next(g, t)
    BY <1>2, <1>9
  <1>. QED  BY <1>9, <1>10 DEF IsFold

(* The keys a list is sorted by: K has the pairs <<b, a>> for which        *)
(* EXP(b, a) holds, a strict order except for ties.                        *)
IsKey(K, S) ==
  /\ \A x, y \in S : <<x, y>> \in K => <<y, x>> \notin K
  /\ \A x, y, z \in S : <<x, y>> \notin K /\ <<y, z>> \notin K => <<x, z>> \notin K

InOrder(u, K) == \A i, j \in 1..Len(u) : i < j => <<u[i], u[j]>> \notin K

(* The place where insert(A, B, EXP, K) stops.                             *)
StopsAt(q, a, B, K) ==
  /\ q \in 1..(Len(B) + 1)
  /\ q = Len(B) + 1 \/ <<B[q], a>> \in K
  /\ \A p \in 1..(q - 1) : <<B[p], a>> \notin K

(* The permutations of the positions of a list.                            *)
Perm(n) ==
  {p \in [1..n -> 1..n] : /\ \A i, j \in 1..n : p[i] = p[j] => i = j
                          /\ \A k \in 1..n : \E i \in 1..n : p[i] = k}

(* u has the first n elements of B, in another order.                      *)
Reordered(u, B, n) ==
  Len(u) = n /\ \E p \in Perm(n) : \A i \in 1..n : u[i] = B[p[i]]

(* There is such a place.                                                 *)
LEMMA PlaceExists ==
  ASSUME NEW S, NEW B \in Seq(S), NEW a, NEW K
  PROVE  \E q \in 1..(Len(B) + 1) : StopsAt(q, a, B, K)
  <1>. DEFINE n == Len(B) + 1
              T == {q \in 1..n : q = n \/ <<B[q], a>> \in K}
  <1>1. n \in Nat /\ n \in T /\ T \in SUBSET Nat
    OBVIOUS
  <1>2. \E x \in T : \A y \in T : x <= y
    <2>. HIDE DEF T
    <2>. QED  BY <1>1, LeastNatural
  <1>3. PICK q \in T : \A y \in T : q <= y
    BY <1>2
  <1>4. \A p \in 1..(q - 1) : p \in 1..n /\ p # n /\ ~ (q <= p)
    BY <1>1
  <1>5. \A p \in 1..(q - 1) : <<B[p], a>> \notin K
    BY <1>3, <1>4
  <1>. QED  BY <1>5 DEF StopsAt

(* A list in order stays so.                                              *)
LEMMA InsertInOrder ==
  ASSUME NEW S, NEW K, IsKey(K, S), NEW u \in Seq(S), NEW a \in S,
         InOrder(u, K), NEW q, StopsAt(q, a, u, K)
  PROVE  InOrder(InsertAt(u, q, a), K)
  <1>. DEFINE t == InsertAt(u, q, a)
  <1>1. /\ Len(t) = Len(u) + 1 /\ Len(u) \in Nat /\ q \in 1..(Len(u) + 1)
        /\ \A i \in 1..(Len(u) + 1) :
             t[i] = IF i < q THEN u[i] ELSE IF i = q THEN a ELSE u[i - 1]
    <2>1. q \in 1..(Len(u) + 1)
      BY DEF StopsAt
    <2>. QED  BY <2>1, InsertAtProperties
  <1>2. \A i \in 1..Len(u) : u[i] \in S
    OBVIOUS
  <1>3. \A i \in 1..(q - 1) : <<u[i], a>> \notin K
    BY DEF StopsAt
  <1>4. \A i \in 1..Len(u) : q <= i => <<a, u[i]>> \notin K
    <2>. SUFFICES ASSUME NEW i \in 1..Len(u), q <= i
                  PROVE  <<a, u[i]>> \notin K
      OBVIOUS
    <2>1. q \in 1..Len(u) /\ <<u[q], a>> \in K
      BY <1>1 DEF StopsAt
    <2>2. <<a, u[q]>> \notin K
      BY <1>2, <2>1 DEF IsKey
    <2>3. q = i \/ <<u[q], u[i]>> \notin K
      BY <1>1, <2>1 DEF InOrder
    <2>. QED  BY <1>2, <2>1, <2>2, <2>3 DEF IsKey
  <1>. HIDE DEF t
  <1>5. SUFFICES ASSUME NEW i \in 1..(Len(u) + 1), NEW j \in 1..(Len(u) + 1), i < j
                 PROVE  <<t[i], t[j]>> \notin K
    BY <1>1 DEF InOrder, t
  <1>6. i \in Int /\ j \in Int /\ q \in Int
    BY <1>1
  <1>7. CASE j < q
    <2>1. i \in 1..Len(u) /\ j \in 1..Len(u) /\ t[i] = u[i] /\ t[j] = u[j]
      BY <1>1, <1>5, <1>6, <1>7
    <2>. QED  BY <1>5, <2>1 DEF InOrder
  <1>8. CASE j = q
    BY <1>1, <1>3, <1>5, <1>6, <1>8
  <1>9. CASE j > q /\ i < q
    <2>1. i \in 1..Len(u) /\ j - 1 \in 1..Len(u) /\ t[i] = u[i] /\ t[j] = u[j - 1]
      BY <1>1, <1>5, <1>6, <1>9
    <2>2. i < j - 1
      BY <1>6, <1>9
    <2>. QED  BY <2>1, <2>2 DEF InOrder
  <1>10. CASE i = q
    <2>1. t[i] = a /\ j - 1 \in 1..Len(u) /\ q <= j - 1 /\ t[j] = u[j - 1]
      BY <1>1, <1>5, <1>6, <1>10
    <2>. QED  BY <1>4, <2>1
  <1>11. CASE i > q
    <2>1. /\ i - 1 \in 1..Len(u) /\ j - 1 \in 1..Len(u)
          /\ t[i] = u[i - 1] /\ t[j] = u[j - 1] /\ i - 1 < j - 1
      BY <1>1, <1>5, <1>6, <1>11
    <2>. QED  BY <2>1 DEF InOrder
  <1>. QED  BY <1>6, <1>7, <1>8, <1>9, <1>10, <1>11

(* The new element comes after the first n.                               *)
LEMMA InsertReordered ==
  ASSUME NEW S, NEW u \in Seq(S), NEW B, NEW n \in Nat, Reordered(u, B, n),
         B[n + 1] \in S, NEW q \in 1..(n + 1)
  PROVE  Reordered(InsertAt(u, q, B[n + 1]), B, n + 1)
  <1>1. PICK p \in Perm(n) : \A i \in 1..n : u[i] = B[p[i]]
    BY DEF Reordered
  <1>. DEFINE t == InsertAt(u, q, B[n + 1])
              r == [i \in 1..(n + 1) |->
                      IF i < q THEN p[i] ELSE IF i = q THEN n + 1 ELSE p[i - 1]]
  <1>2. /\ Len(u) = n /\ Len(t) = n + 1
        /\ \A i \in 1..(n + 1) :
             t[i] = IF i < q THEN u[i] ELSE IF i = q THEN B[n + 1] ELSE u[i - 1]
    <2>1. Len(u) = n
      BY DEF Reordered
    <2>2. q \in 1..(Len(u) + 1)
      BY <2>1
    <2>3. /\ Len(t) = Len(u) + 1
          /\ \A i \in 1..(Len(u) + 1) :
               t[i] = IF i < q THEN u[i] ELSE IF i = q THEN B[n + 1] ELSE u[i - 1]
      BY <2>2, InsertAtProperties
    <2>. HIDE DEF t
    <2>. QED  BY <2>1, <2>3
  <1>3. /\ \A i \in 1..n : p[i] \in 1..n
        /\ \A i, j \in 1..n : p[i] = p[j] => i = j
        /\ \A k \in 1..n : \E i \in 1..n : p[i] = k
    BY DEF Perm
  <1>4. \A i \in 1..(n + 1) : /\ i < q => i \in 1..n
                              /\ i > q => i - 1 \in 1..n
    OBVIOUS
  <1>5. r \in [1..(n + 1) -> 1..(n + 1)]
    <2>. SUFFICES ASSUME NEW i \in 1..(n + 1)
                  PROVE  r[i] \in 1..(n + 1)
      OBVIOUS
    <2>1. \A k \in 1..n : k \in 1..(n + 1)
      OBVIOUS
    <2>2. CASE i < q
      BY <1>3, <1>4, <2>1, <2>2
    <2>3. CASE i = q
      BY <2>3
    <2>4. CASE i > q
      BY <1>3, <1>4, <2>1, <2>4
    <2>. QED  BY <2>2, <2>3, <2>4
  <1>6. \A i \in 1..(n + 1) : r[i] = IF i < q THEN p[i] ELSE IF i = q THEN n + 1 ELSE p[i - 1]
    OBVIOUS
  <1>. HIDE DEF r, t
  <1>7. \A i, j \in 1..(n + 1) : r[i] = r[j] => i = j
    <2>. SUFFICES ASSUME NEW i \in 1..(n + 1), NEW j \in 1..(n + 1), r[i] = r[j]
                  PROVE  i = j
      OBVIOUS
    <2>a. ASSUME NEW k \in 1..(n + 1), k # q
          PROVE  r[k] \in 1..n
      <3>1. CASE k < q
        BY <1>3, <1>4, <1>6, <3>1
      <3>2. CASE k > q
        BY <1>3, <1>4, <1>6, <3>2
      <3>. QED  BY <2>a, <3>1, <3>2
    <2>b. r[q] = n + 1 /\ n + 1 \notin 1..n
      BY <1>6
    <2>1. CASE i = q \/ j = q
      BY <2>a, <2>b, <2>1
    <2>2. CASE i < q /\ j < q
      BY <1>3, <1>4, <1>6, <2>2
    <2>3. CASE i < q /\ j > q
      BY <1>3, <1>4, <1>6, <2>3
    <2>4. CASE i > q /\ j < q
      BY <1>3, <1>4, <1>6, <2>4
    <2>5. CASE i > q /\ j > q
      <3>1. i - 1 = j - 1
        BY <1>3, <1>4, <1>6, <2>5
      <3>. QED  BY <3>1
    <2>. QED  BY <2>1, <2>2, <2>3, <2>4, <2>5
  <1>8. ASSUME NEW k \in 1..(n + 1)
        PROVE  \E i \in 1..(n + 1) : r[i] = k
    <2>1. CASE k = n + 1
      <3>1. r[q] = n + 1
        BY <1>6
      <3>. QED  BY <2>1, <3>1
    <2>2. CASE k # n + 1
      <3>1. PICK i \in 1..n : p[i] = k
        <4>1. k \in 1..n
          BY <2>2
        <4>. QED  BY <1>3, <4>1
      <3>2. CASE i < q
        BY <1>6, <3>1, <3>2
      <3>3. CASE i >= q
        <4>1. i + 1 \in 1..(n + 1) /\ i + 1 > q /\ i + 1 - 1 = i
          BY <3>3
        <4>2. r[i + 1] = p[i]
          BY <1>6, <4>1
        <4>. QED  BY <3>1, <4>1, <4>2
      <3>. QED  BY <3>2, <3>3
    <2>. QED  BY <2>1, <2>2
  <1>9. r \in Perm(n + 1)
    BY <1>5, <1>7, <1>8 DEF Perm
  <1>10. \A i \in 1..(n + 1) : t[i] = B[r[i]]
    BY <1>1, <1>2, <1>4, <1>6
  <1>. QED  BY <1>2, <1>9, <1>10 DEF Reordered, t

(* sort(A, B, EXP, K), as the recursion that its fold is: the result has   *)
(* the elements of the list, and in order.                                 *)
LEMMA SortProperties ==
  ASSUME NEW S, NEW K, IsKey(K, S), NEW B \in Seq(S),
         NEW r, r[{}] = <<>>,
         \A n \in 1..Len(B) : \E q :
           /\ StopsAt(q, B[n], r[1..(n - 1)], K)
           /\ r[1..n] = InsertAt(r[1..(n - 1)], q, B[n])
  PROVE  /\ r[1..Len(B)] \in Seq(S)
         /\ InOrder(r[1..Len(B)], K)
         /\ Reordered(r[1..Len(B)], B, Len(B))
  <1>. DEFINE Good(n) == /\ r[1..n] \in Seq(S)
                         /\ InOrder(r[1..n], K)
                         /\ Reordered(r[1..n], B, n)
              T == {n \in Nat : n <= Len(B) => Good(n)}
  <1>1. Len(B) \in Nat
    OBVIOUS
  <1>2. 0 \in T
    <2>1. 1..0 = {}
      OBVIOUS
    <2>2. <<>> \in Seq(S) /\ InOrder(<<>>, K)
      BY DEF InOrder
    <2>3. [i \in {} |-> 0] \in Perm(0)
      BY <2>1 DEF Perm
    <2>4. Reordered(<<>>, B, 0)
      BY <2>1, <2>3 DEF Reordered
    <2>. QED  BY <2>1, <2>2, <2>4
  <1>3. ASSUME NEW n \in Nat, n \in T
        PROVE  n + 1 \in T
    <2>. SUFFICES ASSUME n + 1 <= Len(B)
                  PROVE  Good(n + 1)
      OBVIOUS
    <2>1. n + 1 \in 1..Len(B) /\ n + 1 - 1 = n /\ B[n + 1] \in S
      BY <1>1
    <2>2. Good(n)
      BY <1>1, <1>3
    <2>3. PICK q : /\ StopsAt(q, B[n + 1], r[1..n], K)
                   /\ r[1..(n + 1)] = InsertAt(r[1..n], q, B[n + 1])
      BY <2>1
    <2>4. Len(r[1..n]) = n /\ q \in 1..(n + 1)
      BY <2>2, <2>3 DEF Reordered, StopsAt
    <2>5. r[1..(n + 1)] \in Seq(S)
      BY <2>1, <2>2, <2>3, <2>4, InsertAtProperties
    <2>6. InOrder(r[1..(n + 1)], K)
      BY <2>1, <2>2, <2>3, InsertInOrder
    <2>7. Reordered(r[1..(n + 1)], B, n + 1)
      BY <2>1, <2>2, <2>3, <2>4, InsertReordered
    <2>. QED  BY <2>5, <2>6, <2>7
  <1>4. Len(B) \in T
    <2>. HIDE DEF T
    <2>. QED  BY <1>1, <1>2, <1>3, NatInSet
  <1>. QED  BY <1>1, <1>4

-----------------------------------------------------------------------------

(* u has those of the first n elements of B that are in C, each once.      *)
Selects(u, B, n, C) ==
  \E p \in [1..Len(u) -> {k \in 1..n : B[k] \in C}] :
    /\ \A i, j \in 1..Len(u) : p[i] = p[j] => i = j
    /\ \A k \in 1..n : B[k] \in C => \E i \in 1..Len(u) : p[i] = k
    /\ \A i \in 1..Len(u) : u[i] = B[p[i]]

LEMMA AppendSelects ==
  ASSUME NEW S, NEW C, NEW B \in Seq(S), NEW n \in Nat, n + 1 <= Len(B),
         NEW u \in Seq(S), Selects(u, B, n, C)
  PROVE  LET v == IF B[n + 1] \in C THEN Append(u, B[n + 1]) ELSE u
         IN  v \in Seq(S) /\ Selects(v, B, n + 1, C)
  <1>1. B[n + 1] \in S /\ Len(u) \in Nat
    OBVIOUS
  <1>2. PICK p \in [1..Len(u) -> {k \in 1..n : B[k] \in C}] :
               /\ \A i, j \in 1..Len(u) : p[i] = p[j] => i = j
               /\ \A k \in 1..n : B[k] \in C => \E i \in 1..Len(u) : p[i] = k
               /\ \A i \in 1..Len(u) : u[i] = B[p[i]]
    BY DEF Selects
  <1>3. CASE B[n + 1] \notin C
    <2>1. {k \in 1..n : B[k] \in C} = {k \in 1..(n + 1) : B[k] \in C}
      BY <1>3
    <2>2. \A k \in 1..(n + 1) : B[k] \in C => k \in 1..n
      BY <1>3
    <2>3. Selects(u, B, n + 1, C)
      BY <1>2, <2>1, <2>2 DEF Selects
    <2>. QED  BY <1>3, <2>3
  <1>4. CASE B[n + 1] \in C
    <2>. DEFINE v == Append(u, B[n + 1])
                r == [i \in 1..(Len(u) + 1) |-> IF i = Len(u) + 1 THEN n + 1 ELSE p[i]]
    <2>1. /\ v \in Seq(S) /\ Len(v) = Len(u) + 1 /\ v[Len(u) + 1] = B[n + 1]
          /\ \A i \in 1..Len(u) : v[i] = u[i]
      BY <1>1
    <2>2. \A i \in 1..(Len(u) + 1) : i # Len(u) + 1 => i \in 1..Len(u)
      BY <1>1
    <2>3. \A i \in 1..Len(u) : p[i] \in 1..n /\ B[p[i]] \in C /\ p[i] # n + 1
      BY <1>2
    <2>4. r \in [1..Len(v) -> {k \in 1..(n + 1) : B[k] \in C}]
      BY <1>1, <1>4, <2>1, <2>2, <2>3
    <2>5. \A i, j \in 1..Len(v) : r[i] = r[j] => i = j
      BY <1>2, <2>1, <2>2, <2>3
    <2>6. ASSUME NEW k \in 1..(n + 1), B[k] \in C
          PROVE  \E i \in 1..Len(v) : r[i] = k
      <3>1. CASE k = n + 1
        <4>1. Len(u) + 1 \in 1..Len(v) /\ r[Len(u) + 1] = n + 1
          BY <1>1, <2>1
        <4>. QED  BY <3>1, <4>1
      <3>2. CASE k # n + 1
        <4>1. PICK i \in 1..Len(u) : p[i] = k
          BY <1>2, <2>6, <3>2
        <4>2. i \in 1..Len(v) /\ i # Len(u) + 1 /\ r[i] = k
          BY <1>1, <2>1, <4>1
        <4>. QED  BY <4>2
      <3>. QED  BY <3>1, <3>2
    <2>7. \A i \in 1..Len(v) : v[i] = B[r[i]]
      BY <1>2, <2>1, <2>2
    <2>. HIDE DEF v, r
    <2>8. Selects(v, B, n + 1, C)
      BY <2>4, <2>5, <2>6, <2>7 DEF Selects
    <2>. QED  BY <1>4, <2>1, <2>8 DEF v
  <1>. QED  BY <1>3, <1>4

(* for_selected(A, B, C), as the recursion that its fold is.               *)
Choosing(r, B, C) ==
  \A t \in SUBSET (1..Len(B)) :
    r[t] = IF t = {} THEN <<>>
           ELSE IF B[Max(t)] \in C THEN Append(r[t \ {Max(t)}], B[Max(t)])
           ELSE r[t \ {Max(t)}]

LEMMA ChoosingExists ==
  ASSUME NEW S, NEW C, NEW B \in Seq(S)
  PROVE  \E r \in [SUBSET (1..Len(B)) -> Seq(S)] : Choosing(r, B, C)
  <1>. DEFINE n == Len(B)
              step == [x \in (1..n) \X Seq(S) |->
                         IF B[x[1]] \in C THEN Append(x[2], B[x[1]]) ELSE x[2]]
  <1>1. n \in Nat /\ <<>> \in Seq(S)
    OBVIOUS
  <1>2. StepsIn(step, n, Seq(S))
    <2>1. ASSUME NEW x \in (1..n) \X Seq(S)
          PROVE  step[x] \in Seq(S)
      <3>1. B[x[1]] \in S /\ x[2] \in Seq(S)
        OBVIOUS
      <3>2. Append(x[2], B[x[1]]) \in Seq(S)
        BY <3>1
      <3>. QED  BY <3>1, <3>2
    <2>. QED  BY <2>1 DEF StepsIn
  <1>3. PICK r \in [SUBSET (1..n) -> Seq(S)] : IsFold(r, n, <<>>, step)
    <2>. HIDE DEF step, n
    <2>. QED  BY <1>1, <1>2, FoldSolutionExists
  <1>4. ASSUME NEW t \in SUBSET (1..n), t # {}
        PROVE  step[<<Max(t), r[t \ {Max(t)}]>>]
                 = IF B[Max(t)] \in C THEN Append(r[t \ {Max(t)}], B[Max(t)])
                   ELSE r[t \ {Max(t)}]
    <2>1. Max(t) \in 1..n
      BY <1>1, <1>4, LastIndex
    <2>2. r[t \ {Max(t)}] \in Seq(S)
      BY <1>3
    <2>. QED  BY <2>1, <2>2
  <1>5. Choosing(r, B, C)
    <2>. HIDE DEF step
    <2>. QED  BY <1>3, <1>4 DEF IsFold, Choosing
  <1>. QED  BY <1>3, <1>5

LEMMA SelectedProperties ==
  ASSUME NEW S, NEW C, NEW B \in Seq(S), NEW r, Choosing(r, B, C)
  PROVE  /\ r[1..Len(B)] \in Seq(S)
         /\ Selects(r[1..Len(B)], B, Len(B), C)
  <1>. DEFINE Good(n) == r[1..n] \in Seq(S) /\ Selects(r[1..n], B, n, C)
              T == {n \in Nat : n <= Len(B) => Good(n)}
  <1>1. Len(B) \in Nat
    OBVIOUS
  <1>2. 0 \in T
    <2>1. 1..0 = {} /\ <<>> \in Seq(S) /\ Len(<<>>) = 0
      OBVIOUS
    <2>2. [i \in {} |-> 0] \in [1..Len(<<>>) -> {k \in 1..0 : B[k] \in C}]
      BY <2>1
    <2>3. Selects(<<>>, B, 0, C)
      BY <2>1, <2>2 DEF Selects
    <2>4. r[{}] = <<>>
      BY DEF Choosing
    <2>. QED  BY <2>1, <2>3, <2>4
  <1>3. ASSUME NEW n \in Nat, n \in T
        PROVE  n + 1 \in T
    <2>. SUFFICES ASSUME n + 1 <= Len(B)
                  PROVE  Good(n + 1)
      OBVIOUS
    <2>1. 1..(n + 1) \in SUBSET (1..Len(B)) /\ n + 1 \in 1..(n + 1)
      BY <1>1
    <2>2. Good(n)
      BY <1>1, <1>3
    <2>3. Max(1..(n + 1)) = n + 1 /\ (1..(n + 1)) \ {n + 1} = 1..n
      <3>1. n + 1 \in Nat /\ n + 1 # 0 /\ n + 1 - 1 = n
        OBVIOUS
      <3>. QED  BY <3>1, MaxOfInterval
    <2>4. r[1..(n + 1)] = IF B[n + 1] \in C THEN Append(r[1..n], B[n + 1]) ELSE r[1..n]
      BY <2>1, <2>3 DEF Choosing
    <2>. QED  BY <2>2, <2>4, AppendSelects
  <1>4. Len(B) \in T
    <2>. HIDE DEF T
    <2>. QED  BY <1>1, <1>2, <1>3, NatInSet
  <1>. QED  BY <1>1, <1>4

-----------------------------------------------------------------------------

(* A sum does not depend on the order of its terms.                        *)
LEMMA SumRenamed ==
  ASSUME NEW s, IsFiniteSet(s), NEW t, NEW p \in [s -> t],
         \A x, y \in s : p[x] = p[y] => x = y,
         \A z \in t : \E x \in s : p[x] = z,
         NEW f, NEW g, \A x \in s : g[x] \in Nat /\ g[x] = f[p[x]]
  PROVE  SumFunctionOnSet(g, s) = SumFunctionOnSet(f, t)
  <1>. DEFINE Image(r) == {p[x] : x \in r}
              T == {r \in SUBSET s : /\ IsFiniteSet(Image(r))
                                     /\ SumFunctionOnSet(g, r) = SumFunctionOnSet(f, Image(r))}
  <1>1. {} \in T
    <2>1. Image({}) = {}
      OBVIOUS
    <2>. QED  BY <2>1, SumEmpty, FS_EmptySet
  <1>2. ASSUME NEW r \in SUBSET s, r \in T, NEW x \in s \ r
        PROVE  r \cup {x} \in T
    <2>1. /\ IsFiniteSet(Image(r))
          /\ SumFunctionOnSet(g, r) = SumFunctionOnSet(f, Image(r))
      BY <1>2
    <2>2. Image(r \cup {x}) = Image(r) \cup {p[x]} /\ p[x] \notin Image(r)
      OBVIOUS
    <2>3. \A z \in Image(r) \cup {p[x]} : f[z] \in Nat
      OBVIOUS
    <2>4. IsFiniteSet(r) /\ \A y \in r \cup {x} : g[y] \in Nat
      BY FS_Subset
    <2>5. SumFunctionOnSet(g, r \cup {x}) = g[x] + SumFunctionOnSet(g, r)
      BY <2>4, SumAdd
    <2>6. IsFiniteSet(Image(r) \cup {p[x]})
      BY <2>1, FS_AddElement
    <2>7. SumFunctionOnSet(f, Image(r) \cup {p[x]}) = f[p[x]] + SumFunctionOnSet(f, Image(r))
      <3>. HIDE DEF Image
      <3>. QED  BY <2>1, <2>2, <2>3, SumAdd
    <2>. HIDE DEF Image
    <2>. QED  BY <2>1, <2>2, <2>5, <2>6, <2>7
  <1>3. s \in T
    <2>. HIDE DEF T
    <2>. QED  BY <1>1, <1>2, SubsetInduction
  <1>4. Image(s) = t
    OBVIOUS
  <1>. QED  BY <1>3, <1>4

(* A sum of zeros is zero.                                                 *)
LEMMA SumZero ==
  ASSUME NEW f, NEW s, IsFiniteSet(s), \A x \in s : f[x] = 0
  PROVE  SumFunctionOnSet(f, s) = 0
  <1>. DEFINE T == {r \in SUBSET s : SumFunctionOnSet(f, r) = 0}
  <1>1. {} \in T
    BY SumEmpty
  <1>2. ASSUME NEW r \in SUBSET s, r \in T, NEW x \in s \ r
        PROVE  r \cup {x} \in T
    <2>1. IsFiniteSet(r) /\ \A y \in r \cup {x} : f[y] \in Nat
      BY FS_Subset
    <2>2. SumFunctionOnSet(f, r \cup {x}) = f[x] + SumFunctionOnSet(f, r)
      BY <2>1, SumAdd
    <2>. QED  BY <1>2, <2>2
  <1>3. s \in T
    <2>. HIDE DEF T
    <2>. QED  BY <1>1, <1>2, SubsetInduction
  <1>. QED  BY <1>3

(* Terms that are zero may be left out.                                    *)
LEMMA SumWithoutZeros ==
  ASSUME NEW f, NEW s, IsFiniteSet(s), \A x \in s : f[x] \in Nat,
         NEW r \in SUBSET s, \A x \in s \ r : f[x] = 0
  PROVE  SumFunctionOnSet(f, s) = SumFunctionOnSet(f, r)
  <1>1. IsFiniteSet(r) /\ IsFiniteSet(s \ r)
    BY FS_Subset
  <1>2. SumFunctionOnSet(f, s \ r) = 0
    BY <1>1, SumZero
  <1>3. SumFunctionOnSet(f, s) = SumFunctionOnSet(f, r) + SumFunctionOnSet(f, s \ r)
    BY SumParts
  <1>4. SumFunctionOnSet(f, r) \in Nat
    BY <1>1, SumNat
  <1>. QED  BY <1>2, <1>3, <1>4

(* The sum of what w makes of those elements of a list that are in C.      *)
Places(u, C) == {i \in 1..Len(u) : u[i] \in C}
SumOver(u, w, C) == SumFunctionOnSet([i \in 1..Len(u) |-> w[u[i]]], Places(u, C))

LEMMA SumOverNat ==
  ASSUME NEW S, NEW u \in Seq(S), NEW w, \A x \in S : w[x] \in Nat, NEW C
  PROVE  IsFiniteSet(Places(u, C)) /\ SumOver(u, w, C) \in Nat
  <1>1. IsFiniteSet(1..Len(u))
    BY CountUpTo
  <1>2. IsFiniteSet(Places(u, C))
    BY <1>1, FS_Subset DEF Places
  <1>3. \A i \in Places(u, C) : [j \in 1..Len(u) |-> w[u[j]]][i] \in Nat
    BY DEF Places
  <1>. QED  BY <1>2, <1>3, SumNat DEF SumOver

LEMMA SumOverSelected ==
  ASSUME NEW S, NEW B \in Seq(S), NEW u \in Seq(S), NEW K, Selects(u, B, Len(B), K),
         NEW w, \A x \in S : w[x] \in Nat, NEW C
  PROVE  SumOver(u, w, C) = SumOver(B, w, C \cap K)
  <1>. DEFINE s == Places(u, C)
              t == Places(B, C \cap K)
              g == [i \in 1..Len(u) |-> w[u[i]]]
              f == [i \in 1..Len(B) |-> w[B[i]]]
  <1>1. PICK p \in [1..Len(u) -> {k \in 1..Len(B) : B[k] \in K}] :
          /\ \A i, j \in 1..Len(u) : p[i] = p[j] => i = j
          /\ \A k \in 1..Len(B) : B[k] \in K => \E i \in 1..Len(u) : p[i] = k
          /\ \A i \in 1..Len(u) : u[i] = B[p[i]]
    BY DEF Selects
  <1>. DEFINE q == [i \in s |-> p[i]]
  <1>2. q \in [s -> t]
    BY <1>1 DEF Places
  <1>3. \A i, j \in s : q[i] = q[j] => i = j
    BY <1>1 DEF Places
  <1>4. \A k \in t : \E i \in s : q[i] = k
    BY <1>1 DEF Places
  <1>5. \A i \in s : g[i] \in Nat /\ g[i] = f[q[i]]
    BY <1>1 DEF Places
  <1>6. IsFiniteSet(s)
    BY SumOverNat
  <1>. HIDE DEF s, t, g, f, q
  <1>7. SumFunctionOnSet(g, s) = SumFunctionOnSet(f, t)
    BY <1>2, <1>3, <1>4, <1>5, <1>6, SumRenamed
  <1>. QED  BY <1>7 DEF SumOver, s, t, g, f

LEMMA SumOverReordered ==
  ASSUME NEW S, NEW B \in Seq(S), NEW u \in Seq(S), Reordered(u, B, Len(B)),
         NEW w, \A x \in S : w[x] \in Nat, NEW C
  PROVE  SumOver(u, w, C) = SumOver(B, w, C)
  <1>1. Len(u) = Len(B)
    BY DEF Reordered
  <1>2. PICK p \in Perm(Len(B)) : \A i \in 1..Len(B) : u[i] = B[p[i]]
    BY DEF Reordered
  <1>3. {k \in 1..Len(B) : B[k] \in S} = 1..Len(B)
    OBVIOUS
  <1>4. Selects(u, B, Len(B), S)
    <2>1. /\ p \in [1..Len(B) -> 1..Len(B)]
          /\ \A i, j \in 1..Len(B) : p[i] = p[j] => i = j
          /\ \A k \in 1..Len(B) : \E i \in 1..Len(B) : p[i] = k
      BY DEF Perm
    <2>2. p \in [1..Len(u) -> {k \in 1..Len(B) : B[k] \in S}]
      BY <1>1, <1>3, <2>1
    <2>3. /\ \A i, j \in 1..Len(u) : p[i] = p[j] => i = j
          /\ \A k \in 1..Len(B) : B[k] \in S => \E i \in 1..Len(u) : p[i] = k
          /\ \A i \in 1..Len(u) : u[i] = B[p[i]]
      BY <1>1, <1>2, <2>1
    <2>. QED  BY <2>2, <2>3, Zenon DEF Selects
  <1>5. SumOver(u, w, C) = SumOver(B, w, C \cap S)
    BY <1>4, SumOverSelected
  <1>6. Places(B, C \cap S) = Places(B, C)
    BY DEF Places
  <1>. QED  BY <1>5, <1>6 DEF SumOver

LEMMA SumOverWhole ==
  ASSUME NEW S, NEW u \in Seq(S), NEW w
  PROVE  SumOver(u, w, S) = SumFunctionOnSet([i \in 1..Len(u) |-> w[u[i]]], 1..Len(u))
  <1>1. Places(u, S) = 1..Len(u)
    BY DEF Places
  <1>. QED  BY <1>1 DEF SumOver

(* What is appended adds what it has.                                      *)
LEMMA SumOverConcat ==
  ASSUME NEW S, NEW a \in Seq(S), NEW b \in Seq(S), NEW w, \A x \in S : w[x] \in Nat
  PROVE  SumOver(a \o b, w, S) = SumOver(a, w, S) + SumOver(b, w, S)
  <1>. DEFINE n == Len(a)
              m == Len(b)
              c == a \o b
              f == [i \in 1..Len(c) |-> w[c[i]]]
              g == [i \in 1..n |-> w[a[i]]]
              h == [i \in 1..m |-> w[b[i]]]
              shift == [i \in 1..m |-> i + n]
              back == (1..Len(c)) \ (1..n)
  <1>1. n \in Nat /\ m \in Nat
    OBVIOUS
  <1>2. /\ c \in Seq(S) /\ Len(c) = n + m
        /\ \A i \in 1..(n + m) : c[i] = IF i <= n THEN a[i] ELSE b[i - n]
    BY ConcatProperties
  <1>. HIDE DEF c
  <1>3. /\ \A i \in 1..n : i \in 1..Len(c) /\ f[i] = g[i]
        /\ \A i \in 1..m : i + n \in back /\ h[i] = f[i + n]
    <2>1. \A i \in 1..n : i \in 1..(n + m) /\ i <= n
      BY <1>1
    <2>2. \A i \in 1..m : /\ i + n \in 1..(n + m) /\ ~(i + n <= n) /\ i + n - n = i
                          /\ i + n \notin 1..n
      BY <1>1
    <2>3. ASSUME NEW i \in 1..n
          PROVE  i \in 1..Len(c) /\ f[i] = g[i]
      <3>1. i \in 1..Len(c) /\ c[i] = a[i]
        BY <1>2, <2>1
      <3>. QED  BY <3>1
    <2>4. ASSUME NEW i \in 1..m
          PROVE  i + n \in back /\ h[i] = f[i + n]
      <3>1. i + n \in 1..Len(c) /\ i + n \notin 1..n
        BY <1>2, <2>2
      <3>2. c[i + n] = b[i]
        BY <1>2, <2>2
      <3>. QED  BY <3>1, <3>2
    <2>. QED  BY <2>3, <2>4
  <1>4. \A z \in back : \E i \in 1..m : i + n = z
    <2>. SUFFICES ASSUME NEW z \in back
                  PROVE  \E i \in 1..m : i + n = z
      OBVIOUS
    <2>1. z \in 1..(n + m) /\ z \notin 1..n
      BY <1>2
    <2>2. z - n \in 1..m /\ z - n + n = z
      BY <1>1, <2>1
    <2>. QED  BY <2>2
  <1>5. /\ \A i \in 1..Len(c) : f[i] \in Nat
        /\ \A i \in 1..m : h[i] \in Nat
    BY <1>2
  <1>6. IsFiniteSet(1..Len(c)) /\ IsFiniteSet(1..n) /\ IsFiniteSet(1..m)
        /\ 1..n \in SUBSET (1..Len(c))
    <2>1. Len(c) \in Nat /\ 1 \in Int /\ n \in Int /\ m \in Int /\ Len(c) \in Int
      BY <1>1, <1>2
    <2>2. IsFiniteSet(1..Len(c)) /\ IsFiniteSet(1..n) /\ IsFiniteSet(1..m)
      BY <2>1, CountUpTo
    <2>. QED  BY <1>3, <2>2
  <1>7. SumFunctionOnSet(f, 1..Len(c)) = SumFunctionOnSet(f, 1..n) + SumFunctionOnSet(f, back)
    <2>1. IsFiniteSet(1..Len(c)) /\ 1..n \in SUBSET (1..Len(c))
      BY <1>6
    <2>. DEFINE whole == 1..Len(c)
                front == 1..n
    <2>2. front \in SUBSET whole /\ IsFiniteSet(whole) /\ \A i \in whole : f[i] \in Nat
      BY <1>5, <2>1
    <2>3. back = whole \ front
      OBVIOUS
    <2>. HIDE DEF f, whole, front, back
    <2>4. SumFunctionOnSet(f, whole)
            = SumFunctionOnSet(f, front) + SumFunctionOnSet(f, whole \ front)
      BY <2>2, SumParts
    <2>. QED  BY <2>3, <2>4 DEF whole, front
  <1>8. SumFunctionOnSet(f, 1..n) = SumFunctionOnSet(g, 1..n)
    <2>. HIDE DEF f, g, n
    <2>. QED  BY <1>3, <1>6, SumSame
  <1>9. SumFunctionOnSet(h, 1..m) = SumFunctionOnSet(f, back)
    <2>1. shift \in [1..m -> back]
      BY <1>3
    <2>2. \A x, y \in 1..m : shift[x] = shift[y] => x = y
      BY <1>1
    <2>3. \A z \in back : \E x \in 1..m : shift[x] = z
      BY <1>4
    <2>4. \A x \in 1..m : h[x] \in Nat /\ h[x] = f[shift[x]]
      BY <1>3, <1>5
    <2>. DEFINE dom == 1..m
    <2>5. /\ IsFiniteSet(dom) /\ shift \in [dom -> back]
          /\ \A x, y \in dom : shift[x] = shift[y] => x = y
          /\ \A z \in back : \E x \in dom : shift[x] = z
          /\ \A x \in dom : h[x] \in Nat /\ h[x] = f[shift[x]]
      BY <1>6, <2>1, <2>2, <2>3, <2>4
    <2>. HIDE DEF f, h, shift, back, dom
    <2>6. SumFunctionOnSet(h, dom) = SumFunctionOnSet(f, back)
      BY <2>5, SumRenamed
    <2>. QED  BY <2>6 DEF dom
  <1>10. SumOver(c, w, S) = SumFunctionOnSet(f, 1..Len(c))
    BY <1>2, SumOverWhole
  <1>11. /\ SumOver(a, w, S) = SumFunctionOnSet(g, 1..n)
         /\ SumOver(b, w, S) = SumFunctionOnSet(h, 1..m)
    BY SumOverWhole
  <1>. QED  BY <1>7, <1>8, <1>9, <1>10, <1>11 DEF c

(* No more terms, none of which is larger, have no larger sum.             *)
LEMMA SumSmaller ==
  ASSUME NEW f, NEW s, IsFiniteSet(s), NEW t, IsFiniteSet(t),
         \A x \in s \cup t : f[x] \in Nat, \A x \in s, y \in t : f[x] <= f[y],
         Cardinality(s) = Cardinality(t)
  PROVE  SumFunctionOnSet(f, s) <= SumFunctionOnSet(f, t)
  <1>. DEFINE Total(r) == SumFunctionOnSet(f, r)
              T == {r \in SUBSET s : \A q \in SUBSET t :
                      Cardinality(q) = Cardinality(r) => Total(r) <= Total(q)}
  <1>1. {} \in T
    <2>1. \A q \in SUBSET t : IsFiniteSet(q) /\ Total(q) \in Nat
      <3>. SUFFICES ASSUME NEW q \in SUBSET t
                    PROVE  IsFiniteSet(q) /\ Total(q) \in Nat
        OBVIOUS
      <3>1. IsFiniteSet(q)
        BY FS_Subset
      <3>. QED  BY <3>1, SumNat
    <2>2. Total({}) = 0
      BY SumEmpty
    <2>. QED  BY <2>1, <2>2
  <1>2. ASSUME NEW r \in SUBSET s, r \in T, NEW x \in s \ r
        PROVE  r \cup {x} \in T
    <2>. SUFFICES ASSUME NEW q \in SUBSET t, Cardinality(q) = Cardinality(r \cup {x})
                  PROVE  Total(r \cup {x}) <= Total(q)
      OBVIOUS
    <2>1. IsFiniteSet(r) /\ IsFiniteSet(q)
      BY FS_Subset
    <2>2. /\ Cardinality(r) \in Nat /\ Cardinality(r \cup {x}) = Cardinality(r) + 1
          /\ Cardinality(q) \in Nat
      BY <2>1, FS_AddElement, FS_CardinalityType
    <2>3. q # {}
      <3>1. Cardinality(q) # 0
        BY <2>2
      <3>. QED  BY <3>1, FS_EmptySet
    <2>4. PICK y \in q : TRUE
      BY <2>3
    <2>5. Cardinality(q \ {y}) = Cardinality(q) - 1
      BY <2>1, FS_RemoveElement
    <2>6. Cardinality(q \ {y}) = Cardinality(r)
      BY <2>2, <2>5
    <2>7. Total(r) <= Total(q \ {y})
      BY <1>2, <2>6
    <2>8. Total(r \cup {x}) = f[x] + Total(r)
      <3>1. \A z \in r \cup {x} : f[z] \in Nat
        OBVIOUS
      <3>. QED  BY <2>1, <3>1, SumAdd
    <2>9. Total(q) = f[y] + Total(q \ {y})
      <3>1. \A z \in q : f[z] \in Nat
        OBVIOUS
      <3>. QED  BY <2>1, <3>1, SumApart
    <2>10. f[x] \in Nat /\ f[y] \in Nat /\ f[x] <= f[y] /\ Total(r) \in Nat
           /\ Total(q \ {y}) \in Nat
      <3>1. IsFiniteSet(q \ {y}) /\ (\A z \in q \ {y} : f[z] \in Nat) /\ \A z \in r : f[z] \in Nat
        BY <2>1, FS_Subset
      <3>. QED  BY <2>1, <3>1, SumNat
    <2>. HIDE DEF Total, T
    <2>. QED  BY <2>7, <2>8, <2>9, <2>10
  <1>3. s \in T
    <2>. HIDE DEF T
    <2>. QED  BY <1>1, <1>2, SubsetInduction
  <1>. QED  BY <1>3
=============================================================================
